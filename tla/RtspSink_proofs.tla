--------------------------- MODULE RtspSink_proofs ---------------------------
(***************************************************************************)
(* Proofs about the RTSP sink, for every number of channels and frame     *)
(* bound: type correctness, that every frame is published on its own      *)
(* channel's port in both styles, and that in the per-channel style no    *)
(* stream is ever left out of ctxs_, however the unlocked lookups and     *)
(* insertions of the channel threads interleave.                          *)
(***************************************************************************)
EXTENDS RtspSink, TLAPS

USE SinkAssumption

LEMMA MaxCtxNat == MaxCtx \in Nat
BY DEF MaxCtx

(* TypeOK alone is not inductive: Create counts the frame of a thread    *)
(* that missed, so that thread must still be under the frame bound, as  *)
(* its Lookup checked.                                                     *)
TypeInv ==
  /\ TypeOK
  /\ \A c \in Chans : pc[c] = "miss" => sent[c] < MaxFrames

LEMMA InitTypeInv == Init => TypeInv
<1> SUFFICES ASSUME Init PROVE TypeInv
  OBVIOUS
<1>1. 0 \in Chans /\ NoCtx \in Ctxs \cup {NoCtx} /\ 0 \in 0 .. MaxCtx /\ 0 \in 0 .. MaxFrames
  BY MaxCtxNat DEF Chans, NoCtx
<1>2. port \in [Ctxs -> Chans] /\ ctxs \in [Chans -> Ctxs \cup {NoCtx}]
  BY <1>1 DEF Init
<1>3. nctx \in 0 .. MaxCtx /\ live \subseteq Ctxs /\ updates \subseteq Chans \X Ctxs
  BY <1>1 DEF Init
<1>4. opened \in BOOLEAN /\ pc \in [Chans -> {"idle", "miss"}] /\ sent \in [Chans -> 0 .. MaxFrames]
  BY <1>1 DEF Init
<1>5. \A c \in Chans : pc[c] = "miss" => sent[c] < MaxFrames
  BY DEF Init
<1> QED
  BY <1>2, <1>3, <1>4, <1>5 DEF TypeInv, TypeOK

LEMMA NextTypeInv == TypeInv /\ [Next]_vars => TypeInv'
<1> SUFFICES ASSUME TypeInv, [Next]_vars PROVE TypeInv'
  OBVIOUS
<1> USE DEF TypeInv
<1>1. CASE Open
  BY <1>1 DEF Open, TypeOK
<1>2. ASSUME NEW c \in Chans, Lookup(c) PROVE TypeInv'
  <2>1. LookupKey(c) \in Chans
    BY DEF LookupKey, Chans
  <2>2. ctxs[LookupKey(c)] \in Ctxs \cup {NoCtx} /\ sent[c] < MaxFrames
    BY <1>2, <2>1 DEF Lookup, TypeOK
  <2> QED
    BY <1>2, <2>2 DEF Lookup, TypeOK
<1>3. ASSUME NEW c \in Chans, Create(c) PROVE TypeInv'
  <2>1. nctx + 1 \in Ctxs /\ nctx + 1 \in 0 .. MaxCtx
    BY <1>3, MaxCtxNat DEF Create, TypeOK, Ctxs
  <2>2. PortOf(c) \in Chans /\ sent[c] + 1 \in 0 .. MaxFrames
    BY <1>3 DEF Create, PortOf, Chans, TypeOK
  <2>3. port' \in [Ctxs -> Chans] /\ ctxs' \in [Chans -> Ctxs \cup {NoCtx}]
    BY <1>3, <2>1, <2>2 DEF Create, TypeOK
  <2>4. live' \subseteq Ctxs /\ updates' \subseteq Chans \X Ctxs
    BY <1>3, <2>1 DEF Create, TypeOK
  <2>5. pc' \in [Chans -> {"idle", "miss"}] /\ sent' \in [Chans -> 0 .. MaxFrames]
    BY <1>3, <2>2 DEF Create, TypeOK
  <2>6. \A d \in Chans : pc'[d] = "miss" => sent'[d] < MaxFrames
    BY <1>3 DEF Create, TypeOK
  <2> QED
    BY <1>3, <2>1, <2>3, <2>4, <2>5, <2>6 DEF Create, TypeOK
<1>4. CASE Close
  BY <1>4 DEF Close, TypeOK, NoCtx
<1>5. CASE UNCHANGED vars
  BY <1>5 DEF vars, TypeOK
<1> QED
  BY <1>1, <1>2, <1>3, <1>4, <1>5 DEF Next

(* Every action keeps the variables in their types.                       *)
THEOREM SinkTypeCorrect == Spec => []TypeOK
BY InitTypeInv, NextTypeInv, PTL DEF Spec, TypeInv

-----------------------------------------------------------------------------
(* Inductive strengthening of FramesOnOwnPort: contexts are numbered      *)
(* 1 .. nctx, so a new context never reuses the port entry of one in use, *)
(* and the context ctxs_ holds for channel c streams on PortOf(c).        *)
PortInv ==
  /\ \A c \in Chans : ctxs[c] <= nctx
  /\ \A u \in updates : u[2] <= nctx
  /\ \A c \in Chans : ctxs[c] # NoCtx => port[ctxs[c]] = PortOf(c)
  /\ FramesOnOwnPort

(* A Lookup that finds a context for channel c finds one on PortOf(c):   *)
(* in per-channel style it is c's own, in mosaic style every port is 0.  *)
LEMMA LookupPort ==
  ASSUME TypeOK, PortInv, NEW c \in Chans, ctxs[LookupKey(c)] # NoCtx
  PROVE  port[ctxs[LookupKey(c)]] = PortOf(c)
<1>1. LookupKey(c) \in Chans
  BY DEF LookupKey, Chans
<1>2. port[ctxs[LookupKey(c)]] = PortOf(LookupKey(c))
  BY <1>1 DEF PortInv
<1> QED
  BY <1>2 DEF LookupKey, PortOf

LEMMA NextPortInv == TypeOK /\ PortInv /\ [Next]_vars => PortInv'
<1> SUFFICES ASSUME TypeOK, PortInv, [Next]_vars PROVE PortInv'
  OBVIOUS
<1>1. CASE Open
  BY <1>1 DEF Open, PortInv, FramesOnOwnPort
<1>2. ASSUME NEW c \in Chans, Lookup(c) PROVE PortInv'
  <2>1. LookupKey(c) \in Chans
    BY DEF LookupKey, Chans
  <2>2. CASE ctxs[LookupKey(c)] # NoCtx
    <3>1. updates' = updates \cup {<<c, ctxs[LookupKey(c)]>>}
      BY <1>2, <2>2 DEF Lookup
    <3>2. port[ctxs[LookupKey(c)]] = PortOf(c) /\ ctxs[LookupKey(c)] <= nctx
      BY <2>1, <2>2, LookupPort DEF PortInv
    <3> QED
      BY <1>2, <3>1, <3>2 DEF Lookup, PortInv, FramesOnOwnPort
  <2>3. CASE ctxs[LookupKey(c)] = NoCtx
    BY <1>2, <2>3 DEF Lookup, PortInv, FramesOnOwnPort
  <2> QED
    BY <2>2, <2>3
<1>3. ASSUME NEW c \in Chans, Create(c) PROVE PortInv'
  <2> DEFINE x == nctx + 1
  <2>1. /\ nctx' = x /\ port' = [port EXCEPT ![x] = PortOf(c)]
        /\ ctxs' = [ctxs EXCEPT ![c] = x] /\ updates' = updates \cup {<<c, x>>}
    BY <1>3 DEF Create
  <2>2. x \in Ctxs /\ nctx \in Nat
    BY <1>3, MaxCtxNat DEF Create, TypeOK, Ctxs
  <2>3. \A y \in Ctxs : y <= nctx => port'[y] = port[y]
    BY <2>1, <2>2 DEF TypeOK
  <2>4. \A d \in Chans : ctxs'[d] <= nctx'
    BY <2>1, <2>2 DEF PortInv, TypeOK, NoCtx, Ctxs
  <2>5. \A d \in Chans : ctxs'[d] # NoCtx => port'[ctxs'[d]] = PortOf(d)
    BY <2>1, <2>2, <2>3 DEF PortInv, TypeOK, NoCtx, Ctxs
  <2>6. \A u \in updates' : u[2] <= nctx' /\ port'[u[2]] = PortOf(u[1])
    <3> SUFFICES ASSUME NEW u \in updates' PROVE u[2] <= nctx' /\ port'[u[2]] = PortOf(u[1])
      OBVIOUS
    <3>1. CASE u = <<c, x>>
      BY <3>1, <2>1, <2>2 DEF TypeOK
    <3>2. CASE u \in updates
      <4>1. u[2] \in Ctxs /\ u[2] <= nctx /\ port[u[2]] = PortOf(u[1])
        BY <3>2 DEF PortInv, FramesOnOwnPort, TypeOK
      <4> QED
        BY <4>1, <2>1, <2>2, <2>3 DEF Ctxs
    <3> QED
      BY <3>1, <3>2, <2>1
  <2> QED
    BY <2>4, <2>5, <2>6 DEF PortInv, FramesOnOwnPort
<1>4. CASE Close
  BY <1>4 DEF Close, PortInv, FramesOnOwnPort, NoCtx, TypeOK
<1>5. CASE UNCHANGED vars
  BY <1>5 DEF vars, PortInv, FramesOnOwnPort
<1> QED
  BY <1>1, <1>2, <1>3, <1>4, <1>5 DEF Next

(* In both styles every frame Process feeds goes to a stream opened on   *)
(* its own channel's port (udp_port_ + channel_idx), or on udp_port_ in   *)
(* mosaic style, for every number of channels and frames.                 *)
THEOREM FramesOnOwnPortHolds == Spec => []FramesOnOwnPort
<1>1. Init => PortInv
  BY DEF Init, PortInv, FramesOnOwnPort, NoCtx
<1>2. PortInv => FramesOnOwnPort
  BY DEF PortInv
<1> QED
  BY <1>1, <1>2, NextPortInv, SinkTypeCorrect, PTL DEF Spec

-----------------------------------------------------------------------------
(* Inductive strengthening of StreamsReachable in per-channel style: a    *)
(* thread that missed still finds its own key empty, since only it        *)
(* inserts under that key, so its Create overwrites no context.           *)
ReachInv ==
  /\ StreamsReachable
  /\ \A c \in Chans : pc[c] = "miss" => ctxs[c] = NoCtx

LEMMA NextReachInv ==
  ~Mosaic /\ TypeOK /\ ReachInv /\ [Next]_vars => ReachInv'
<1> SUFFICES ASSUME ~Mosaic, TypeOK, ReachInv, [Next]_vars PROVE ReachInv'
  OBVIOUS
<1>1. CASE Open
  BY <1>1 DEF Open, ReachInv, StreamsReachable
<1>2. ASSUME NEW c \in Chans, Lookup(c) PROVE ReachInv'
  <2>1. LookupKey(c) = c
    BY DEF LookupKey
  <2> QED
    BY <1>2, <2>1 DEF Lookup, ReachInv, StreamsReachable, TypeOK
<1>3. ASSUME NEW c \in Chans, Create(c) PROVE ReachInv'
  <2> DEFINE x == nctx + 1
  <2>1. /\ ctxs' = [ctxs EXCEPT ![c] = x] /\ live' = live \cup {x}
        /\ pc' = [pc EXCEPT ![c] = "idle"] /\ ctxs[c] = NoCtx
    BY <1>3 DEF Create, ReachInv
  <2>2. \A y \in live : y # NoCtx
    BY DEF TypeOK, Ctxs, NoCtx
  <2>3. StreamsReachable'
    BY <2>1, <2>2 DEF ReachInv, StreamsReachable, TypeOK
  <2>4. \A d \in Chans : pc'[d] = "miss" => ctxs'[d] = NoCtx
    BY <2>1 DEF ReachInv, TypeOK
  <2> QED
    BY <2>3, <2>4 DEF ReachInv
<1>4. CASE Close
  BY <1>4 DEF Close, ReachInv, StreamsReachable, TypeOK
<1>5. CASE UNCHANGED vars
  BY <1>5 DEF vars, ReachInv, StreamsReachable
<1> QED
  BY <1>1, <1>2, <1>3, <1>4, <1>5 DEF Next

(* In per-channel style no RTSP stream is leaked: every open stream      *)
(* belongs to a context ctxs_ holds, so Close closes it, whatever the     *)
(* interleaving of the channel threads' unlocked lookups and insertions.  *)
THEOREM StreamsReachableHolds == ~Mosaic => (Spec => []StreamsReachable)
<1> SUFFICES ASSUME ~Mosaic PROVE Spec => []StreamsReachable
  OBVIOUS
<1>1. Init => ReachInv
  BY DEF Init, ReachInv, StreamsReachable
<1>2. TypeOK /\ ReachInv /\ [Next]_vars => ReachInv'
  BY NextReachInv
<1>3. ReachInv => StreamsReachable
  BY DEF ReachInv
<1> QED
  BY <1>1, <1>2, <1>3, SinkTypeCorrect, PTL DEF Spec

=============================================================================
