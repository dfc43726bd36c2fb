------------------------------ MODULE RtspSink ------------------------------
(***************************************************************************)
(* The RTSP sink module (rtsp_sink.cpp). Process looks up the context of  *)
(* the frame's channel in ctxs_, creating it and opening its RTSP stream  *)
(* on first use, and feeds the frame to that stream; Close closes and     *)
(* deletes every context of ctxs_.                                         *)
(*                                                                         *)
(* The pipeline calls Process of a module from one thread per channel     *)
(* (frames are dispatched to the module's threads by channel index), so   *)
(* the lookup and the insertion of GetRtspSinkContext, which take no      *)
(* lock, are separate steps of the calling thread: a thread that found    *)
(* no context creates one later, whatever other threads did meanwhile.    *)
(*                                                                         *)
(* Mosaic is is_mosaic_style_: Open sets it when both "cols" and "rows"   *)
(* are given. A stream is named by the context that opened it and records *)
(* its UDP port offset from udp_port_.                                     *)
(***************************************************************************)
EXTENDS Naturals, FiniteSets

CONSTANTS
  NChans,      \* channels feeding the sink: channel_idx \in 0 .. NChans - 1
  Mosaic,      \* is_mosaic_style_
  MaxFrames    \* bound: frames per channel

ASSUME SinkAssumption ==
  /\ NChans \in Nat \ {0}
  /\ Mosaic \in BOOLEAN
  /\ MaxFrames \in Nat

Chans == 0 .. NChans - 1

\* Contexts are numbered in creation order; NoCtx is an absent map entry.
MaxCtx == NChans * MaxFrames
Ctxs == 1 .. MaxCtx
NoCtx == 0

VARIABLES
  opened,      \* Open returned true
  ctxs,        \* ctxs_: channel_idx -> context (NoCtx when absent)
  nctx,        \* contexts created so far
  port,        \* port offset of the stream of each created context
  live,        \* contexts whose stream is open and not yet closed
  pc,          \* per channel thread: "idle" or "miss" (lookup found none)
  sent,        \* frames each channel has given to Process
  updates      \* history: <<channel, context>> of each stream_->Update

vars == <<opened, ctxs, nctx, port, live, pc, sent, updates>>

TypeOK ==
  /\ opened \in BOOLEAN
  /\ ctxs \in [Chans -> Ctxs \cup {NoCtx}]
  /\ nctx \in 0 .. MaxCtx
  /\ port \in [Ctxs -> Chans]
  /\ live \subseteq Ctxs
  /\ pc \in [Chans -> {"idle", "miss"}]
  /\ sent \in [Chans -> 0 .. MaxFrames]
  /\ updates \subseteq Chans \X Ctxs

Init ==
  /\ opened = FALSE
  /\ ctxs = [c \in Chans |-> NoCtx]
  /\ nctx = 0
  /\ port = [x \in Ctxs |-> 0]
  /\ live = {}
  /\ pc = [c \in Chans |-> "idle"]
  /\ sent = [c \in Chans |-> 0]
  /\ updates = {}

-----------------------------------------------------------------------------
(* RtspSink::Open with http-port, udp-port and encoder-type present.     *)
Open ==
  /\ ~opened
  /\ opened' = TRUE
  /\ UNCHANGED <<ctxs, nctx, port, live, pc, sent, updates>>

(* Mutant of LookupKey: the mosaic lookup used for every style.          *)
LookupKeyAlwaysZero(c) == 0

(* The key GetRtspSinkContext searches: 0 in mosaic style, the frame's   *)
(* channel otherwise.                                                      *)
LookupKey(c) == IF Mosaic THEN 0 ELSE c

(* The UDP port offset the new context's stream is opened on: udp_port_  *)
(* in mosaic style, udp_port_ + channel_idx otherwise.                    *)
PortOf(c) == IF Mosaic THEN 0 ELSE c

(* Process(data) of channel c, first part: GetRtspSinkContext searches   *)
(* ctxs_. When it finds a context, Process feeds the frame to its stream  *)
(* and returns; otherwise the thread goes on to create one.               *)
Lookup(c) ==
  /\ opened
  /\ pc[c] = "idle"
  /\ sent[c] < MaxFrames
  /\ LET x == ctxs[LookupKey(c)] IN
       IF x # NoCtx
         THEN /\ updates' = updates \cup {<<c, x>>}
              /\ sent' = [sent EXCEPT ![c] = @ + 1]
              /\ UNCHANGED <<pc>>
         ELSE /\ pc' = [pc EXCEPT ![c] = "miss"]
              /\ UNCHANGED <<updates, sent>>
  /\ UNCHANGED <<opened, ctxs, nctx, port, live>>

(* Second part, after a miss: a new context with a new RTSPSinkJoinStream *)
(* opened on PortOf(c) (a failed Open is only logged), stored as          *)
(* ctxs_[channel_idx] whatever key was searched and whatever entry is     *)
(* there now; then the frame is fed to its stream. The bound MaxCtx      *)
(* never blocks: each Create also counts one of at most MaxCtx frames.    *)
Create(c) ==
  LET x == nctx + 1 IN
  /\ pc[c] = "miss"
  /\ nctx < MaxCtx
  /\ nctx' = x
  /\ port' = [port EXCEPT ![x] = PortOf(c)]
  /\ live' = live \cup {x}
  /\ ctxs' = [ctxs EXCEPT ![c] = x]
  /\ updates' = updates \cup {<<c, x>>}
  /\ sent' = [sent EXCEPT ![c] = @ + 1]
  /\ pc' = [pc EXCEPT ![c] = "idle"]
  /\ UNCHANGED opened

(* Mutant of Close: the contexts are deleted without closing streams.   *)
CloseNoStreamClose ==
  /\ \A c \in Chans : pc[c] = "idle"
  /\ ctxs' = [c \in Chans |-> NoCtx]
  /\ opened' = FALSE
  /\ UNCHANGED <<nctx, port, live, pc, sent, updates>>

(* RtspSink::Close, called by the pipeline once no Process call is in    *)
(* flight (and again by the destructor): every context in ctxs_ has its   *)
(* stream closed and deleted, and ctxs_ is cleared. An empty ctxs_ is an  *)
(* early return, which changes nothing either.                             *)
Close ==
  /\ \A c \in Chans : pc[c] = "idle"
  /\ live' = live \ {ctxs[c] : c \in Chans}
  /\ ctxs' = [c \in Chans |-> NoCtx]
  /\ opened' = FALSE
  /\ UNCHANGED <<nctx, port, pc, sent, updates>>

Next ==
  \/ Open
  \/ \E c \in Chans : Lookup(c) \/ Create(c)
  \/ Close

Spec == Init /\ [][Next]_vars

-----------------------------------------------------------------------------
(* Every frame is fed to a stream opened for its own channel (on         *)
(* udp_port_ + channel_idx), or to the single join stream in mosaic       *)
(* style: no channel's video is published on another channel's port.     *)
FramesOnOwnPort ==
  \A u \in updates : port[u[2]] = PortOf(u[1])

(* No stream is leaked: every stream still open belongs to a context      *)
(* that ctxs_ holds, so Close (and the destructor) will close it.         *)
StreamsReachable ==
  \A x \in live : \E c \in Chans : ctxs[c] = x

(* Mosaic style joins all channels into one RTSP stream: the sink opens  *)
(* at most one stream on udp_port_.                                        *)
MosaicSingleStream ==
  Mosaic => nctx <= 1

=============================================================================
