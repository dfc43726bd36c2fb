-------------------------- MODULE Inferencer_proofs --------------------------
(***************************************************************************)
(* Proofs about the inference module: type correctness, the per-thread  *)
(* delivery order and the infer_interval policy with the range of         *)
(* drop_count, for every set of threads, batch size, interval and frame   *)
(* bound.                                                                  *)
(***************************************************************************)
EXTENDS Inferencer, SequenceTheorems, TLAPS

USE ConstantsAssumption

(* Numbering of a thread's frames: d holds frames 1 .. Len(d), h the     *)
(* following ones, n frames in all. Appending frame n + 1 to h, or moving *)
(* the head of h to the end of d, keeps this numbering.                   *)
Numbered(t, d, h, n) ==
  /\ Len(d) + Len(h) = n
  /\ \A i \in 1 .. Len(d) : d[i] = <<t, i>>
  /\ \A i \in 1 .. Len(h) : h[i] = <<t, Len(d) + i>>

LEMMA NumberedAppend ==
  ASSUME NEW S, NEW t, NEW d \in Seq(S), NEW h \in Seq(S), NEW n \in Nat,
         <<t, n + 1>> \in S, Numbered(t, d, h, n)
  PROVE  Numbered(t, d, Append(h, <<t, n + 1>>), n + 1)
<1> DEFINE x == <<t, n + 1>>  h2 == Append(h, x)
<1>1. Len(d) \in Nat /\ Len(h) \in Nat
  BY LenProperties
<1>2. Len(h2) = Len(h) + 1 /\ \A i \in 1 .. Len(h) : h2[i] = h[i] /\ h2[Len(h) + 1] = x
  BY AppendProperties
<1>3. Len(d) + Len(h2) = n + 1
  BY <1>1, <1>2 DEF Numbered
<1>4. \A i \in 1 .. Len(h2) : h2[i] = <<t, Len(d) + i>>
  <2> SUFFICES ASSUME NEW i \in 1 .. Len(h2) PROVE h2[i] = <<t, Len(d) + i>>
    OBVIOUS
  <2>1. CASE i \in 1 .. Len(h)
    BY <2>1, <1>2 DEF Numbered
  <2>2. CASE i = Len(h) + 1
    BY <2>2, <1>1, <1>2 DEF Numbered
  <2> QED
    BY <2>1, <2>2, <1>1, <1>2
<1> QED
  BY <1>3, <1>4 DEF Numbered

LEMMA NumberedShift ==
  ASSUME NEW S, NEW t, NEW d \in Seq(S), NEW h \in Seq(S), NEW n \in Nat,
         h # << >>, Numbered(t, d, h, n)
  PROVE  Numbered(t, Append(d, Head(h)), Tail(h), n)
<1> DEFINE d2 == Append(d, Head(h))
<1>1. Len(d) \in Nat /\ Len(h) \in Nat /\ Len(h) >= 1 /\ Head(h) = h[1]
  BY LenProperties, HeadTailProperties
<1>2. Head(h) \in S /\ Len(Tail(h)) = Len(h) - 1
      /\ \A i \in 1 .. Len(Tail(h)) : Tail(h)[i] = h[i + 1]
  BY HeadTailProperties
<1>3. Len(d2) = Len(d) + 1 /\ \A i \in 1 .. Len(d) : d2[i] = d[i] /\ d2[Len(d) + 1] = Head(h)
  BY <1>2, AppendProperties
<1>4. Len(d2) + Len(Tail(h)) = n
  <2> DEFINE a == Len(d)  b == Len(h)
  <2>1. a \in Nat /\ b \in Nat /\ a + b = n
    BY <1>1 DEF Numbered
  <2>2. Len(d2) = a + 1 /\ Len(Tail(h)) = b - 1
    BY <1>2, <1>3
  <2>3. (a + 1) + (b - 1) = n
    BY <2>1
  <2> QED
    BY <2>2, <2>3
<1>5. \A i \in 1 .. Len(d2) : d2[i] = <<t, i>>
  <2> SUFFICES ASSUME NEW i \in 1 .. Len(d2) PROVE d2[i] = <<t, i>>
    OBVIOUS
  <2>1. CASE i \in 1 .. Len(d)
    BY <2>1, <1>3 DEF Numbered
  <2>2. CASE i = Len(d) + 1
    BY <2>2, <1>1, <1>3 DEF Numbered
  <2> QED
    BY <2>1, <2>2, <1>1, <1>3
<1>6. \A i \in 1 .. Len(Tail(h)) : Tail(h)[i] = <<t, Len(d2) + i>>
  <2> SUFFICES ASSUME NEW i \in 1 .. Len(Tail(h)) PROVE Tail(h)[i] = <<t, Len(d2) + i>>
    OBVIOUS
  <2>1. i + 1 \in 1 .. Len(h)
    BY <1>1, <1>2
  <2> QED
    BY <2>1, <1>1, <1>2, <1>3 DEF Numbered
<1> QED
  BY <1>4, <1>5, <1>6 DEF Numbered

(* Range of a sequence of frames is a set of frames.                      *)
LEMMA RangeFrames ==
  ASSUME NEW s \in Seq(Frames) PROVE Range(s) \subseteq Frames
BY DEF Range

LEMMA InitTypeOK == Init => TypeOK
<1> SUFFICES ASSUME Init PROVE TypeOK
  OBVIOUS
<1>1. opened \in BOOLEAN /\ closed \in BOOLEAN /\ ctxs \subseteq Threads
  BY DEF Init
<1>2. dropCount \in [Threads -> Nat] /\ nsent \in [Threads -> 0 .. MaxFrames]
      /\ ended \in [Threads -> BOOLEAN]
  BY DEF Init
<1>3. batch \in [Threads -> Seq(Frames)] /\ inferQ \subseteq SUBSET Frames
      /\ postQ \subseteq Frames /\ fed \subseteq Frames
  BY DEF Init
<1>4. card \in [Frames -> CardStates] /\ objs \in [Frames -> Nat]
  BY DEF Init, CardStates
<1>5. TypeHelper
  BY DEF Init, TypeHelper
<1> QED
  BY <1>1, <1>2, <1>3, <1>4, <1>5 DEF TypeOK, TypeContext, TypeEngine

(* Process keeps the types: the new frame <<t, nsent[t] + 1>> is a frame *)
(* because nsent[t] < MaxFrames.                                           *)
LEMMA ProcessTypeOK ==
  ASSUME TypeOK, NEW t \in Threads, NEW eos \in BOOLEAN, Process(t, eos)
  PROVE  TypeOK'
<1> DEFINE f == <<t, nsent[t] + 1>>
           drop == Interval > 0 /\ dropCount[t] % Interval # 0
<1>1. f \in Frames
  BY DEF Process, TypeOK, TypeContext, Frames
<1>2. TypeContext'
  <2>1. dropCount' \in [Threads -> Nat]
    BY DEF Process, NextDropCount, TypeOK, TypeContext
  <2>2. nsent' \in [Threads -> 0 .. MaxFrames] /\ ended' \in [Threads -> BOOLEAN]
    BY DEF Process, TypeOK, TypeContext
  <2>3. opened' \in BOOLEAN /\ closed' \in BOOLEAN /\ ctxs' \subseteq Threads
    BY DEF Process, GetInferContext, TypeOK, TypeContext
  <2> QED
    BY <2>1, <2>2, <2>3 DEF TypeContext
<1>3. TypeHelper'
  BY <1>1 DEF Process, TypeOK, TypeHelper
<1>4. postQ' = postQ /\ objs' = objs
  BY DEF Process
<1>5. ASSUME eos \/ drop PROVE TypeEngine'
  <2>1. card' = [card EXCEPT ![f] = "ready"]
    BY <1>5 DEF Process
  <2>2. card' \in [Frames -> CardStates]
    BY <1>1, <2>1 DEF TypeOK, TypeEngine, CardStates
  <2>3. batch' = batch /\ inferQ' = inferQ /\ fed' = fed
    BY <1>5 DEF Process
  <2> QED
    BY <1>4, <2>2, <2>3 DEF TypeOK, TypeEngine
<1>6. ASSUME ~(eos \/ drop) PROVE TypeEngine'
  <2>1. FeedData(t, f)
    BY <1>6 DEF Process
  <2>2. Append(batch[t], f) \in Seq(Frames)
    BY <1>1 DEF TypeOK, TypeEngine
  <2>3. Range(Append(batch[t], f)) \subseteq Frames
    BY <2>2, RangeFrames
  <2>4. ASSUME Len(Append(batch[t], f)) = BatchSize
        PROVE batch' \in [Threads -> Seq(Frames)] /\ inferQ' \subseteq SUBSET Frames
    <3>1. batch' = [batch EXCEPT ![t] = <<>>]
          /\ inferQ' = inferQ \cup {Range(Append(batch[t], f))}
      BY <2>1, <2>4 DEF FeedData
    <3>2. batch' \in [Threads -> Seq(Frames)]
      BY <3>1 DEF TypeOK, TypeEngine
    <3>3. inferQ' \subseteq SUBSET Frames
      BY <3>1, <2>3 DEF TypeOK, TypeEngine
    <3> QED
      BY <3>2, <3>3
  <2>5. ASSUME Len(Append(batch[t], f)) # BatchSize
        PROVE batch' \in [Threads -> Seq(Frames)] /\ inferQ' \subseteq SUBSET Frames
    <3>1. batch' = [batch EXCEPT ![t] = Append(batch[t], f)] /\ inferQ' = inferQ
      BY <2>1, <2>5 DEF FeedData
    <3> QED
      BY <3>1, <2>2 DEF TypeOK, TypeEngine
  <2>6. card' \in [Frames -> CardStates] /\ fed' \subseteq Frames
    BY <2>1, <1>1 DEF FeedData, TypeOK, TypeEngine, CardStates
  <2>7. batch' \in [Threads -> Seq(Frames)] /\ inferQ' \subseteq SUBSET Frames
    BY <2>4, <2>5
  <2> QED
    BY <1>4, <2>6, <2>7 DEF TypeOK, TypeEngine
<1> QED
  BY <1>2, <1>3, <1>5, <1>6 DEF TypeOK

(* Every action keeps the variables in their types.                       *)
THEOREM TypeCorrect == Spec => []TypeOK
<1>1. Init => TypeOK
  BY InitTypeOK
<1>2. TypeOK /\ [Next]_vars => TypeOK'
  <2> SUFFICES ASSUME TypeOK, [Next]_vars PROVE TypeOK'
    OBVIOUS
  <2>1. CASE Open
    BY <2>1 DEF Open, TypeOK, TypeContext, TypeEngine, TypeHelper
  <2>2. ASSUME NEW t \in Threads, NEW eos \in BOOLEAN, Process(t, eos)
        PROVE TypeOK'
    BY <2>2, ProcessTypeOK
  <2>3. ASSUME NEW t \in Threads, Timeout(t) PROVE TypeOK'
    <3>1. Range(batch[t]) \subseteq Frames
      BY RangeFrames DEF TypeOK, TypeEngine
    <3>2. TypeEngine'
      BY <2>3, <3>1 DEF Timeout, TypeOK, TypeEngine
    <3> QED
      BY <2>3, <3>2 DEF Timeout, TypeOK, TypeContext, TypeHelper
  <2>4. ASSUME NEW B \in inferQ, Infer(B) PROVE TypeOK'
    BY <2>4 DEF Infer, TypeOK, TypeContext, TypeEngine, TypeHelper
  <2>5. ASSUME NEW f \in postQ, Postproc(f) PROVE TypeOK'
    <3>1. TypeEngine'
      BY <2>5 DEF Postproc, TypeOK, TypeEngine, CardStates
    <3> QED
      BY <2>5, <3>1 DEF Postproc, TypeOK, TypeContext, TypeHelper
  <2>6. ASSUME NEW t \in Threads, Deliver(t) PROVE TypeOK'
    <3>1. TypeHelper'
      BY <2>6 DEF Deliver, TypeOK, TypeHelper
    <3> QED
      BY <2>6, <3>1 DEF Deliver, TypeOK, TypeContext, TypeEngine
  <2>7. CASE Close
    BY <2>7 DEF Close, TypeOK, TypeContext, TypeEngine, TypeHelper
  <2>8. CASE UNCHANGED vars
    BY <2>8 DEF vars, TypeOK, TypeContext, TypeEngine, TypeHelper
  <2> QED
    BY <2>1, <2>2, <2>3, <2>4, <2>5, <2>6, <2>7, <2>8 DEF Next
<1> QED
  BY <1>1, <1>2, PTL DEF Spec

-----------------------------------------------------------------------------
(* Inductive strengthening of InOrderDelivery: what thread t submitted   *)
(* is exactly what its helper delivered followed by what its FIFO still  *)
(* holds, numbered 1 .. nsent[t] in call order.                           *)
OrderInv == \A t \in Threads : Numbered(t, delivered[t], hq[t], nsent[t])

LEMMA InitOrderInv == Init => OrderInv
BY DEF Init, OrderInv, Numbered

(* Process appends frame <<t, nsent[t] + 1>> to t's FIFO.                 *)
LEMMA ProcessOrderInv ==
  ASSUME TypeOK, OrderInv, NEW t \in Threads, NEW eos \in BOOLEAN, Process(t, eos)
  PROVE  OrderInv'
<1> SUFFICES ASSUME NEW u \in Threads
             PROVE  Numbered(u, delivered'[u], hq'[u], nsent'[u])
  BY DEF OrderInv
<1>1. /\ hq' = [hq EXCEPT ![t] = Append(@, <<t, nsent[t] + 1>>)]
      /\ nsent' = [nsent EXCEPT ![t] = @ + 1]
      /\ delivered' = delivered
      /\ nsent[t] < MaxFrames
  BY DEF Process
<1>2. hq[t] \in Seq(Frames) /\ delivered[t] \in Seq(Frames) /\ nsent[t] \in Nat
  BY DEF TypeOK, TypeHelper, TypeContext
<1>3. CASE u = t
  <2>1. <<t, nsent[t] + 1>> \in Frames
    BY <1>1, <1>2 DEF Frames
  <2>2. Numbered(t, delivered[t], Append(hq[t], <<t, nsent[t] + 1>>), nsent[t] + 1)
    BY <1>2, <2>1, NumberedAppend DEF OrderInv
  <2> QED
    BY <1>1, <1>3, <2>2 DEF TypeOK, TypeHelper, TypeContext
<1>4. CASE u # t
  BY <1>1, <1>4 DEF OrderInv, TypeOK, TypeHelper, TypeContext
<1> QED
  BY <1>3, <1>4

(* Deliver moves the head of t's FIFO to the end of t's deliveries.        *)
LEMMA DeliverOrderInv ==
  ASSUME TypeOK, OrderInv, NEW t \in Threads, Deliver(t)
  PROVE  OrderInv'
<1> SUFFICES ASSUME NEW u \in Threads
             PROVE  Numbered(u, delivered'[u], hq'[u], nsent'[u])
  BY DEF OrderInv
<1>1. /\ hq[t] # <<>>
      /\ hq' = [hq EXCEPT ![t] = Tail(@)]
      /\ delivered' = [delivered EXCEPT ![t] = Append(@, Head(hq[t]))]
      /\ nsent' = nsent
  BY DEF Deliver
<1>2. hq[t] \in Seq(Frames) /\ delivered[t] \in Seq(Frames) /\ nsent[t] \in Nat
  BY DEF TypeOK, TypeHelper, TypeContext
<1>3. CASE u = t
  <2>1. Numbered(t, Append(delivered[t], Head(hq[t])), Tail(hq[t]), nsent[t])
    BY <1>1, <1>2, NumberedShift DEF OrderInv
  <2> QED
    BY <1>1, <1>3, <2>1 DEF TypeOK, TypeHelper
<1>4. CASE u # t
  BY <1>1, <1>4 DEF OrderInv, TypeOK, TypeHelper
<1> QED
  BY <1>3, <1>4

LEMMA NextOrderInv == TypeOK /\ OrderInv /\ [Next]_vars => OrderInv'
<1> SUFFICES ASSUME TypeOK, OrderInv, [Next]_vars PROVE OrderInv'
  OBVIOUS
<1>1. CASE Open
  BY <1>1 DEF Open, OrderInv
<1>2. ASSUME NEW t \in Threads, NEW eos \in BOOLEAN, Process(t, eos) PROVE OrderInv'
  BY <1>2, ProcessOrderInv
<1>3. ASSUME NEW t \in Threads, Timeout(t) PROVE OrderInv'
  BY <1>3 DEF Timeout, OrderInv
<1>4. ASSUME NEW B \in inferQ, Infer(B) PROVE OrderInv'
  BY <1>4 DEF Infer, OrderInv
<1>5. ASSUME NEW f \in postQ, Postproc(f) PROVE OrderInv'
  BY <1>5 DEF Postproc, OrderInv
<1>6. ASSUME NEW t \in Threads, Deliver(t) PROVE OrderInv'
  BY <1>6, DeliverOrderInv
<1>7. CASE Close
  BY <1>7 DEF Close, OrderInv
<1>8. CASE UNCHANGED vars
  BY <1>8 DEF vars, OrderInv
<1> QED
  BY <1>1, <1>2, <1>3, <1>4, <1>5, <1>6, <1>7, <1>8 DEF Next

(* In-order delivery (spec 8.1) holds for every number of threads, batch *)
(* size, interval and frame bound: each producer thread's frames leave    *)
(* the module in the order of its Process calls.                           *)
THEOREM InOrderDeliveryHolds == Spec => []InOrderDelivery
<1>1. Init => OrderInv
  BY InitOrderInv
<1>2. TypeOK /\ OrderInv /\ [Next]_vars => OrderInv'
  BY NextOrderInv
<1>3. OrderInv => InOrderDelivery
  BY DEF OrderInv, Numbered, InOrderDelivery
<1> QED
  BY <1>1, <1>2, <1>3, TypeCorrect, PTL DEF Spec

-----------------------------------------------------------------------------
(* drop_count as a function of the number n of Process calls of a thread: *)
(* it stays 0 without an interval, counts every call at interval 1, and   *)
(* runs through n % interval_ otherwise.                                   *)
DropCountOf(n) ==
  IF Interval = 0 THEN 0 ELSE IF Interval = 1 THEN n ELSE n % Interval

(* Two facts of arithmetic modulo k > 1: a multiple of k plus s < k      *)
(* leaves s, and the successor of n wraps to 0 after k - 1.               *)
LEMMA ModOfMultiple ==
  ASSUME NEW q \in Nat, NEW k \in Nat, NEW s \in Nat, k > 1, s < k
  PROVE  (q * k + s) % k = s
BY Z3T(60)
LEMMA ModSucc ==
  ASSUME NEW n \in Nat, NEW k \in Nat, k > 1
  PROVE  (n + 1) % k = IF (n % k) + 1 < k THEN (n % k) + 1 ELSE 0
<1> DEFINE q == n \div k  r == n % k
<1>1. n = q * k + r /\ r \in 0 .. k - 1 /\ q \in Nat
  OBVIOUS
<1>2. CASE r + 1 < k
  <2>1. n + 1 = q * k + (r + 1) /\ r + 1 \in Nat /\ r + 1 < k
    BY <1>1, <1>2
  <2>2. (q * k + (r + 1)) % k = r + 1
    BY <1>1, <1>2, <2>1, ModOfMultiple, Zenon
  <2> QED
    BY <2>1, <2>2, <1>2
<1>3. CASE r + 1 = k
  <2>1. n + 1 = (q + 1) * k + 0 /\ q + 1 \in Nat /\ 0 \in Nat /\ 0 < k
    BY <1>1, <1>3
  <2>2. ((q + 1) * k + 0) % k = 0
    BY <1>1, <2>1, ModOfMultiple, Zenon
  <2> QED
    BY <2>1, <2>2, <1>3
<1> QED
  BY <1>1, <1>2, <1>3

(* One Process call: drop_count moves from DropCountOf(n) to              *)
(* DropCountOf(n + 1), and the frame is dropped exactly when n is not a  *)
(* multiple of interval_.                                                  *)
LEMMA DropStep ==
  ASSUME NEW n \in Nat
  PROVE  /\ NextDropCount(DropCountOf(n)) = DropCountOf(n + 1)
         /\ (Interval > 0 /\ DropCountOf(n) % Interval # 0)
              <=> (Interval > 0 /\ n % Interval # 0)
<1>1. CASE Interval = 0
  BY <1>1 DEF NextDropCount, DropCountOf
<1>2. CASE Interval = 1
  BY <1>2 DEF NextDropCount, DropCountOf
<1>3. CASE Interval > 1
  <2> DEFINE k == Interval  r == n % k
  <2>1. k \in Nat /\ k > 1 /\ r \in 0 .. k - 1
    BY <1>3
  <2>2. r % k = r
    BY <2>1
  <2>3. (n + 1) % k = IF r + 1 < k THEN r + 1 ELSE 0
    BY <2>1, ModSucc
  <2>4. CASE r # 0
    BY <1>3, <2>2, <2>3, <2>4 DEF NextDropCount, DropCountOf
  <2>5. CASE r = 0
    BY <1>3, <2>2, <2>3, <2>5 DEF NextDropCount, DropCountOf
  <2> QED
    BY <2>4, <2>5
<1> QED
  BY <1>1, <1>2, <1>3

(* Inductive invariant of the interval policy: drop_count follows the    *)
(* number of calls, only submitted frames were fed, and IntervalCorrect.  *)
IntervalInv ==
  /\ \A t \in Threads : dropCount[t] = DropCountOf(nsent[t])
  /\ \A f \in fed : Processed(f)
  /\ IntervalCorrect

LEMMA InitIntervalInv == Init => IntervalInv
BY DEF Init, IntervalInv, DropCountOf, IntervalCorrect, Processed, IsEos, Frames

(* Process on thread t: the new frame <<t, n + 1>> is fed exactly when it *)
(* is not EOS and n is a multiple of interval_; earlier frames keep their *)
(* status because t had not ended.                                         *)
LEMMA ProcessIntervalInv ==
  ASSUME TypeOK, IntervalInv, NEW t \in Threads, NEW eos \in BOOLEAN, Process(t, eos)
  PROVE  IntervalInv'
<1> DEFINE n == nsent[t]  f0 == <<t, n + 1>>
           drop == Interval > 0 /\ dropCount[t] % Interval # 0
<1>1. /\ ~ended[t] /\ n < MaxFrames
      /\ dropCount' = [dropCount EXCEPT ![t] = NextDropCount(dropCount[t])]
      /\ nsent' = [nsent EXCEPT ![t] = n + 1]
      /\ ended' = [ended EXCEPT ![t] = eos]
  BY DEF Process
<1>2. n \in Nat /\ dropCount[t] = DropCountOf(n)
  BY DEF TypeOK, TypeContext, IntervalInv
<1>3. /\ NextDropCount(dropCount[t]) = DropCountOf(n + 1)
      /\ drop <=> (Interval > 0 /\ n % Interval # 0)
  BY <1>2, DropStep
<1>4. fed' = IF eos \/ drop THEN fed ELSE fed \cup {f0}
  BY DEF Process, FeedData
<1>5. \A u \in Threads : dropCount'[u] = DropCountOf(nsent'[u])
  BY <1>1, <1>3 DEF IntervalInv, TypeOK, TypeContext
<1>6. \A f \in fed' : Processed(f)'
  BY <1>1, <1>4 DEF IntervalInv, Processed, TypeOK, TypeContext, TypeEngine, Frames
<1>7. IntervalCorrect'
  <2> SUFFICES ASSUME NEW f \in Frames, Processed(f)'
               PROVE  f \in fed' <=> ~IsEos(f)' /\ (Interval = 0 \/ (f[2] - 1) % Interval = 0)
    BY DEF IntervalCorrect
  <2>1. CASE f = f0
    <3>1. f0 \notin fed
      BY <1>2 DEF IntervalInv, Processed
    <3>2. IsEos(f)' <=> eos
      BY <2>1, <1>1, <1>2 DEF IsEos, TypeOK, TypeContext
    <3>3. f0 \in fed' <=> ~eos /\ ~drop
      BY <3>1, <1>4
    <3>4. ~drop <=> (Interval = 0 \/ n % Interval = 0)
      BY <1>3
    <3>5. f[2] - 1 = n
      BY <2>1, <1>2
    <3> QED
      BY <2>1, <3>2, <3>3, <3>4, <3>5
  <2>2. CASE f # f0
    <3>1. f \in fed' <=> f \in fed
      BY <2>2, <1>4
    <3>2. Processed(f) /\ (IsEos(f)' <=> IsEos(f))
      BY <2>2, <1>1 DEF Processed, IsEos, TypeOK, TypeContext, Frames
    <3> QED
      BY <3>1, <3>2 DEF IntervalInv, IntervalCorrect
  <2> QED
    BY <2>1, <2>2
<1> QED
  BY <1>5, <1>6, <1>7 DEF IntervalInv

LEMMA NextIntervalInv == TypeOK /\ IntervalInv /\ [Next]_vars => IntervalInv'
<1> SUFFICES ASSUME TypeOK, IntervalInv, [Next]_vars PROVE IntervalInv'
  OBVIOUS
<1> USE DEF IntervalInv, IntervalCorrect, Processed, IsEos
<1>1. CASE Open
  BY <1>1 DEF Open
<1>2. ASSUME NEW t \in Threads, NEW eos \in BOOLEAN, Process(t, eos) PROVE IntervalInv'
  BY <1>2, ProcessIntervalInv
<1>3. ASSUME NEW t \in Threads, Timeout(t) PROVE IntervalInv'
  BY <1>3 DEF Timeout
<1>4. ASSUME NEW B \in inferQ, Infer(B) PROVE IntervalInv'
  BY <1>4 DEF Infer
<1>5. ASSUME NEW f \in postQ, Postproc(f) PROVE IntervalInv'
  BY <1>5 DEF Postproc
<1>6. ASSUME NEW t \in Threads, Deliver(t) PROVE IntervalInv'
  BY <1>6 DEF Deliver
<1>7. CASE Close
  BY <1>7 DEF Close
<1>8. CASE UNCHANGED vars
  BY <1>8 DEF vars
<1> QED
  BY <1>1, <1>2, <1>3, <1>4, <1>5, <1>6, <1>7, <1>8 DEF Next

(* infer_interval (spec 8.6) holds for every number of threads, batch    *)
(* size, interval and frame bound: Process feeds the engine exactly the   *)
(* 1st, (k+1)th, (2k+1)th ... non-EOS frame of each thread.               *)
THEOREM IntervalCorrectHolds == Spec => []IntervalCorrect
<1>1. Init => IntervalInv
  BY InitIntervalInv
<1>2. TypeOK /\ IntervalInv /\ [Next]_vars => IntervalInv'
  BY NextIntervalInv
<1>3. IntervalInv => IntervalCorrect
  BY DEF IntervalInv
<1> QED
  BY <1>1, <1>2, <1>3, TypeCorrect, PTL DEF Spec

(* What drop_count, a signed int, holds after the Process calls of its  *)
(* thread, for every interval_ the module accepts. With interval_ = 1    *)
(* drop_count++ % 1 is always 0, no frame is dropped and the reduction    *)
(* never runs: drop_count equals the number of calls, so the increment    *)
(* overflows INT_MAX (undefined behaviour) at call INT_MAX + 1 of a       *)
(* context. With interval_ = 0 it is never incremented, and otherwise the *)
(* reduction keeps it below interval_.                                     *)
DropCountLaw ==
  \A t \in Threads :
    /\ Interval = 1 => dropCount[t] = nsent[t]
    /\ Interval = 0 => dropCount[t] = 0
    /\ Interval > 1 => dropCount[t] < Interval

THEOREM DropCountGrowth == Spec => []DropCountLaw
<1>1. TypeOK /\ IntervalInv => DropCountLaw
  <2> SUFFICES ASSUME TypeOK, IntervalInv, NEW t \in Threads
               PROVE  /\ Interval = 1 => dropCount[t] = nsent[t]
                      /\ Interval = 0 => dropCount[t] = 0
                      /\ Interval > 1 => dropCount[t] < Interval
    BY DEF DropCountLaw
  <2>1. nsent[t] \in Nat /\ dropCount[t] = DropCountOf(nsent[t])
    BY DEF TypeOK, TypeContext, IntervalInv
  <2> QED
    BY <2>1, ConstantsAssumption DEF DropCountOf
<1> QED
  BY <1>1, InitIntervalInv, NextIntervalInv, TypeCorrect, PTL DEF Spec

-----------------------------------------------------------------------------
(* The head of a nonempty helper FIFO is the oldest undelivered frame.   *)
LEMMA HeadIsNext ==
  ASSUME NEW S, NEW t, NEW d \in Seq(S), NEW h \in Seq(S), NEW n \in Nat,
         h # << >>, Numbered(t, d, h, n)
  PROVE  Len(d) < n /\ Head(h) = <<t, Len(d) + 1>>
<1>1. Len(d) \in Nat /\ Len(h) \in Nat /\ Len(h) >= 1 /\ Head(h) = h[1]
  BY LenProperties, HeadTailProperties
<1> QED
  BY <1>1 DEF Numbered

(* A helper thread's TransmitData is the abstract Emit of its thread.     *)
LEMMA DeliverIsEmit ==
  ASSUME TypeOK, OrderInv, NEW t \in Threads, Deliver(t)
  PROVE  OD!Emit(t)
<1>1. hq[t] \in Seq(Frames) /\ delivered[t] \in Seq(Frames) /\ nsent[t] \in Nat
  BY DEF TypeOK, TypeHelper, TypeContext
<1>2. hq[t] # << >> /\ Numbered(t, delivered[t], hq[t], nsent[t])
  BY DEF Deliver, OrderInv
<1>3. Len(delivered[t]) < nsent[t] /\ Head(hq[t]) = <<t, Len(delivered[t]) + 1>>
  BY <1>1, <1>2, HeadIsNext
<1> QED
  BY <1>3 DEF Deliver, OD!Emit, OD!Frame

(* Inferencer implements OrderedDelivery under the mapping submitted <-   *)
(* nsent, out <- delivered: Process steps are submissions, Deliver steps  *)
(* emit the oldest frame not yet emitted, and every other step, Open,    *)
(* the engine's steps and Close, leaves both unchanged.                   *)
THEOREM ImplementsOrderedDelivery == Spec => OD!SafetySpec
<1>1. Init => OD!Init
  BY DEF Init, OD!Init
<1>2. TypeOK /\ OrderInv /\ [Next]_vars => [OD!Next]_OD!vars
  <2> SUFFICES ASSUME TypeOK, OrderInv, [Next]_vars PROVE [OD!Next]_OD!vars
    OBVIOUS
  <2>1. ASSUME NEW t \in Threads, NEW eos \in BOOLEAN, Process(t, eos)
        PROVE  OD!Submit(t)
    BY <2>1 DEF Process, OD!Submit
  <2>2. ASSUME NEW t \in Threads, Deliver(t) PROVE OD!Emit(t)
    BY <2>2, DeliverIsEmit
  <2>3. CASE Open \/ Close \/ UNCHANGED vars
    BY <2>3 DEF Open, Close, vars, OD!vars
  <2>4. ASSUME NEW t \in Threads, Timeout(t) PROVE UNCHANGED OD!vars
    BY <2>4 DEF Timeout, OD!vars
  <2>5. ASSUME NEW B \in inferQ, Infer(B) PROVE UNCHANGED OD!vars
    BY <2>5 DEF Infer, OD!vars
  <2>6. ASSUME NEW f \in postQ, Postproc(f) PROVE UNCHANGED OD!vars
    BY <2>6 DEF Postproc, OD!vars
  <2> QED
    BY <2>1, <2>2, <2>3, <2>4, <2>5, <2>6 DEF Next, OD!Next
<1> QED
  BY <1>1, <1>2, TypeCorrect, InitOrderInv, NextOrderInv, PTL DEF Spec, OD!SafetySpec

=============================================================================
