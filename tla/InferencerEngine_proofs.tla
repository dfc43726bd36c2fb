----------------------- MODULE InferencerEngine_proofs -----------------------
(***************************************************************************)
(* Proofs about the life of a frame in the inference engine: a frame fed *)
(* to the engine sits in exactly one stage (the open batch of its thread, *)
(* one committed batch, or the post-processing queue) until its           *)
(* post-processing writes its objects once and fulfils its card; only     *)
(* then can its helper release it. For every set of threads, batch size,  *)
(* interval and frame bound.                                               *)
(***************************************************************************)
EXTENDS Inferencer_proofs

\* The stages of the engine a frame can be in.
InBatch(f) == \E t \in Threads : f \in Range(batch[t])
InInfer(f) == \E B \in inferQ : f \in B
InPost(f) == f \in postQ
InFlight(f) == InBatch(f) \/ InInfer(f) \/ InPost(f)

(* Inductive invariant of the engine, conjunct by conjunct:              *)
(* LifeUnsubmitted: a frame not yet submitted has no card.                *)
(* LifeUnfed: a frame never fed has no objects, no pending card, and is   *)
(* in no stage.                                                            *)
(* LifeFed: a fed frame is either pending in some stage with no objects, *)
(* or ready, out of every stage, with its objects written once.           *)
(* LifeExclusive: no frame is in two stages at once.                      *)
(* LifeDisjoint: committed batches are disjoint.                          *)
(* LifeOwned: an open batch holds frames of its own thread.               *)
(* LifeDelivered: every delivered frame's card is ready.                  *)
LifeUnsubmitted == \A f \in Frames : ~Processed(f) => card[f] = "none"
LifeUnfed ==
  \A f \in Frames \ fed : objs[f] = 0 /\ card[f] # "pending" /\ ~InFlight(f)
LifeFed ==
  \A f \in fed :
    \/ card[f] = "pending" /\ objs[f] = 0 /\ InFlight(f)
    \/ card[f] = "ready" /\ objs[f] = 1 /\ ~InFlight(f)
LifeExclusive ==
  \A f \in Frames : /\ ~(InBatch(f) /\ InInfer(f))
                    /\ ~(InBatch(f) /\ InPost(f))
                    /\ ~(InInfer(f) /\ InPost(f))
LifeDisjoint == \A B1, B2 \in inferQ : B1 # B2 => B1 \cap B2 = {}
LifeOwned == \A t \in Threads : \A f \in Range(batch[t]) : f[1] = t
LifeDelivered ==
  \A t \in Threads : \A i \in 1 .. Len(delivered[t]) :
    card[delivered[t][i]] = "ready"

LifeInv ==
  /\ LifeUnsubmitted /\ LifeUnfed /\ LifeFed /\ LifeExclusive
  /\ LifeDisjoint /\ LifeOwned /\ LifeDelivered

-----------------------------------------------------------------------------
(* Range of the empty sequence and of an append.                          *)
LEMMA RangeEmpty == Range(<< >>) = {}
BY DEF Range

LEMMA RangeAppend ==
  ASSUME NEW S, NEW s \in Seq(S), NEW x
  PROVE  Range(Append(s, x)) = Range(s) \cup {x}
BY DEF Range

LEMMA InitLifeInv == Init => LifeInv
<1> SUFFICES ASSUME Init PROVE LifeInv
  OBVIOUS
<1>1. \A f \in Frames : ~InFlight(f)
  BY RangeEmpty DEF Init, InFlight, InBatch, InInfer, InPost
<1>2. LifeUnsubmitted /\ LifeUnfed /\ LifeFed
  BY <1>1 DEF Init, LifeUnsubmitted, LifeUnfed, LifeFed
<1>3. LifeExclusive /\ LifeDisjoint
  BY <1>1 DEF Init, LifeExclusive, LifeDisjoint, InFlight
<1>4. LifeOwned
  <2>1. \A t \in Threads : Range(batch[t]) = {}
    BY RangeEmpty DEF Init
  <2> QED
    BY <2>1 DEF LifeOwned
<1>5. LifeDelivered
  BY DEF Init, LifeDelivered
<1> QED
  BY <1>2, <1>3, <1>4, <1>5 DEF LifeInv

(* Open, Close and Deliver leave every stage, card and object count as   *)
(* they are; Deliver releases a frame whose card is ready.                 *)
LEMMA OpenCloseLifeInv ==
  ASSUME LifeInv, Open \/ Close PROVE LifeInv'
<1>1. UNCHANGED <<nsent, batch, inferQ, postQ, fed, card, objs, delivered>>
  BY DEF Open, Close
<1> QED
  BY <1>1 DEF LifeInv, LifeUnsubmitted, LifeUnfed, LifeFed, LifeExclusive,
              LifeDisjoint, LifeOwned, LifeDelivered, InFlight, InBatch,
              InInfer, InPost, Processed

LEMMA DeliverLifeInv ==
  ASSUME TypeOK, LifeInv, NEW t \in Threads, Deliver(t) PROVE LifeInv'
<1>1. UNCHANGED <<nsent, batch, inferQ, postQ, fed, card, objs>>
  BY DEF Deliver
<1>2. LifeUnsubmitted' /\ LifeUnfed' /\ LifeFed' /\ LifeExclusive'
      /\ LifeDisjoint' /\ LifeOwned'
  BY <1>1 DEF LifeInv, LifeUnsubmitted, LifeUnfed, LifeFed, LifeExclusive,
              LifeDisjoint, LifeOwned, InFlight, InBatch, InInfer, InPost,
              Processed
<1>3. LifeDelivered'
  <2>1. delivered' = [delivered EXCEPT ![t] = Append(@, Head(hq[t]))]
        /\ card[Head(hq[t])] = "ready"
    BY DEF Deliver
  <2> QED
    BY <1>1, <2>1 DEF LifeInv, LifeDelivered, TypeOK, TypeHelper
<1> QED
  BY <1>2, <1>3 DEF LifeInv

(* The watchdog of t moves t's open batch R, as a whole, into the        *)
(* inference queue: the frames of R go from the batch stage to the        *)
(* inference stage, every other frame stays where it was.                 *)
LEMMA TimeoutLifeInv ==
  ASSUME TypeOK, LifeInv, NEW t \in Threads, Timeout(t) PROVE LifeInv'
<1> DEFINE R == Range(batch[t])
<1>1. /\ batch' = [batch EXCEPT ![t] = << >>]
      /\ inferQ' = inferQ \cup {R}
      /\ UNCHANGED <<nsent, postQ, fed, card, objs, delivered>>
  BY DEF Timeout
<1>2. R \subseteq Frames
  BY RangeFrames DEF TypeOK, TypeEngine
<1>3. Range(batch'[t]) = {} /\ \A u \in Threads \ {t} : batch'[u] = batch[u]
  BY <1>1, RangeEmpty DEF TypeOK, TypeEngine
<1>4. ASSUME NEW g \in Frames, g \in R
      PROVE  /\ InBatch(g) /\ ~InInfer(g) /\ ~InPost(g)
             /\ ~InBatch(g)' /\ InInfer(g)' /\ ~InPost(g)'
  <2>1. InBatch(g)
    BY <1>4 DEF InBatch
  <2>2. ~InInfer(g) /\ ~InPost(g)
    BY <2>1 DEF LifeInv, LifeExclusive
  <2>3. \A u \in Threads \ {t} : g \notin Range(batch[u])
    BY <1>4 DEF LifeInv, LifeOwned
  <2>4. ~InBatch(g)'
    BY <2>3, <1>3 DEF InBatch
  <2>5. InInfer(g)' /\ ~InPost(g)'
    BY <1>1, <1>4, <2>2 DEF InInfer, InPost
  <2> QED
    BY <2>1, <2>2, <2>4, <2>5
<1>5. ASSUME NEW g \in Frames, g \notin R
      PROVE  /\ InBatch(g)' = InBatch(g)
             /\ InInfer(g)' = InInfer(g)
             /\ InPost(g)' = InPost(g)
  <2>1. InBatch(g)' = InBatch(g)
    BY <1>5, <1>3 DEF InBatch
  <2>2. InInfer(g)' = InInfer(g)
    BY <1>1, <1>5 DEF InInfer
  <2> QED
    BY <1>1, <2>1, <2>2 DEF InPost
<1>6. LifeUnsubmitted'
  BY <1>1 DEF LifeInv, LifeUnsubmitted, Processed
<1>7. LifeUnfed'
  <2> SUFFICES ASSUME NEW g \in Frames \ fed'
               PROVE  objs'[g] = 0 /\ card'[g] # "pending" /\ ~InFlight(g)'
    BY DEF LifeUnfed
  <2>1. g \notin fed /\ ~InFlight(g) /\ objs[g] = 0 /\ card[g] # "pending"
    BY <1>1 DEF LifeInv, LifeUnfed
  <2>2. g \notin R
    BY <2>1 DEF InFlight, InBatch
  <2> QED
    BY <1>1, <1>5, <2>1, <2>2 DEF InFlight
<1>8. LifeFed'
  <2> SUFFICES ASSUME NEW g \in fed'
               PROVE  \/ card'[g] = "pending" /\ objs'[g] = 0 /\ InFlight(g)'
                      \/ card'[g] = "ready" /\ objs'[g] = 1 /\ ~InFlight(g)'
    BY DEF LifeFed
  <2>1. g \in fed /\ g \in Frames
    BY <1>1 DEF TypeOK, TypeEngine
  <2>2. CASE g \in R
    <3>1. InFlight(g) /\ InFlight(g)'
      BY <2>1, <2>2, <1>4 DEF InFlight
    <3>2. card[g] = "pending" /\ objs[g] = 0
      BY <2>1, <3>1 DEF LifeInv, LifeFed
    <3> QED
      BY <1>1, <3>1, <3>2
  <2>3. CASE g \notin R
    BY <2>1, <2>3, <1>1, <1>5 DEF LifeInv, LifeFed, InFlight
  <2> QED
    BY <2>2, <2>3
<1>9. LifeExclusive'
  <2> SUFFICES ASSUME NEW g \in Frames
               PROVE  /\ ~(InBatch(g)' /\ InInfer(g)')
                      /\ ~(InBatch(g)' /\ InPost(g)')
                      /\ ~(InInfer(g)' /\ InPost(g)')
    BY DEF LifeExclusive
  <2>1. CASE g \in R
    BY <2>1, <1>4
  <2>2. CASE g \notin R
    BY <2>2, <1>5 DEF LifeInv, LifeExclusive
  <2> QED
    BY <2>1, <2>2
<1>10. LifeDisjoint'
  <2> SUFFICES ASSUME NEW B1 \in inferQ', NEW B2 \in inferQ', B1 # B2
               PROVE  B1 \cap B2 = {}
    BY DEF LifeDisjoint
  <2>1. \A B \in inferQ : R \cap B = {}
    <3> SUFFICES ASSUME NEW B \in inferQ, NEW g \in R \cap B PROVE FALSE
      OBVIOUS
    <3>1. g \in Frames
      BY <1>2
    <3>2. InInfer(g)
      BY DEF InInfer
    <3> QED
      BY <3>1, <3>2, <1>4
  <2>2. CASE B1 \in inferQ /\ B2 \in inferQ
    BY <2>2 DEF LifeInv, LifeDisjoint
  <2> QED
    BY <2>1, <2>2, <1>1
<1>11. LifeOwned'
  BY <1>3 DEF LifeInv, LifeOwned
<1>12. LifeDelivered'
  BY <1>1 DEF LifeInv, LifeDelivered
<1> QED
  BY <1>6, <1>7, <1>8, <1>9, <1>10, <1>11, <1>12 DEF LifeInv

(* The inference task of batch B moves its frames from the inference     *)
(* stage to the post-processing queue; as committed batches are disjoint, *)
(* no frame of B stays in the inference stage.                            *)
LEMMA InferLifeInv ==
  ASSUME TypeOK, LifeInv, NEW B \in inferQ, Infer(B) PROVE LifeInv'
<1>1. /\ inferQ' = inferQ \ {B}
      /\ postQ' = postQ \cup B
      /\ UNCHANGED <<nsent, batch, fed, card, objs, delivered>>
  BY DEF Infer
<1>2. B \subseteq Frames
  BY DEF TypeOK, TypeEngine
<1>3. ASSUME NEW g \in Frames, g \in B
      PROVE  /\ InInfer(g) /\ ~InBatch(g) /\ ~InPost(g)
             /\ ~InInfer(g)' /\ ~InBatch(g)' /\ InPost(g)'
  <2>1. InInfer(g)
    BY <1>3 DEF InInfer
  <2>2. ~InBatch(g) /\ ~InPost(g)
    BY <2>1 DEF LifeInv, LifeExclusive
  <2>3. ~InInfer(g)'
    BY <1>1, <1>3 DEF LifeInv, LifeDisjoint, InInfer
  <2> QED
    BY <1>1, <1>3, <2>1, <2>2, <2>3 DEF InBatch, InPost
<1>4. ASSUME NEW g \in Frames, g \notin B
      PROVE  /\ InBatch(g)' = InBatch(g)
             /\ InInfer(g)' = InInfer(g)
             /\ InPost(g)' = InPost(g)
  BY <1>1, <1>4 DEF InBatch, InInfer, InPost
<1>5. LifeUnsubmitted'
  BY <1>1 DEF LifeInv, LifeUnsubmitted, Processed
<1>6. LifeUnfed'
  <2> SUFFICES ASSUME NEW g \in Frames \ fed'
               PROVE  objs'[g] = 0 /\ card'[g] # "pending" /\ ~InFlight(g)'
    BY DEF LifeUnfed
  <2>1. g \notin fed /\ ~InFlight(g) /\ objs[g] = 0 /\ card[g] # "pending"
    BY <1>1 DEF LifeInv, LifeUnfed
  <2>2. g \notin B
    BY <2>1 DEF InFlight, InInfer
  <2> QED
    BY <1>1, <1>4, <2>1, <2>2 DEF InFlight
<1>7. LifeFed'
  <2> SUFFICES ASSUME NEW g \in fed'
               PROVE  \/ card'[g] = "pending" /\ objs'[g] = 0 /\ InFlight(g)'
                      \/ card'[g] = "ready" /\ objs'[g] = 1 /\ ~InFlight(g)'
    BY DEF LifeFed
  <2>1. g \in fed /\ g \in Frames
    BY <1>1 DEF TypeOK, TypeEngine
  <2>2. CASE g \in B
    <3>1. InFlight(g) /\ InFlight(g)'
      BY <2>1, <2>2, <1>3 DEF InFlight
    <3>2. card[g] = "pending" /\ objs[g] = 0
      BY <2>1, <3>1 DEF LifeInv, LifeFed
    <3> QED
      BY <1>1, <3>1, <3>2
  <2>3. CASE g \notin B
    BY <2>1, <2>3, <1>1, <1>4 DEF LifeInv, LifeFed, InFlight
  <2> QED
    BY <2>2, <2>3
<1>8. LifeExclusive'
  <2> SUFFICES ASSUME NEW g \in Frames
               PROVE  /\ ~(InBatch(g)' /\ InInfer(g)')
                      /\ ~(InBatch(g)' /\ InPost(g)')
                      /\ ~(InInfer(g)' /\ InPost(g)')
    BY DEF LifeExclusive
  <2>1. CASE g \in B
    BY <2>1, <1>3
  <2>2. CASE g \notin B
    BY <2>2, <1>4 DEF LifeInv, LifeExclusive
  <2> QED
    BY <2>1, <2>2
<1>9. LifeDisjoint' /\ LifeOwned' /\ LifeDelivered'
  BY <1>1 DEF LifeInv, LifeDisjoint, LifeOwned, LifeDelivered
<1> QED
  BY <1>5, <1>6, <1>7, <1>8, <1>9 DEF LifeInv

(* Post-processing of f writes its objects and fulfils its card: f was   *)
(* pending with no objects in the post-processing queue and nowhere else, *)
(* so afterwards it is ready, written once and in no stage.               *)
LEMMA PostprocLifeInv ==
  ASSUME TypeOK, LifeInv, NEW f \in postQ, Postproc(f) PROVE LifeInv'
<1>1. /\ postQ' = postQ \ {f}
      /\ objs' = [objs EXCEPT ![f] = @ + 1]
      /\ card' = [card EXCEPT ![f] = "ready"]
      /\ UNCHANGED <<nsent, batch, inferQ, fed, delivered>>
  BY DEF Postproc
<1>2. f \in Frames
  BY DEF TypeOK, TypeEngine
<1>3. /\ f \in fed /\ card[f] = "pending" /\ objs[f] = 0
      /\ ~InBatch(f) /\ ~InInfer(f)
  <2>1. InFlight(f) /\ InPost(f)
    BY DEF InFlight, InPost
  <2>2. f \in fed
    BY <1>2, <2>1 DEF LifeInv, LifeUnfed
  <2>3. card[f] = "pending" /\ objs[f] = 0
    BY <2>1, <2>2 DEF LifeInv, LifeFed
  <2> QED
    BY <1>2, <2>1, <2>2, <2>3 DEF LifeInv, LifeExclusive
<1>4. card'[f] = "ready" /\ objs'[f] = 1 /\ ~InFlight(f)'
  BY <1>1, <1>2, <1>3 DEF TypeOK, TypeEngine, InFlight, InBatch, InInfer,
                         InPost
<1>5. ASSUME NEW g \in Frames, g # f
      PROVE  /\ card'[g] = card[g] /\ objs'[g] = objs[g]
             /\ InBatch(g)' = InBatch(g)
             /\ InInfer(g)' = InInfer(g)
             /\ InPost(g)' = InPost(g)
  BY <1>1, <1>5 DEF TypeOK, TypeEngine, InBatch, InInfer, InPost
<1>6. LifeUnsubmitted'
  <2>1. Processed(f)
    BY <1>2, <1>3 DEF LifeInv, LifeUnsubmitted
  <2> QED
    BY <1>1, <1>5, <2>1 DEF LifeInv, LifeUnsubmitted, Processed
<1>7. LifeUnfed'
  BY <1>1, <1>3, <1>5 DEF LifeInv, LifeUnfed, InFlight
<1>8. LifeFed'
  BY <1>1, <1>4, <1>5 DEF LifeInv, LifeFed, InFlight, TypeOK, TypeEngine
<1>9. LifeExclusive'
  BY <1>4, <1>5 DEF LifeInv, LifeExclusive, InFlight
<1>10. LifeDisjoint' /\ LifeOwned'
  BY <1>1 DEF LifeInv, LifeDisjoint, LifeOwned
<1>11. LifeDelivered'
  BY <1>1, <1>5 DEF LifeInv, LifeDelivered, TypeOK, TypeHelper, TypeEngine
<1> QED
  BY <1>6, <1>7, <1>8, <1>9, <1>10, <1>11 DEF LifeInv

(* What Process(t, eos) finds about its new frame f: not submitted yet, *)
(* so it has no card, was never fed, has no objects and is in no stage;  *)
(* after the call f is the only newly submitted frame. These are the      *)
(* hypotheses the three cases of Process share.                           *)
NewFrame(t, f) ==
  /\ t \in Threads /\ f \in Frames /\ f[1] = t
  /\ card[f] = "none" /\ f \notin fed /\ objs[f] = 0 /\ ~InFlight(f)
  /\ Processed(f)'
  /\ \A g \in Frames : g # f => (Processed(g)' = Processed(g))

(* The new frame of Process(t, eos) is <<t, nsent[t] + 1>>.              *)
LEMMA ProcessFacts ==
  ASSUME TypeOK, LifeInv, NEW t \in Threads, NEW eos \in BOOLEAN,
         Process(t, eos), NEW f, f = <<t, nsent[t] + 1>>
  PROVE  NewFrame(t, f)
<1>0. nsent[t] < MaxFrames /\ nsent[t] \in Nat
  BY DEF Process, TypeOK, TypeContext
<1>1. f \in Frames /\ f[1] = t /\ f[2] = nsent[t] + 1
  BY <1>0, ConstantsAssumption DEF Frames
<1>2. ~Processed(f)
  BY <1>0, <1>1 DEF Processed
<1>3. card[f] = "none"
  BY <1>1, <1>2 DEF LifeInv, LifeUnsubmitted
<1>4. f \notin fed
  BY <1>3 DEF LifeInv, LifeFed
<1>5. objs[f] = 0 /\ ~InFlight(f)
  BY <1>1, <1>4 DEF LifeInv, LifeUnfed
<1>6. nsent' = [nsent EXCEPT ![t] = @ + 1]
  BY DEF Process
<1>7. Processed(f)'
  BY <1>1, <1>6 DEF TypeOK, TypeContext, Processed
<1>8. ASSUME NEW g \in Frames, g # f PROVE Processed(g)' = Processed(g)
  <2>1. g = <<g[1], g[2]>> /\ g[1] \in Threads /\ g[2] \in Nat
    BY DEF Frames
  <2>2. CASE g[1] = t
    <3>1. g[2] # nsent[t] + 1
      BY <1>1, <2>1, <2>2, <1>8
    <3> QED
      BY <1>6, <2>1, <2>2, <3>1 DEF TypeOK, TypeContext, Processed
  <2>3. CASE g[1] # t
    BY <1>6, <2>1, <2>3 DEF TypeOK, TypeContext, Processed
  <2> QED
    BY <2>2, <2>3
<1> QED
  BY <1>1, <1>3, <1>4, <1>5, <1>7, <1>8 DEF NewFrame

(* An EOS or dropped frame gets a fulfilled card and enters no stage.     *)
LEMMA NoFeedLifeInv ==
  ASSUME TypeOK, LifeInv, NEW t, NEW f, NewFrame(t, f),
         card' = [card EXCEPT ![f] = "ready"],
         UNCHANGED <<batch, inferQ, postQ, fed, objs, delivered>>
  PROVE  LifeInv'
<1>1. \A g \in Frames : g # f => card'[g] = card[g]
  BY DEF TypeOK, TypeEngine
<1>2. card'[f] = "ready"
  BY DEF TypeOK, TypeEngine, NewFrame
<1>3. \A g \in Frames : InFlight(g)' = InFlight(g)
  BY DEF InFlight, InBatch, InInfer, InPost
<1>4. LifeUnsubmitted'
  BY <1>1 DEF LifeInv, LifeUnsubmitted, NewFrame
<1>5. LifeUnfed'
  BY <1>1, <1>2, <1>3 DEF LifeInv, LifeUnfed, NewFrame
<1>6. LifeFed'
  BY <1>1, <1>3 DEF LifeInv, LifeFed, NewFrame, TypeOK, TypeEngine
<1>7. LifeExclusive' /\ LifeDisjoint' /\ LifeOwned'
  BY DEF LifeInv, LifeExclusive, LifeDisjoint, LifeOwned, InBatch, InInfer,
         InPost
<1>8. LifeDelivered'
  <2> SUFFICES ASSUME NEW u \in Threads, NEW i \in 1 .. Len(delivered[u])
               PROVE  card'[delivered[u][i]] = "ready"
    BY DEF LifeDelivered
  <2>1. card[delivered[u][i]] = "ready" /\ delivered[u][i] \in Frames
    BY DEF LifeInv, LifeDelivered, TypeOK, TypeHelper
  <2>2. delivered[u][i] # f
    BY <2>1 DEF NewFrame
  <2> QED
    BY <1>1, <2>1, <2>2
<1> QED
  BY <1>4, <1>5, <1>6, <1>7, <1>8 DEF LifeInv

(* A frame fed to a batch that stays open joins its thread's batch with  *)
(* a pending card; every other frame stays where it was.                   *)
LEMMA FeedOpenLifeInv ==
  ASSUME TypeOK, LifeInv, NEW t, NEW f, NewFrame(t, f),
         batch' = [batch EXCEPT ![t] = Append(batch[t], f)],
         card' = [card EXCEPT ![f] = "pending"],
         fed' = fed \cup {f},
         UNCHANGED <<inferQ, postQ, objs, delivered>>
  PROVE  LifeInv'
<1>1. t \in Threads /\ f \in Frames /\ f[1] = t
  BY DEF NewFrame
<1>2. Range(batch'[t]) = Range(batch[t]) \cup {f}
      /\ \A u \in Threads \ {t} : batch'[u] = batch[u]
  BY <1>1, RangeAppend DEF TypeOK, TypeEngine
<1>3. InBatch(f)' /\ ~InInfer(f)' /\ ~InPost(f)'
  BY <1>1, <1>2 DEF NewFrame, InFlight, InBatch, InInfer, InPost
<1>4. card'[f] = "pending" /\ objs'[f] = 0
  BY <1>1 DEF NewFrame, TypeOK, TypeEngine
<1>5. ASSUME NEW g \in Frames, g # f
      PROVE  /\ card'[g] = card[g] /\ objs'[g] = objs[g]
             /\ (g \in fed') = (g \in fed)
             /\ InBatch(g)' = InBatch(g)
             /\ InInfer(g)' = InInfer(g)
             /\ InPost(g)' = InPost(g)
  <2>1. InBatch(g)' = InBatch(g)
    BY <1>1, <1>2, <1>5 DEF InBatch
  <2> QED
    BY <1>5, <2>1 DEF TypeOK, TypeEngine, InInfer, InPost
<1>6. LifeUnsubmitted'
  BY <1>4, <1>5 DEF LifeInv, LifeUnsubmitted, NewFrame
<1>7. LifeUnfed'
  BY <1>5 DEF LifeInv, LifeUnfed, InFlight
<1>8. LifeFed'
  BY <1>3, <1>4, <1>5 DEF LifeInv, LifeFed, InFlight, TypeOK, TypeEngine
<1>9. LifeExclusive'
  BY <1>3, <1>5 DEF LifeInv, LifeExclusive
<1>10. LifeDisjoint'
  BY DEF LifeInv, LifeDisjoint
<1>11. LifeOwned'
  BY <1>1, <1>2 DEF LifeInv, LifeOwned
<1>12. LifeDelivered'
  <2> SUFFICES ASSUME NEW u \in Threads, NEW i \in 1 .. Len(delivered[u])
               PROVE  card'[delivered[u][i]] = "ready"
    BY DEF LifeDelivered
  <2>1. card[delivered[u][i]] = "ready" /\ delivered[u][i] \in Frames
    BY DEF LifeInv, LifeDelivered, TypeOK, TypeHelper
  <2>2. delivered[u][i] # f
    BY <2>1 DEF NewFrame
  <2> QED
    BY <1>5, <2>1, <2>2
<1> QED
  BY <1>6, <1>7, <1>8, <1>9, <1>10, <1>11, <1>12 DEF LifeInv

(* A frame that fills its thread's batch commits it: the frames of the   *)
(* batch and the new frame, with a pending card, form a new committed    *)
(* batch R; every other frame stays where it was.                          *)
LEMMA FeedFullLifeInv ==
  ASSUME TypeOK, LifeInv, NEW t, NEW f, NewFrame(t, f),
         batch' = [batch EXCEPT ![t] = << >>],
         inferQ' = inferQ \cup {Range(Append(batch[t], f))},
         card' = [card EXCEPT ![f] = "pending"],
         fed' = fed \cup {f},
         UNCHANGED <<postQ, objs, delivered>>
  PROVE  LifeInv'
<1> DEFINE R == Range(Append(batch[t], f))
<1>1. t \in Threads /\ f \in Frames /\ f[1] = t
  BY DEF NewFrame
<1>2. R = Range(batch[t]) \cup {f} /\ R \subseteq Frames
  BY <1>1, RangeAppend, RangeFrames DEF TypeOK, TypeEngine
<1>3. Range(batch'[t]) = {} /\ \A u \in Threads \ {t} : batch'[u] = batch[u]
  BY <1>1, RangeEmpty DEF TypeOK, TypeEngine
<1>4. ASSUME NEW g \in Frames, g \in R
      PROVE  /\ ~InInfer(g) /\ ~InPost(g)
             /\ (g # f => InBatch(g))
             /\ ~InBatch(g)' /\ InInfer(g)' /\ ~InPost(g)'
  <2>1. g # f => InBatch(g)
    BY <1>1, <1>2, <1>4 DEF InBatch
  <2>2. ~InInfer(g) /\ ~InPost(g)
    BY <2>1 DEF LifeInv, LifeExclusive, NewFrame, InFlight
  <2>3. \A u \in Threads \ {t} : g \notin Range(batch[u])
    <3>1. g[1] = t
      BY <1>1, <1>2, <1>4 DEF LifeInv, LifeOwned
    <3> QED
      BY <3>1 DEF LifeInv, LifeOwned
  <2>4. ~InBatch(g)'
    BY <2>3, <1>3 DEF InBatch
  <2>5. InInfer(g)' /\ ~InPost(g)'
    BY <1>4, <2>2 DEF InInfer, InPost
  <2> QED
    BY <2>1, <2>2, <2>4, <2>5
<1>5. ASSUME NEW g \in Frames, g \notin R
      PROVE  /\ card'[g] = card[g] /\ objs'[g] = objs[g]
             /\ (g \in fed') = (g \in fed)
             /\ InBatch(g)' = InBatch(g)
             /\ InInfer(g)' = InInfer(g)
             /\ InPost(g)' = InPost(g)
  <2>1. g # f
    BY <1>2, <1>5
  <2>2. InBatch(g)' = InBatch(g)
    BY <1>2, <1>3, <1>5 DEF InBatch
  <2> QED
    BY <1>5, <2>1, <2>2 DEF TypeOK, TypeEngine, InInfer, InPost
<1>6. card'[f] = "pending" /\ objs'[f] = 0
  BY <1>1 DEF NewFrame, TypeOK, TypeEngine
<1>7. ASSUME NEW g \in Frames, g # f
      PROVE  card'[g] = card[g] /\ objs'[g] = objs[g] /\ (g \in fed') = (g \in fed)
  BY <1>7 DEF TypeOK, TypeEngine
<1>8. LifeUnsubmitted'
  BY <1>6, <1>7 DEF LifeInv, LifeUnsubmitted, NewFrame
<1>9. LifeUnfed'
  <2> SUFFICES ASSUME NEW g \in Frames \ fed'
               PROVE  objs'[g] = 0 /\ card'[g] # "pending" /\ ~InFlight(g)'
    BY DEF LifeUnfed
  <2>0. g # f /\ g \notin fed
    OBVIOUS
  <2>1. g # f /\ g \notin fed /\ ~InFlight(g)
    BY <2>0 DEF LifeInv, LifeUnfed
  <2>2. g \notin R
    BY <1>1, <1>2, <2>1 DEF InFlight, InBatch
  <2> QED
    BY <1>5, <2>2 DEF LifeInv, LifeUnfed, InFlight
<1>10. LifeFed'
  <2> SUFFICES ASSUME NEW g \in fed'
               PROVE  \/ card'[g] = "pending" /\ objs'[g] = 0 /\ InFlight(g)'
                      \/ card'[g] = "ready" /\ objs'[g] = 1 /\ ~InFlight(g)'
    BY DEF LifeFed
  <2>1. g \in Frames
    BY <1>1 DEF TypeOK, TypeEngine
  <2>2. CASE g = f
    BY <2>2, <1>2, <1>4, <1>6 DEF InFlight
  <2>3. CASE g # f /\ g \in R
    <3>1. g \in fed /\ InFlight(g) /\ InFlight(g)'
      BY <2>1, <2>3, <1>4, <1>7 DEF InFlight
    <3>2. card[g] = "pending" /\ objs[g] = 0
      BY <2>1, <3>1 DEF LifeInv, LifeFed
    <3> QED
      BY <2>1, <2>3, <1>7, <3>1, <3>2
  <2>4. CASE g \notin R
    BY <2>1, <2>4, <1>5 DEF LifeInv, LifeFed, InFlight
  <2> QED
    BY <2>2, <2>3, <2>4
<1>11. LifeExclusive'
  <2> SUFFICES ASSUME NEW g \in Frames
               PROVE  /\ ~(InBatch(g)' /\ InInfer(g)')
                      /\ ~(InBatch(g)' /\ InPost(g)')
                      /\ ~(InInfer(g)' /\ InPost(g)')
    BY DEF LifeExclusive
  <2>1. CASE g \in R
    BY <2>1, <1>4
  <2>2. CASE g \notin R
    BY <2>2, <1>5 DEF LifeInv, LifeExclusive
  <2> QED
    BY <2>1, <2>2
<1>12. LifeDisjoint'
  <2> SUFFICES ASSUME NEW B1 \in inferQ', NEW B2 \in inferQ', B1 # B2
               PROVE  B1 \cap B2 = {}
    BY DEF LifeDisjoint
  <2>1. \A B \in inferQ : R \cap B = {}
    <3> SUFFICES ASSUME NEW B \in inferQ, NEW g \in R \cap B PROVE FALSE
      OBVIOUS
    <3>1. g \in Frames
      BY <1>2
    <3>2. InInfer(g)
      BY DEF InInfer
    <3> QED
      BY <3>1, <3>2, <1>4
  <2>2. CASE B1 \in inferQ /\ B2 \in inferQ
    BY <2>2 DEF LifeInv, LifeDisjoint
  <2> QED
    BY <2>1, <2>2
<1>13. LifeOwned'
  BY <1>3 DEF LifeInv, LifeOwned
<1>14. LifeDelivered'
  <2> SUFFICES ASSUME NEW u \in Threads, NEW i \in 1 .. Len(delivered[u])
               PROVE  card'[delivered[u][i]] = "ready"
    BY DEF LifeDelivered
  <2>1. card[delivered[u][i]] = "ready" /\ delivered[u][i] \in Frames
    BY DEF LifeInv, LifeDelivered, TypeOK, TypeHelper
  <2>2. delivered[u][i] # f
    BY <2>1 DEF NewFrame
  <2> QED
    BY <1>7, <2>1, <2>2
<1> QED
  BY <1>8, <1>9, <1>10, <1>11, <1>12, <1>13, <1>14 DEF LifeInv

(* Process(t, eos): its new frame is either given a fulfilled card (EOS *)
(* or dropped by infer_interval) or fed to the engine, where it fills the *)
(* batch and commits it or joins the batch that stays open.               *)
LEMMA ProcessLifeInv ==
  ASSUME TypeOK, LifeInv, NEW t \in Threads, NEW eos \in BOOLEAN,
         Process(t, eos)
  PROVE  LifeInv'
<1>1. PICK f : f = <<t, nsent[t] + 1>>
  OBVIOUS
<1>2. NewFrame(t, f)
  BY <1>1, ProcessFacts
<1> DEFINE drop == Interval > 0 /\ dropCount[t] % Interval # 0
<1>3. UNCHANGED <<postQ, objs, delivered>>
  BY DEF Process
<1>4. CASE eos \/ drop
  <2>1. card' = [card EXCEPT ![f] = "ready"]
        /\ UNCHANGED <<batch, inferQ, fed>>
    BY <1>1, <1>4 DEF Process
  <2> QED
    BY <1>2, <1>3, <2>1, NoFeedLifeInv
<1>5. CASE ~(eos \/ drop)
  <2>1. FeedData(t, f)
    BY <1>1, <1>5 DEF Process
  <2>2. card' = [card EXCEPT ![f] = "pending"] /\ fed' = fed \cup {f}
    BY <2>1 DEF FeedData
  <2>3. CASE Len(Append(batch[t], f)) = BatchSize
    <3>1. batch' = [batch EXCEPT ![t] = << >>]
          /\ inferQ' = inferQ \cup {Range(Append(batch[t], f))}
      BY <2>1, <2>3 DEF FeedData
    <3> QED
      BY <1>2, <1>3, <2>2, <3>1, FeedFullLifeInv
  <2>4. CASE Len(Append(batch[t], f)) # BatchSize
    <3>1. batch' = [batch EXCEPT ![t] = Append(batch[t], f)]
          /\ inferQ' = inferQ
      BY <2>1, <2>4 DEF FeedData
    <3> QED
      BY <1>2, <1>3, <2>2, <3>1, FeedOpenLifeInv
  <2> QED
    BY <2>3, <2>4
<1> QED
  BY <1>4, <1>5

(* Every step of the module keeps the engine's frame lifecycle.          *)
LEMMA NextLifeInv == TypeOK /\ LifeInv /\ [Next]_vars => LifeInv'
<1> SUFFICES ASSUME TypeOK, LifeInv, [Next]_vars PROVE LifeInv'
  OBVIOUS
<1>1. CASE Open \/ Close
  BY <1>1, OpenCloseLifeInv
<1>2. ASSUME NEW t \in Threads, NEW eos \in BOOLEAN, Process(t, eos)
      PROVE LifeInv'
  BY <1>2, ProcessLifeInv
<1>3. ASSUME NEW t \in Threads, Timeout(t) PROVE LifeInv'
  BY <1>3, TimeoutLifeInv
<1>4. ASSUME NEW B \in inferQ, Infer(B) PROVE LifeInv'
  BY <1>4, InferLifeInv
<1>5. ASSUME NEW f \in postQ, Postproc(f) PROVE LifeInv'
  BY <1>5, PostprocLifeInv
<1>6. ASSUME NEW t \in Threads, Deliver(t) PROVE LifeInv'
  BY <1>6, DeliverLifeInv
<1>7. CASE UNCHANGED vars
  BY <1>7 DEF vars, LifeInv, LifeUnsubmitted, LifeUnfed, LifeFed,
              LifeExclusive, LifeDisjoint, LifeOwned, LifeDelivered,
              InFlight, InBatch, InInfer, InPost, Processed
<1> QED
  BY <1>1, <1>2, <1>3, <1>4, <1>5, <1>6, <1>7 DEF Next

LEMMA LifeInvHolds == Spec => []LifeInv
<1>1. Init => LifeInv
  BY InitLifeInv
<1> QED
  BY <1>1, NextLifeInv, TypeCorrect, PTL DEF Spec

(* Post-processing writes a frame's objects at most once, and only for a *)
(* frame that Process fed to the engine (spec 6), for every number of    *)
(* threads, batch size, interval and frame bound.                          *)
THEOREM ObjectsWrittenOnceHolds == Spec => []ObjectsWrittenOnce
<1>1. LifeInv => ObjectsWrittenOnce
  BY DEF LifeInv, LifeUnfed, LifeFed, ObjectsWrittenOnce
<1> QED
  BY <1>1, LifeInvHolds, PTL

(* A helper thread releases a frame the engine was given only after its   *)
(* post-processing wrote its objects, exactly once (spec 8.2, 6), for     *)
(* every number of threads, batch size, interval and frame bound.         *)
THEOREM ResultsBeforeDeliveryHolds == Spec => []ResultsBeforeDelivery
<1>1. TypeOK /\ LifeInv => ResultsBeforeDelivery
  BY DEF LifeInv, LifeFed, LifeDelivered, ResultsBeforeDelivery
<1> QED
  BY <1>1, LifeInvHolds, TypeCorrect, PTL

=============================================================================
