--------------------------- MODULE OrderedDelivery ---------------------------
(***************************************************************************)
(* What the inference module promises its producers (spec 4.5, 8.1):     *)
(* each producer thread's frames leave the module downstream, one by     *)
(* one, in the order the thread submitted them, and every submitted frame *)
(* eventually leaves. How frames are batched, inferred, post-processed    *)
(* and released is left out: a thread only submits, the module only     *)
(* emits the oldest frame of a thread it has not emitted yet.             *)
(***************************************************************************)
EXTENDS Naturals, Sequences

CONSTANTS
  Threads,     \* producer threads
  MaxFrames    \* bound: frames each producer thread submits

VARIABLES
  submitted,   \* frames each thread has submitted
  out          \* frames emitted downstream, per thread, in emission order

vars == <<submitted, out>>

\* The n-th frame thread t submitted.
Frame(t, n) == <<t, n>>

TypeOK ==
  /\ submitted \in [Threads -> 0 .. MaxFrames]
  /\ out \in [Threads -> Seq(Threads \X (1 .. MaxFrames))]

Init ==
  /\ submitted = [t \in Threads |-> 0]
  /\ out = [t \in Threads |-> << >>]

(* Thread t submits its next frame.                                       *)
Submit(t) ==
  /\ submitted[t] < MaxFrames
  /\ submitted' = [submitted EXCEPT ![t] = @ + 1]
  /\ UNCHANGED out

(* The oldest frame of t not yet emitted leaves downstream.               *)
Emit(t) ==
  /\ Len(out[t]) < submitted[t]
  /\ out' = [out EXCEPT ![t] = Append(@, Frame(t, Len(@) + 1))]
  /\ UNCHANGED submitted

Next == \E t \in Threads : Submit(t) \/ Emit(t)

SafetySpec == Init /\ [][Next]_vars

(* Frames waiting to leave do leave: submitting is up to the producers,  *)
(* emitting is the module's obligation.                                   *)
Spec == SafetySpec /\ \A t \in Threads : WF_vars(Emit(t))

=============================================================================
