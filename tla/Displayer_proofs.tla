--------------------------- MODULE Displayer_proofs ---------------------------
(***************************************************************************)
(* Proofs about the display module: the SDL player is driven only after  *)
(* the current session's Init set it up, for every frame bound.           *)
(***************************************************************************)
EXTENDS Displayer, TLAPS

(* Inductive strengthening of PlayerUsedWhenInitialised: a session that  *)
(* Open accepted with show_ set has a player that Init set up. Process   *)
(* and GUILoop run only in an accepted session, so they find it set up.  *)
ShowInv ==
  /\ TypeOK
  /\ (session = "open" /\ show) => player = "inited"
  /\ PlayerUsedWhenInitialised

LEMMA InitShowInv == Init => ShowInv
<1> SUFFICES ASSUME Init PROVE ShowInv
  OBVIOUS
<1>1. frames \in 0 .. MaxFrames
  BY DisplayerAssumption DEF Init
<1>2. show \in BOOLEAN /\ fullScreen \in BOOLEAN /\ misuse \subseteq PlayerCalls
  BY DEF Init
<1>3. player \in {"uninit", "inited", "destroyed"}
      /\ session \in {"closed", "open", "failed"}
      /\ gui \in {"idle", "loop", "quit"}
  BY DEF Init
<1>4. TypeOK
  BY <1>1, <1>2, <1>3 DEF TypeOK
<1>5. PlayerUsedWhenInitialised
  BY DEF Init, PlayerUsedWhenInitialised
<1> QED
  BY <1>4, <1>5 DEF Init, ShowInv

(* Open from a closed session: with show_ set it accepts the session only *)
(* when Init returned true; every other outcome fails it or clears show_. *)
LEMMA OpenShowInv ==
  ASSUME ShowInv, NEW complete \in BOOLEAN, NEW s \in BOOLEAN,
         NEW valid \in BOOLEAN, NEW full \in BOOLEAN, NEW initOk \in BOOLEAN,
         Open(complete, s, valid, full, initOk)
  PROVE  ShowInv'
<1>1. misuse' = misuse /\ gui' = gui /\ frames' = 0
  BY DEF Open
<1>2. /\ show' \in BOOLEAN /\ fullScreen' \in BOOLEAN
      /\ player' \in {"uninit", "inited", "destroyed"}
      /\ session' \in {"closed", "open", "failed"}
  BY DEF Open, ShowInv, TypeOK
<1>3. TypeOK'
  BY <1>1, <1>2, DisplayerAssumption DEF ShowInv, TypeOK
<1>4. session' = "open" /\ show' => player' = "inited"
  <2>1. CASE ~complete
    BY <2>1 DEF Open
  <2>2. CASE complete /\ ~valid
    BY <2>2 DEF Open
  <2>3. CASE complete /\ valid /\ s
    BY <2>3 DEF Open
  <2>4. CASE complete /\ valid /\ ~s
    BY <2>4 DEF Open
  <2> QED
    BY <2>1, <2>2, <2>3, <2>4
<1> QED
  BY <1>1, <1>3, <1>4 DEF ShowInv, PlayerUsedWhenInitialised

(* Process and GUILoop call the player only when show_ holds, in an open *)
(* session, so on a player Init set up; Close ends the session.           *)
LEMMA NextShowInv == ShowInv /\ [Next]_vars => ShowInv'
<1> SUFFICES ASSUME ShowInv, [Next]_vars PROVE ShowInv'
  OBVIOUS
<1>1. ASSUME NEW complete \in BOOLEAN, NEW s \in BOOLEAN,
             NEW valid \in BOOLEAN, NEW full \in BOOLEAN,
             NEW initOk \in BOOLEAN, Open(complete, s, valid, full, initOk)
      PROVE  ShowInv'
  BY <1>1, OpenShowInv
<1>2. CASE Process
  <2>1. misuse' = misuse
    BY <1>2 DEF Process, Call, ShowInv
  <2>2. frames' \in 0 .. MaxFrames
    BY <1>2, DisplayerAssumption DEF Process, ShowInv, TypeOK
  <2>3. UNCHANGED <<show, player, fullScreen, session, gui>>
    BY <1>2 DEF Process
  <2> QED
    BY <2>1, <2>2, <2>3 DEF ShowInv, TypeOK, PlayerUsedWhenInitialised
<1>3. CASE GUILoop
  <2>1. misuse' = misuse
    BY <1>3 DEF GUILoop, Call, ShowInv
  <2>2. gui' \in {"idle", "loop", "quit"}
    BY <1>3 DEF GUILoop
  <2>3. UNCHANGED <<show, player, fullScreen, session, frames>>
    BY <1>3 DEF GUILoop
  <2> QED
    BY <2>1, <2>2, <2>3 DEF ShowInv, TypeOK, PlayerUsedWhenInitialised
<1>4. CASE Close
  <2>1. session' = "closed"
    BY <1>4 DEF Close
  <2>2. misuse' \subseteq misuse \cup {"Destroy"}
    BY <1>4 DEF Close, Call
  <2>3. TypeOK'
    BY <1>4 DEF Close, Call, ShowInv, TypeOK, PlayerCalls
  <2> QED
    BY <2>1, <2>2, <2>3 DEF ShowInv, PlayerUsedWhenInitialised
<1>5. CASE UNCHANGED vars
  BY <1>5 DEF vars, ShowInv, TypeOK, PlayerUsedWhenInitialised, PlayerCalls
<1> QED
  BY <1>1, <1>2, <1>3, <1>4, <1>5 DEF Next

(* Frames reach the SDL player, and its event loop runs, only on a player *)
(* that Init set up in the current session, whatever earlier sessions and *)
(* failed Opens left in show_, for every frame bound.                      *)
THEOREM PlayerUsedWhenInitialisedHolds == Spec => []PlayerUsedWhenInitialised
<1>1. ShowInv => PlayerUsedWhenInitialised
  BY DEF ShowInv
<1> QED
  BY <1>1, InitShowInv, NextShowInv, PTL DEF Spec

=============================================================================
