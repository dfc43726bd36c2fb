------------------------------ MODULE Displayer ------------------------------
(***************************************************************************)
(* The display module (displayer.cpp) and the SDL player it drives.       *)
(*                                                                         *)
(* Open reads its parameters in this order: the five required keys must  *)
(* be present (else it returns false and touches nothing), show_ is set   *)
(* from "show", the four numbers must be at least 1 (else false), and     *)
(* when show_ holds the player is initialised (false if Init fails) and   *)
(* put in full-screen mode on request. Process feeds each frame to the   *)
(* player and GUILoop runs the player's event loop, both only when show_; *)
(* Close destroys the player when show_.                                   *)
(*                                                                         *)
(* The pipeline (not part of the sources) is the environment: it calls   *)
(* Process and the application calls GUILoop only after Open returned     *)
(* true; Close ends a session and may also follow an Open that returned   *)
(* false, since the module contract does not forbid it. A parameter set  *)
(* is abstracted to the facts Open tests.                                  *)
(***************************************************************************)
EXTENDS Naturals

CONSTANTS
  MaxFrames    \* bound: frames the pipeline hands to Process per session

ASSUME DisplayerAssumption == MaxFrames \in Nat

\* The player's methods; a call is a misuse when the player is not set up.
PlayerCalls == {"FeedData", "EventLoop", "Destroy", "SetFullScreen"}

VARIABLES
  show,        \* show_
  player,      \* the SDL player: "uninit", "inited" (Init returned true)
               \* or "destroyed"
  fullScreen,  \* SetFullScreen was called on the player
  session,     \* the pipeline's view: "closed", "open" (Open returned
               \* true) or "failed" (Open returned false)
  frames,      \* Process calls in the current session
  gui,         \* the application thread: "idle", "loop" (in EventLoop)
               \* or "quit" (quit_callback called)
  misuse       \* history: player methods called on a player not "inited"

vars == <<show, player, fullScreen, session, frames, gui, misuse>>

TypeOK ==
  /\ show \in BOOLEAN
  /\ player \in {"uninit", "inited", "destroyed"}
  /\ fullScreen \in BOOLEAN
  /\ session \in {"closed", "open", "failed"}
  /\ frames \in 0 .. MaxFrames
  /\ gui \in {"idle", "loop", "quit"}
  /\ misuse \subseteq PlayerCalls

(* The constructor: a new SDLVideoPlayer, show_ false.                   *)
Init ==
  /\ show = FALSE
  /\ player = "uninit"
  /\ fullScreen = FALSE
  /\ session = "closed"
  /\ frames = 0
  /\ gui = "idle"
  /\ misuse = {}

\* Record a call of player method m, a misuse unless the player is set up.
Call(m) == misuse' = IF player = "inited" THEN misuse ELSE misuse \cup {m}

-----------------------------------------------------------------------------
(* Mutant of Open: the result of player_->Init is ignored.               *)
OpenIgnoresInitResult(complete, s, valid, full, initOk) ==
  /\ session = "closed"
  /\ frames' = 0
  /\ IF ~complete
       THEN /\ session' = "failed"
            /\ UNCHANGED <<show, player, fullScreen, misuse>>
       ELSE /\ show' = s
            /\ IF ~valid
                 THEN /\ session' = "failed"
                      /\ UNCHANGED <<player, fullScreen, misuse>>
                 ELSE IF s
                   THEN /\ player' = IF initOk THEN "inited" ELSE "uninit"
                        /\ session' = "open"
                        /\ fullScreen' = full
                        /\ misuse' = IF full /\ ~initOk
                                       THEN misuse \cup {"SetFullScreen"}
                                       ELSE misuse
                   ELSE /\ session' = "open"
                        /\ UNCHANGED <<player, fullScreen, misuse>>
  /\ UNCHANGED gui

(* Displayer::Open with a parameter set where: complete, the five        *)
(* required keys are present; s, "show" is "true"; valid, the four        *)
(* numbers are at least 1; full, "full-screen" is "true"; initOk, what    *)
(* player_->Init(max_chns) returns.                                        *)
Open(complete, s, valid, full, initOk) ==
  /\ session = "closed"
  /\ frames' = 0
  /\ IF ~complete
       THEN /\ session' = "failed"
            /\ UNCHANGED <<show, player, fullScreen, misuse>>
       ELSE /\ show' = s
            /\ IF ~valid
                 THEN /\ session' = "failed"
                      /\ UNCHANGED <<player, fullScreen, misuse>>
                 ELSE IF s
                   THEN /\ player' = IF initOk THEN "inited" ELSE "uninit"
                        /\ session' = IF initOk THEN "open" ELSE "failed"
                        /\ fullScreen' = (initOk /\ full)
                        /\ UNCHANGED misuse
                   ELSE /\ session' = "open"
                        /\ UNCHANGED <<player, fullScreen, misuse>>
  /\ UNCHANGED gui

(* Displayer::Process: with show_, the frame's BGR image is fed to the   *)
(* player for channel_idx.                                                 *)
Process ==
  /\ session = "open"
  /\ frames < MaxFrames
  /\ frames' = frames + 1
  /\ IF show THEN Call("FeedData") ELSE UNCHANGED misuse
  /\ UNCHANGED <<show, player, fullScreen, session, gui>>

(* Displayer::GUILoop on the application thread: the player's event loop *)
(* with show_, otherwise the quit callback at once.                        *)
GUILoop ==
  /\ session = "open"
  /\ gui = "idle"
  /\ IF show
       THEN /\ gui' = "loop"
            /\ Call("EventLoop")
       ELSE /\ gui' = "quit"
            /\ UNCHANGED misuse
  /\ UNCHANGED <<show, player, fullScreen, session, frames>>

(* Displayer::Close: with show_, player_->Destroy().                      *)
Close ==
  /\ session \in {"open", "failed"}
  /\ IF show
       THEN /\ player' = "destroyed"
            /\ Call("Destroy")
       ELSE UNCHANGED <<player, misuse>>
  /\ session' = "closed"
  /\ gui' = "idle"
  /\ UNCHANGED <<show, fullScreen, frames>>

Next ==
  \/ \E complete, s, valid, full, initOk \in BOOLEAN :
       Open(complete, s, valid, full, initOk)
  \/ Process
  \/ GUILoop
  \/ Close

Spec == Init /\ [][Next]_vars

-----------------------------------------------------------------------------
(* Frames reach the SDL player, and its event loop runs, only on a player *)
(* that Init set up in this session: never after an Init that failed or  *)
(* after Destroy, whatever Open returned in earlier sessions.             *)
PlayerUsedWhenInitialised ==
  misuse \cap {"FeedData", "EventLoop"} = {}

=============================================================================
