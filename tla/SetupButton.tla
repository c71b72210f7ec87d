---------------------------- MODULE SetupButton -----------------------------
(***************************************************************************)
(* The setup button (setup_button.c): a task polls the pin and calls       *)
(* on_hold when the button was down for hold_ms.  A stop only clears       *)
(* s_running, which the task sees at its next poll; a start in between     *)
(* leaves two tasks.                                                       *)
(***************************************************************************)
EXTENDS Naturals

CONSTANTS
  HoldMs, PollMs,   \* hold_ms, poll_ms
  MaxTasks          \* bound on the tasks created

ASSUME ButtonAssumption == HoldMs \in Nat \ {0} /\ PollMs \in Nat \ {0} /\ MaxTasks \in Nat

VARIABLES
  running,   \* s_running
  alive,     \* the tasks that live
  pressed,   \* pressed_ms of each task
  armed,     \* the tasks whose armed is set
  created,   \* how many tasks were created
  down,      \* external: the button
  polls,     \* history: polls in a row, up to the last, at which a task saw the button down
  holds      \* history: calls of on_hold by each task since the button was last let go

buttonVars == <<running, alive, pressed, armed, created, down, polls, holds>>

ButtonTasks == 1 .. MaxTasks
PollsForHold == (HoldMs + PollMs - 1) \div PollMs

ButtonInit ==
  /\ running = FALSE /\ created = 0 /\ down \in BOOLEAN
  /\ alive = {} /\ pressed = [t \in ButtonTasks |-> 0] /\ armed = ButtonTasks
  /\ polls = [t \in ButtonTasks |-> 0] /\ holds = [t \in ButtonTasks |-> 0]

Finger ==
  /\ down' = ~down
  /\ holds' = IF down THEN [t \in ButtonTasks |-> 0] ELSE holds
  /\ UNCHANGED <<running, alive, pressed, armed, created, polls>>

\* A task that is running answers for the start; memory for a new one may lack.
setup_button_start ==
  /\ ~running /\ created < MaxTasks
  /\ running' = TRUE
  /\ created' = created + 1
  /\ alive' = alive \cup {created + 1}
  /\ UNCHANGED <<pressed, armed, down, polls, holds>>

setup_button_stop ==
  /\ running
  /\ running' = FALSE
  /\ UNCHANGED <<alive, pressed, armed, created, down, polls, holds>>

\* pressed_ms after a poll with the button down
Counted(t) == IF pressed[t] < HoldMs THEN pressed[t] + PollMs ELSE pressed[t]

Held(t) == t \in armed /\ Counted(t) >= HoldMs

\* Faulty variant: the task is not disarmed.
poll_down_armed(t) ==
  /\ t \in alive /\ running /\ down
  /\ pressed' = [pressed EXCEPT ![t] = Counted(t)]
  /\ polls' = [polls EXCEPT ![t] = IF @ < PollsForHold THEN @ + 1 ELSE @]
  /\ holds' = [holds EXCEPT ![t] = IF Held(t) /\ @ < 2 THEN @ + 1 ELSE @]
  /\ UNCHANGED <<running, alive, armed, created, down>>

\* on_hold is called by the task, which does not poll meanwhile.
poll_down(t) ==
  /\ t \in alive /\ running /\ down
  /\ pressed' = [pressed EXCEPT ![t] = Counted(t)]
  /\ armed' = IF Held(t) THEN armed \ {t} ELSE armed
  /\ polls' = [polls EXCEPT ![t] = IF @ < PollsForHold THEN @ + 1 ELSE @]
  /\ holds' = [holds EXCEPT ![t] = IF Held(t) /\ @ < 2 THEN @ + 1 ELSE @]
  /\ UNCHANGED <<running, alive, created, down>>

\* Faulty variant: the time is kept, so that short presses add up.
poll_up_keeps_time(t) ==
  /\ t \in alive /\ running /\ ~down
  /\ armed' = armed \cup {t}
  /\ polls' = [polls EXCEPT ![t] = 0]
  /\ UNCHANGED <<running, alive, pressed, created, down, holds>>

poll_up(t) ==
  /\ t \in alive /\ running /\ ~down
  /\ pressed' = [pressed EXCEPT ![t] = 0] /\ armed' = armed \cup {t}
  /\ polls' = [polls EXCEPT ![t] = 0]
  /\ UNCHANGED <<running, alive, created, down, holds>>

task_end(t) ==
  /\ t \in alive /\ ~running
  /\ alive' = alive \ {t}
  /\ UNCHANGED <<running, pressed, armed, created, down, polls, holds>>

setup_button_task(t) == poll_down(t) \/ poll_up(t) \/ task_end(t)

ButtonNext ==
  \/ Finger \/ setup_button_start \/ setup_button_stop
  \/ \E t \in ButtonTasks : setup_button_task(t)

ButtonSpec == ButtonInit /\ [][ButtonNext]_buttonVars

\* The tasks poll.
ButtonFairSpec == ButtonSpec /\ \A t \in ButtonTasks : WF_buttonVars(setup_button_task(t))

-----------------------------------------------------------------------------
ButtonTypeOK ==
  /\ running \in BOOLEAN /\ down \in BOOLEAN /\ created \in 0 .. MaxTasks
  /\ alive \subseteq ButtonTasks /\ armed \subseteq ButtonTasks
  /\ pressed \in [ButtonTasks -> 0 .. HoldMs + PollMs - 1]

(***************************************************************************)
(* A task calls on_hold at most once while the button is not let go,       *)
(* however often it is stopped and started, and also when the button       *)
(* bounces between two polls.                                              *)
(***************************************************************************)
OncePerPress == \A t \in ButtonTasks : holds[t] <= 1

(***************************************************************************)
(* on_hold is called at the poll at which the task has seen the button     *)
(* down at enough polls in a row to make up hold_ms; short presses do not  *)
(* add up.                                                                 *)
(***************************************************************************)
HoldIsLong ==
  [][\A t \in armed \ armed' : polls'[t] >= PollsForHold]_buttonVars

(***************************************************************************)
(* A button that is held while a task polls it is noticed, unless it is    *)
(* let go or the polling stopped.                                          *)
(***************************************************************************)
HeldIsNoticed == []<>~(down /\ running) \/ []<>(alive \ armed # {})

(***************************************************************************)
(* on_hold is called when, and only when, the button is held: the two      *)
(* above together, and the variables keep their types (setup_button_task). *)
(***************************************************************************)
HoldsAreReal == []ButtonTypeOK /\ HoldIsLong /\ HeldIsNoticed
=============================================================================
