---------------------------- MODULE MCConscience ----------------------------
(***************************************************************************)
(* The conscience with its admin server: one task that the timer creates,  *)
(* the event bus's task and the one that restarts after a save; a client   *)
(* that joins and leaves; two challenges.  And the setup button: a hold    *)
(* that is no multiple of the poll, and two tasks at a time.  A behaviour  *)
(* is about one of them (part); the other stays as it is initially.        *)
(***************************************************************************)
EXTENDS Conscience, SetupButton

VARIABLE part

allvars == <<vars, buttonVars, part>>

MCInit ==
  /\ Init /\ ButtonInit
  /\ part \in {"conscience", "button"}
  /\ part = "button" => ~config /\ scope = "pills"
  /\ part = "conscience" => ~down

InConscience(A) == part = "conscience" /\ A /\ UNCHANGED <<buttonVars, part>>
InButton(A) == part = "button" /\ A /\ UNCHANGED <<vars, part>>

MCNext == InConscience(Next) \/ InButton(ButtonNext)

\* The fairness of each; what is fair of the conscience is disabled before its first step.
MCFairSpec ==
  /\ MCInit /\ [][MCNext]_allvars
  /\ Fairness
  /\ \A t \in ButtonTasks : WF_allvars(InButton(setup_button_task(t)))
=============================================================================
