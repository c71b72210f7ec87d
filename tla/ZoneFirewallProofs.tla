------------------------- MODULE ZoneFirewallProofs -------------------------
(***************************************************************************)
(* The zone firewall, for every number of tasks, every set of flows and    *)
(* every table of rules: what the interleaving of the evaluations with one *)
(* another, with changes of the rules and with time leaves of a verdict.   *)
(***************************************************************************)
EXTENDS ZoneFirewall, WellFoundedInduction, TLAPS

(***************************************************************************)
(* The shape of task, without which what the EXCEPTs change is unknown.    *)
(***************************************************************************)
TasksShaped ==
  /\ DOMAIN task = Tasks /\ DOMAIN duress = Tasks
  /\ \A t \in Tasks :
       /\ DOMAIN task[t] = {"pc", "key", "out"}
       /\ DOMAIN task[t].out = DOMAIN Out
       /\ task[t].pc \in Places

(***************************************************************************)
(* What is known of a decision at each place of the evaluation: the flags  *)
(* and the verdict are as they were given until the branch that sets them, *)
(* and only a packet that is to be dropped reaches the sentence.           *)
(***************************************************************************)
Reached(t) ==
  LET out == task[t].out
  IN /\ At(t, "quarantine") => out = Out
     /\ task[t].pc \in {"policy", "rate"} => out.verdict = "ALLOW" /\ ~out.rate_exceeded
     /\ task[t].pc \in {"sentence", "flag"} =>
          out.rate_exceeded \/ out.policy_action = "QUARANTINE"

Decided == \A t \in Tasks : Reached(t)

DecisionInv == TasksShaped /\ Decided /\ DropHasCause

(***************************************************************************)
(* What a step of task u's evaluation leaves to show: the decision of u.   *)
(* The other tasks are where they were.                                    *)
(***************************************************************************)
LEMMA OwnDecision ==
  ASSUME DecisionInv, NEW u \in Tasks, NEW pc \in Places, NEW out,
         Go(u, pc, out), DOMAIN duress' = Tasks,
         DOMAIN out = DOMAIN Out,
         pc = "quarantine" => out = Out,
         pc \in {"policy", "rate"} => out.verdict = "ALLOW" /\ ~out.rate_exceeded,
         pc \in {"sentence", "flag"} => out.rate_exceeded \/ out.policy_action = "QUARANTINE",
         pc = "idle" => /\ out.rate_exceeded => out.verdict = "DROP"
                        /\ out.verdict = "DROP" =>
                             /\ out.events \ {"FLOW_SEEN"} # {}
                             /\ \/ out.quarantined \/ out.rate_exceeded
                                \/ out.policy_action \in {"DENY", "QUARANTINE"}
  PROVE  DecisionInv'
<1>1. task'[u].pc = pc /\ task'[u].out = out /\ DOMAIN task'[u] = {"pc", "key", "out"}
  BY DEF Go, DecisionInv, TasksShaped
<1>2. DOMAIN task' = Tasks /\ \A t \in Tasks \ {u} : task'[t] = task[t]
  BY DEF Go, DecisionInv, TasksShaped
<1>3. TasksShaped'
  BY <1>1, <1>2 DEF TasksShaped, DecisionInv
<1>4. Decided'
  BY <1>1, <1>2 DEF Decided, Reached, At, DecisionInv
<1>5. DropHasCause'
  BY <1>1, <1>2 DEF DropHasCause, At, DecisionInv
<1> QED BY <1>3, <1>4, <1>5 DEF DecisionInv

\* A step of no task changes no decision.
LEMMA OtherDecision ==
  ASSUME DecisionInv, UNCHANGED task, DOMAIN duress' = Tasks
  PROVE  DecisionInv'
BY DEF DecisionInv, TasksShaped, Decided, Reached, DropHasCause, At

(***************************************************************************)
(* A task that begins finds the decision as it is cleared.                 *)
(***************************************************************************)
LEMMA DecisionInit == Init => DecisionInv
BY DEF Init, DecisionInv, TasksShaped, Decided, Reached, DropHasCause, At, Out, Places

\* Every step keeps the invariant.
LEMMA DecisionStep == DecisionInv /\ [Next]_vars => DecisionInv'
<1> SUFFICES ASSUME DecisionInv, [Next]_vars PROVE DecisionInv'
  OBVIOUS
<1>1. CASE UNCHANGED vars
  BY <1>1 DEF vars, DecisionInv, TasksShaped, Decided, Reached, DropHasCause, At
<1>2. CASE Next
  <2>1. DOMAIN duress' = Tasks
    BY <1>2 DEF Next, Observe
  <2>2. ASSUME NEW t \in Tasks, NEW key \in Keys, begin(t, key)
        PROVE  DecisionInv'
    <3>1. /\ DOMAIN task' = Tasks /\ \A u \in Tasks \ {t} : task'[u] = task[u]
          /\ task'[t] = [pc |-> "quarantine", key |-> key, out |-> Out]
      BY <2>2 DEF begin, DecisionInv, TasksShaped
    <3>2. TasksShaped'
      BY <2>1, <3>1 DEF TasksShaped, DecisionInv, Places
    <3>3. Decided' /\ DropHasCause'
      BY <3>1 DEF Decided, Reached, DropHasCause, At, DecisionInv
    <3> QED BY <3>2, <3>3 DEF DecisionInv
  <2>3. ASSUME NEW t \in Tasks, check_quarantine(t)
        PROVE  DecisionInv'
    <3> DEFINE out == [task[t].out EXCEPT !.quarantined = Listed(task[t].key.src)]
               drop == [out EXCEPT !.verdict = "DROP", !.events = {"POLICY_DENY"}]
    <3>1. task[t].out = Out
      BY <2>3 DEF check_quarantine, DecisionInv, Decided, Reached
    <3>2. CASE Listed(task[t].key.src) /\ Go(t, "idle", drop)
      <4>1. drop.quarantined /\ ~drop.rate_exceeded /\ drop.events = {"POLICY_DENY"}
            /\ DOMAIN drop = DOMAIN Out
        BY <3>1, <3>2 DEF Out
      <4> HIDE DEF drop
      <4> QED BY <2>1, <3>2, <4>1, OwnDecision DEF Places
    <3>3. CASE Go(t, "policy", out)
      <4>1. out.verdict = "ALLOW" /\ ~out.rate_exceeded /\ DOMAIN out = DOMAIN Out
        BY <3>1 DEF Out
      <4> HIDE DEF out
      <4> QED BY <2>1, <3>3, <4>1, OwnDecision DEF Places
    <3> QED BY <2>3, <3>2, <3>3 DEF check_quarantine, Return
  <2>4. ASSUME NEW t \in Tasks, evaluate_policy(t)
        PROVE  DecisionInv'
    <3> DEFINE action == ActionFor(task[t].key)
               out    == [task[t].out EXCEPT !.policy_action = action]
               deny   == [out EXCEPT !.verdict = "DROP", !.events = {"POLICY_DENY"}]
               divert == [out EXCEPT !.verdict = "REDIRECT"]
    <3>1. /\ task[t].out.verdict = "ALLOW" /\ ~task[t].out.rate_exceeded
          /\ DOMAIN task[t].out = DOMAIN Out
      BY <2>4 DEF evaluate_policy, DecisionInv, Decided, Reached, At, TasksShaped
    <3>2. /\ out.verdict = "ALLOW" /\ ~out.rate_exceeded /\ out.policy_action = action
          /\ DOMAIN out = DOMAIN Out
      BY <3>1 DEF Out
    <3>3. /\ deny.policy_action = action /\ ~deny.rate_exceeded
          /\ deny.events = {"POLICY_DENY"} /\ DOMAIN deny = DOMAIN Out
      BY <3>1 DEF Out
    <3>4. divert.verdict = "REDIRECT" /\ ~divert.rate_exceeded /\ DOMAIN divert = DOMAIN Out
      BY <3>1 DEF Out
    <3>5. \/ action = "DENY" /\ Go(t, "idle", deny)
          \/ action = "QUARANTINE" /\ Go(t, "sentence", out)
          \/ Go(t, "idle", divert)
          \/ Go(t, "rate", out)
      BY <2>4, Zenon DEF evaluate_policy, Return
    <3> HIDE DEF out, deny, divert, action
    <3> QED BY <2>1, <3>2, <3>3, <3>4, <3>5, OwnDecision DEF Places
  <2>5. ASSUME NEW t \in Tasks, policy_fails(t)
        PROVE  DecisionInv'
    <3>1. /\ task[t].out.verdict = "ALLOW" /\ ~task[t].out.rate_exceeded
          /\ DOMAIN task[t].out = DOMAIN Out /\ Go(t, "rate", task[t].out)
      BY <2>5 DEF policy_fails, DecisionInv, Decided, Reached, At, TasksShaped
    <3> QED BY <2>1, <3>1, OwnDecision DEF Places
  <2>6. ASSUME NEW t \in Tasks, sentence(t)
        PROVE  DecisionInv'
    <3>1. /\ task[t].out.rate_exceeded \/ task[t].out.policy_action = "QUARANTINE"
          /\ DOMAIN task[t].out = DOMAIN Out /\ Go(t, "flag", task[t].out)
      BY <2>6 DEF sentence, DecisionInv, Decided, Reached, At, TasksShaped
    <3> QED BY <2>1, <3>1, OwnDecision DEF Places
  <2>7. ASSUME NEW t \in Tasks, flag(t)
        PROVE  DecisionInv'
    <3> DEFINE out == [task[t].out EXCEPT !.verdict = "DROP",
                                          !.events = @ \cup {"DEVICE_QUARANTINED"}]
    <3>1. /\ task[t].out.rate_exceeded \/ task[t].out.policy_action = "QUARANTINE"
          /\ DOMAIN task[t].out = DOMAIN Out /\ Go(t, "idle", out)
      BY <2>7 DEF flag, DecisionInv, Decided, Reached, At, TasksShaped, Return
    <3>2. /\ out.verdict = "DROP" /\ "DEVICE_QUARANTINED" \in out.events
          /\ out.rate_exceeded \/ out.policy_action = "QUARANTINE"
          /\ DOMAIN out = DOMAIN Out
      BY <3>1 DEF Out
    <3> HIDE DEF out
    <3>3. out.events \ {"FLOW_SEEN"} # {}
      BY <3>2
    <3> QED BY <2>1, <3>1, <3>2, <3>3, OwnDecision DEF Places
  <2>8. ASSUME NEW t \in Tasks, check_rate(t)
        PROVE  DecisionInv'
    <3> DEFINE over == [task[t].out EXCEPT !.rate_exceeded = TRUE, !.events = {"RATE_EXCEEDED"}]
               drop == [over EXCEPT !.verdict = "DROP"]
               logs == task[t].out.policy_action = "LOG_ONLY"
               pass == [task[t].out EXCEPT !.verdict = IF logs THEN "LOG_ONLY" ELSE "ALLOW",
                                           !.events = IF logs THEN {"FLOW_SEEN"} ELSE {}]
    <3>1. ~task[t].out.rate_exceeded /\ DOMAIN task[t].out = DOMAIN Out
      BY <2>8 DEF check_rate, DecisionInv, Decided, Reached, At, TasksShaped
    <3>2. over.rate_exceeded /\ DOMAIN over = DOMAIN Out
      BY <3>1 DEF Out
    <3>3. /\ drop.rate_exceeded /\ drop.verdict = "DROP" /\ DOMAIN drop = DOMAIN Out
          /\ drop.events = {"RATE_EXCEEDED"}
      BY <3>1 DEF Out
    <3>4. pass.verdict # "DROP" /\ ~pass.rate_exceeded /\ DOMAIN pass = DOMAIN Out
      BY <3>1 DEF Out
    <3>5. Go(t, "sentence", over) \/ Go(t, "idle", drop) \/ Go(t, "idle", pass)
      BY <2>8, Zenon DEF check_rate, Return
    <3> HIDE DEF over, drop, pass
    <3> QED BY <2>1, <3>2, <3>3, <3>4, <3>5, OwnDecision DEF Places
  <2>9. ASSUME UNCHANGED task
        PROVE  DecisionInv'
    BY <2>1, <2>9, OtherDecision
  <2> QED
    BY <1>2, <2>2, <2>3, <2>4, <2>5, <2>6, <2>7, <2>8, <2>9
    DEF Next, Step, Tick, zone_firewall_evaluate_flow, restrict, pardon, add_policy,
        remove_policy
<1> QED BY <1>1, <1>2

(***************************************************************************)
(* Whatever the order of the steps, a dropped packet has a cause and an    *)
(* event, and one above its limit is dropped (zone_firewall.c:93-217).     *)
(***************************************************************************)
THEOREM DropsAreCaused == Spec => []DropHasCause
<1>1. DecisionInv => DropHasCause
  BY DEF DecisionInv
<1> QED BY <1>1, DecisionInit, DecisionStep, PTL DEF Spec

-----------------------------------------------------------------------------
(***************************************************************************)
(* Being condemned.  While an evaluation lasts, what the history says was  *)
(* true all along is true now, so that the step which asks finds it; and   *)
(* past that step the history of a packet that went on is void.            *)
(***************************************************************************)
Condemned(t) ==
  /\ ~At(t, "idle") => (duress[t].held => Held(t)) /\ (duress[t].denied => Denied(t))
  /\ duress[t].held => \/ At(t, "quarantine")
                       \/ At(t, "idle") /\ task[t].out.verdict = "DROP"
  /\ duress[t].denied => \/ task[t].pc \in {"quarantine", "policy", "sentence", "flag"}
                         \/ At(t, "idle") /\ task[t].out.verdict = "DROP"

CondemnedInv == \A t \in Tasks : Condemned(t)

\* The invariant holds at the start.
LEMMA CondemnedInit == Init => CondemnedInv
BY DEF Init, CondemnedInv, Condemned, At

(***************************************************************************)
(* A step in which the task of t neither begins nor ends nor decides.      *)
(***************************************************************************)
LEMMA StaysCondemned ==
  ASSUME CondemnedInv, Observe, NEW t \in Tasks, task'[t] = task[t]
  PROVE  Condemned(t)'
<1>1. CASE At(t, "idle")
  BY <1>1 DEF CondemnedInv, Condemned, Observe, At
<1>2. CASE ~At(t, "idle")
  <2>1. /\ duress'[t].held => duress[t].held /\ Held(t)'
        /\ duress'[t].denied => duress[t].denied /\ Denied(t)'
    BY <1>2, Zenon DEF Observe, At
  <2> QED BY <2>1 DEF CondemnedInv, Condemned, At
<1> QED BY <1>1, <1>2

(***************************************************************************)
(* A step in the middle of the evaluation of t.                            *)
(***************************************************************************)
LEMMA MovesCondemned ==
  ASSUME CondemnedInv, Observe, NEW t \in Tasks, ~At(t, "idle"),
         NEW pc \in Places, task'[t].pc = pc,
         duress[t].held => \/ pc = "quarantine"
                           \/ pc = "idle" /\ task'[t].out.verdict = "DROP",
         duress[t].denied => \/ pc \in {"quarantine", "policy", "sentence", "flag"}
                             \/ pc = "idle" /\ task'[t].out.verdict = "DROP"
  PROVE  Condemned(t)'
<1>1. /\ duress'[t].held => duress[t].held /\ Held(t)'
      /\ duress'[t].denied => duress[t].denied /\ Denied(t)'
  BY Zenon DEF Observe, At
<1> QED BY <1>1 DEF Condemned, At

(***************************************************************************)
(* A step of one task's evaluation moves no other task.                    *)
(***************************************************************************)
LEMMA OthersStay ==
  ASSUME TasksShaped, NEW t \in Tasks, zone_firewall_evaluate_flow(t)
  PROVE  \A u \in Tasks \ {t} : task'[u] = task[u]
<1> SUFFICES ASSUME NEW u \in Tasks, u # t PROVE task'[u] = task[u]
  OBVIOUS
<1> QED
  BY DEF TasksShaped, zone_firewall_evaluate_flow, begin, check_quarantine, evaluate_policy,
         policy_fails, sentence, flag, check_rate, Return, Go

\* Every step keeps it.
LEMMA CondemnedStep == DecisionInv /\ CondemnedInv /\ [Next]_vars => CondemnedInv'
<1> SUFFICES ASSUME DecisionInv, CondemnedInv, [Next]_vars PROVE CondemnedInv'
  OBVIOUS
<1>1. CASE UNCHANGED vars
  <2>1. ASSUME NEW t \in Tasks PROVE (Held(t)' <=> Held(t)) /\ (Denied(t)' <=> Denied(t))
    BY <1>1 DEF vars, Held, Denied, Listed, Mode, ActionFor, ts
  <2> QED BY <1>1, <2>1 DEF vars, CondemnedInv, Condemned, At
<1>2. CASE Next
  <2>1. Observe /\ DOMAIN task = Tasks /\ \A t \in Tasks : DOMAIN task[t] = {"pc", "key", "out"}
    BY <1>2 DEF Next, DecisionInv, TasksShaped
  <2>2. ASSUME NEW u \in Tasks, zone_firewall_evaluate_flow(u), NEW t \in Tasks, t # u
        PROVE  Condemned(t)'
    <3>1. task'[t] = task[t]
      BY <2>2, OthersStay DEF DecisionInv
    <3> QED BY <2>1, <3>1, StaysCondemned
  <2>3. ASSUME NEW t \in Tasks, NEW key \in Keys, begin(t, key)
        PROVE  Condemned(t)'
    <3>1. At(t, "idle") /\ task'[t].pc = "quarantine"
      BY <2>1, <2>3 DEF begin
    <3>2. (duress'[t].held => Held(t)') /\ (duress'[t].denied => Denied(t)')
      BY <2>1, <3>1, Zenon DEF Observe, At
    <3> QED BY <3>1, <3>2 DEF Condemned, At
  <2>4. ASSUME NEW t \in Tasks, check_quarantine(t)
        PROVE  Condemned(t)'
    <3>1. At(t, "quarantine") /\ ~At(t, "idle")
      BY <2>4 DEF check_quarantine, At
    <3>2. CASE Held(t)
      <4>1. task'[t].pc = "idle" /\ task'[t].out.verdict = "DROP"
        <5> DEFINE src == task[t].key.src
                   out == [[task[t].out EXCEPT !.quarantined = Listed(src)]
                             EXCEPT !.verdict = "DROP", !.events = {"POLICY_DENY"}]
        <5>1. Go(t, "idle", out)
          BY <2>4, <3>2, Zenon DEF check_quarantine, Held, Return
        <5>2. out.verdict = "DROP"
          BY DEF DecisionInv, TasksShaped, Out
        <5> HIDE DEF out
        <5> QED BY <2>1, <5>1, <5>2 DEF Go
      <4> QED BY <2>1, <3>1, <4>1, MovesCondemned DEF Places
    <3>3. CASE ~Held(t)
      <4>1. task'[t].pc = "policy"
        BY <2>1, <2>4, <3>3 DEF check_quarantine, Held, Return, Go
      <4>2. ~duress[t].held
        BY <3>1, <3>3 DEF CondemnedInv, Condemned
      <4> QED BY <2>1, <3>1, <4>1, <4>2, MovesCondemned DEF Places
    <3> QED BY <3>2, <3>3
  <2>5. ASSUME NEW t \in Tasks, evaluate_policy(t)
        PROVE  Condemned(t)'
    <3> DEFINE action == ActionFor(task[t].key)
    <3>1. At(t, "policy") /\ ~At(t, "idle") /\ ~duress[t].held
      BY <2>5 DEF evaluate_policy, At, CondemnedInv, Condemned
    <3>2. CASE action = "DENY"
      <4>1. task'[t].pc = "idle" /\ task'[t].out.verdict = "DROP"
        <5> DEFINE out == [[task[t].out EXCEPT !.policy_action = action]
                             EXCEPT !.verdict = "DROP", !.events = {"POLICY_DENY"}]
        <5>1. Go(t, "idle", out)
          BY <2>5, <3>2 DEF evaluate_policy, Return
        <5>2. out.verdict = "DROP"
          BY DEF DecisionInv, TasksShaped, Out
        <5> HIDE DEF out
        <5> QED BY <2>1, <5>1, <5>2 DEF Go
      <4> QED BY <2>1, <3>1, <4>1, MovesCondemned DEF Places
    <3>3. CASE action = "QUARANTINE"
      <4>1. task'[t].pc = "sentence"
        BY <2>1, <2>5, <3>3 DEF evaluate_policy, Return, Go
      <4> QED BY <2>1, <3>1, <4>1, MovesCondemned DEF Places
    <3>4. CASE action \notin {"DENY", "QUARANTINE"}
      <4>1. task'[t].pc \in {"idle", "rate"}
        BY <2>1, <2>5, <3>4 DEF evaluate_policy, Return, Go
      <4>2. ~duress[t].denied
        BY <3>1, <3>4 DEF CondemnedInv, Condemned, Denied
      <4> QED BY <2>1, <3>1, <4>1, <4>2, MovesCondemned DEF Places
    <3> QED BY <3>2, <3>3, <3>4
  <2>6. ASSUME NEW t \in Tasks, policy_fails(t)
        PROVE  Condemned(t)'
    <3>1. /\ At(t, "policy") /\ ~At(t, "idle") /\ task'[t].pc = "rate"
          /\ "policy" \notin ready
      BY <2>1, <2>6 DEF policy_fails, At, Go
    <3>2. ~duress[t].held /\ ~duress[t].denied
      BY <3>1 DEF CondemnedInv, Condemned, Denied, At
    <3> QED BY <2>1, <3>1, <3>2, MovesCondemned DEF Places
  <2>7. ASSUME NEW t \in Tasks, sentence(t)
        PROVE  Condemned(t)'
    <3>1. At(t, "sentence") /\ ~At(t, "idle") /\ task'[t].pc = "flag"
      BY <2>1, <2>7 DEF sentence, At, Go
    <3>2. ~duress[t].held
      BY <3>1 DEF CondemnedInv, Condemned, At
    <3> QED BY <2>1, <3>1, <3>2, MovesCondemned DEF Places
  <2>8. ASSUME NEW t \in Tasks, flag(t)
        PROVE  Condemned(t)'
    <3>1. /\ ~At(t, "idle") /\ task'[t].pc = "idle" /\ task'[t].out.verdict = "DROP"
      BY <2>1, <2>8 DEF flag, At, Return, Go, DecisionInv, TasksShaped, Out
    <3> QED BY <2>1, <3>1, MovesCondemned DEF Places
  <2>9. ASSUME NEW t \in Tasks, check_rate(t)
        PROVE  Condemned(t)'
    <3>1. At(t, "rate") /\ ~At(t, "idle") /\ task'[t].pc \in {"idle", "sentence"}
      BY <2>1, <2>9 DEF check_rate, At, Return, Go
    <3>2. ~duress[t].held /\ ~duress[t].denied
      BY <3>1 DEF CondemnedInv, Condemned, At
    <3> QED BY <2>1, <3>1, <3>2, MovesCondemned DEF Places
  <2>10. ASSUME UNCHANGED task
         PROVE  CondemnedInv'
    BY <2>1, <2>10, StaysCondemned DEF CondemnedInv
  <2>11. ASSUME NEW u \in Tasks, zone_firewall_evaluate_flow(u)
         PROVE  CondemnedInv'
    <3>1. Condemned(u)'
      BY <2>3, <2>4, <2>5, <2>6, <2>7, <2>8, <2>9, <2>11 DEF zone_firewall_evaluate_flow
    <3> QED BY <2>2, <2>11, <3>1 DEF CondemnedInv
  <2> QED
    BY <1>2, <2>10, <2>11 DEF Next, Step, Tick, restrict, pardon, add_policy, remove_policy
<1> QED BY <1>1, <1>2

(***************************************************************************)
(* A packet that the list or the policy condemns from the beginning to the *)
(* end of its evaluation is dropped, for every number of tasks and every   *)
(* change of the list and the rules meanwhile (zone_firewall.c:93-157).    *)
(***************************************************************************)
THEOREM TheCondemnedAreDropped == Spec => []CondemnedIsDropped
<1>1. CondemnedInv => CondemnedIsDropped
  BY DEF CondemnedInv, Condemned, CondemnedIsDropped, QuarantinedIsDropped, DeniedIsDropped,
         Passed, At
<1> QED BY <1>1, DecisionInit, DecisionStep, CondemnedInit, CondemnedStep, PTL DEF Spec

-----------------------------------------------------------------------------
(***************************************************************************)
(* The quarantine list as the firewall uses it.  Every set of slots has a  *)
(* first one, so that the searches find what they look for.                *)
(***************************************************************************)
LEMMA FirstFound ==
  ASSUME NEW I \in SUBSET (Nat \ {0}), Q!FirstOf(I) # 0
  PROVE  Q!FirstOf(I) \in I
<1> DEFINE L == {p \in Nat \X Nat : p[1] < p[2]}
<1>1. IsWellFoundedOn(L, Nat)
  <2>1. OpToRel(<, Nat) = L
    BY Zenon DEF OpToRel
  <2> QED BY <2>1, NatLessThanWellFounded, Zenon
<1>2. \A x, y \in Nat : x < y => <<x, y>> \in L
  OBVIOUS
<1> HIDE DEF L
<1>3. I # {} /\ Q!FirstOf(I) = CHOOSE i \in I : \A j \in I : i <= j
  BY DEF Q!FirstOf
<1>4. PICK x \in I : \A y \in I : ~(<<y, x>> \in L)
  <2>1. I \subseteq Nat
    OBVIOUS
  <2> QED BY <1>1, <1>3, <2>1, WFMin, Zenon
<1>5. \A y \in I : x <= y
  <2> TAKE y \in I
  <2>1. x \in Nat /\ y \in Nat /\ ~(y < x)
    BY <1>2, <1>4, Zenon
  <2> QED BY <2>1
<1> QED BY <1>3, <1>5

EntryFields == {"subject", "mode", "created_at_ms", "expires_at_ms", "last_hit_ms"}

ListShaped(q) ==
  /\ DOMAIN q = {"slots", "stats"}
  /\ DOMAIN q.slots \subseteq Nat \ {0}
  /\ \A i \in DOMAIN q.slots : DOMAIN q.slots[i] = EntryFields

\* Every entry of r was in q for the same subject and in the same mode.
ComesFrom(r, q) ==
  \A i \in DOMAIN r.slots :
    /\ i \in DOMAIN q.slots
    /\ r.slots[i].subject = q.slots[i].subject /\ r.slots[i].mode = q.slots[i].mode

\* The same, but for an entry of s in the given mode.
Adds(r, q, s, mode) ==
  \A i \in DOMAIN r.slots :
    \/ r.slots[i].subject = s /\ r.slots[i].mode = mode
    \/ /\ i \in DOMAIN q.slots
       /\ r.slots[i].subject = q.slots[i].subject /\ r.slots[i].mode = q.slots[i].mode

(***************************************************************************)
(* What a search for a subject finds is an entry for it (find_slot_locked).*)
(***************************************************************************)
LEMMA FindsSubject ==
  ASSUME NEW q, ListShaped(q), NEW s, Q!find_slot(q, s) # 0
  PROVE  Q!find_slot(q, s) \in DOMAIN q.slots /\ q.slots[Q!find_slot(q, s)].subject = s
<1> DEFINE I == {i \in DOMAIN q.slots : q.slots[i].subject = s}
<1>1. I \in SUBSET (Nat \ {0}) /\ Q!find_slot(q, s) = Q!FirstOf(I)
  BY DEF ListShaped, Q!find_slot
<1>2. Q!FirstOf(I) \in I
  <2> HIDE DEF I
  <2> QED BY <1>1, FirstFound
<1> QED BY <1>1, <1>2

(***************************************************************************)
(* Clearing a slot leaves the others (clear_slot_locked).                  *)
(***************************************************************************)
LEMMA DropKeeps ==
  ASSUME NEW q, ListShaped(q), NEW i, NEW why
  PROVE  ListShaped(Q!drop(q, i, why)) /\ ComesFrom(Q!drop(q, i, why), q)
BY DEF ListShaped, ComesFrom, Q!drop, Q!clear_slot

(***************************************************************************)
(* An addition makes or changes an entry of its subject, in its mode, and  *)
(* no other (quarantine_manager_add).                                      *)
(***************************************************************************)
LEMMA AddMakes ==
  ASSUME NEW q, ListShaped(q), NEW s, NEW mode, NEW ttl, NEW time
  PROVE  /\ ListShaped(Q!quarantine_manager_add(q, s, mode, ttl, time))
         /\ Adds(Q!quarantine_manager_add(q, s, mode, ttl, time), q, s, mode)
<1> DEFINE r     == Q!quarantine_manager_add(q, s, mode, ttl, time)
           found == Q!find_slot(q, s)
           entry == Q!NewEntry(s, mode, time, Q!effective_ttl(ttl))
           empty == Q!find_empty_slot(q.slots, MaxEntries)
           room  == IF empty = 0 /\ Q!victim(q) # 0 THEN Q!drop(q, Q!victim(q), "evicted") ELSE q
           slot  == IF empty = 0 THEN Q!victim(q) ELSE empty
<1>1. entry.subject = s /\ entry.mode = mode /\ DOMAIN entry = EntryFields
  BY DEF Q!NewEntry, EntryFields
<1>2. CASE r = q
  BY <1>2 DEF Adds
<1>3. CASE /\ found # 0
           /\ r = [q EXCEPT !.slots[found] = [@ EXCEPT !.mode = mode,
                                                      !.expires_at_ms = entry.expires_at_ms]]
  <2>1. found \in DOMAIN q.slots /\ q.slots[found].subject = s
    BY <1>3, FindsSubject
  <2> HIDE DEF found, entry
  <2> QED BY <1>3, <2>1 DEF ListShaped, EntryFields, Adds
<1>4. CASE slot # 0 /\ r = Q!make_entry(room, slot, entry)
  <2>1. ListShaped(room) /\ ComesFrom(room, q)
    BY DropKeeps DEF ComesFrom
  <2>2. slot \in Nat \ {0}
    <3>1. CASE empty = 0
      <4> DEFINE stamp == [i \in DOMAIN q.slots |-> Q!last_use(q.slots[i])]
                 I == {i \in DOMAIN stamp : /\ stamp[i] < ClockMod - 1
                                             /\ \A j \in DOMAIN stamp : stamp[i] <= stamp[j]}
      <4>1. slot = Q!find_lru_slot(stamp) /\ DOMAIN stamp \subseteq Nat \ {0}
        BY <3>1, Zenon DEF ListShaped, Q!victim
      <4> HIDE DEF stamp, slot
      <4>2. slot = Q!FirstOf(I) /\ I \in SUBSET (Nat \ {0})
        BY <4>1, Zenon DEF Q!find_lru_slot
      <4> HIDE DEF I
      <4> QED BY <1>4, <4>2, FirstFound, Zenon
    <3>2. CASE empty # 0
      <4> DEFINE I == (1 .. MaxEntries) \ DOMAIN q.slots
      <4>1. slot = Q!FirstOf(I) /\ I \in SUBSET (Nat \ {0})
        BY <3>2 DEF Q!find_empty_slot
      <4> HIDE DEF I, slot
      <4> QED BY <1>4, <4>1, FirstFound, Zenon
    <3> QED BY <3>1, <3>2
  <2> HIDE DEF room, slot, entry
  <2>3. /\ DOMAIN r = {"slots", "stats"}
        /\ r.slots = Q!put_slot(room.slots, slot, entry)
    BY <1>4 DEF Q!make_entry
  <2>4. ListShaped(r) /\ Adds(r, q, s, mode)
    <3> HIDE DEF r
    <3> QED BY <1>1, <2>1, <2>2, <2>3 DEF ListShaped, ComesFrom, Adds, Q!put_slot
  <2> QED BY <2>4
<1> QED BY <1>2, <1>3, <1>4 DEF Q!quarantine_manager_add

(***************************************************************************)
(* Removals and checks make no entry and change no mode                    *)
(* (quarantine_manager_remove, quarantine_manager_check).                  *)
(***************************************************************************)
LEMMA RemoveKeeps ==
  ASSUME NEW q, ListShaped(q), NEW s
  PROVE  /\ ListShaped(Q!quarantine_manager_remove(q, s))
         /\ ComesFrom(Q!quarantine_manager_remove(q, s), q)
BY DropKeeps DEF Q!quarantine_manager_remove, ComesFrom

\* Looking a subject up marks its entry, or drops the entry whose deadline has passed.
LEMMA CheckKeeps ==
  ASSUME NEW q, ListShaped(q), NEW s, NEW time
  PROVE  /\ ListShaped(Q!quarantine_manager_check(q, s, time))
         /\ ComesFrom(Q!quarantine_manager_check(q, s, time), q)
<1> DEFINE r     == Q!quarantine_manager_check(q, s, time)
           found == Q!find_slot(q, s)
<1>1. CASE r = q
  BY <1>1 DEF ComesFrom
<1>2. CASE found # 0 /\ r = [q EXCEPT !.slots[found].last_hit_ms = time]
  <2>1. found \in DOMAIN q.slots
    BY <1>2, FindsSubject
  <2> HIDE DEF found
  <2> QED BY <1>2, <2>1 DEF ListShaped, ComesFrom, EntryFields
<1>3. CASE r = Q!drop(q, found, "expired")
  BY <1>3, DropKeeps
<1> QED BY <1>1, <1>2, <1>3 DEF Q!quarantine_manager_check

(***************************************************************************)
(* The inductive invariant: besides the property, the shape of the list,   *)
(* so that the entry a search changes is the one of its subject.           *)
(***************************************************************************)
FlaggedInv == TasksShaped /\ ListShaped(list) /\ ListedIsFlagged

\* The invariant holds at the start.
LEMMA FlaggedInit == Init => FlaggedInv
<1> SUFFICES ASSUME Init PROVE FlaggedInv
  OBVIOUS
<1>1. TasksShaped
  BY DecisionInit DEF DecisionInv
<1>2. list.slots = [i \in {} |-> i] /\ DOMAIN list = {"slots", "stats"}
  BY DEF Init, Q!EmptyList, Q!EmptyTable
<1> QED BY <1>1, <1>2 DEF FlaggedInv, ListShaped, ListedIsFlagged

(***************************************************************************)
(* A step that makes no entry and takes no task from its flagging.         *)
(***************************************************************************)
LEMMA StaysFlagged ==
  ASSUME FlaggedInv, ListShaped(list'), ComesFrom(list', list), flagged \subseteq flagged',
         \A t \in Tasks : At(t, "flag") =>
            \/ task[t].key.src \in flagged'
            \/ At(t, "flag")' /\ task'[t].key = task[t].key
  PROVE  ListShaped(list') /\ ListedIsFlagged'
<1> SUFFICES ASSUME NEW i \in DOMAIN list'.slots, list'.slots[i].mode = "BLOCK_ALL"
             PROVE  \/ list'.slots[i].subject \in flagged'
                    \/ \E t \in Tasks : At(t, "flag")' /\ task'[t].key.src = list'.slots[i].subject
  BY DEF ListedIsFlagged
<1>1. /\ i \in DOMAIN list.slots /\ list.slots[i].mode = "BLOCK_ALL"
      /\ list'.slots[i].subject = list.slots[i].subject
  BY DEF ComesFrom
<1>2. \/ list.slots[i].subject \in flagged
      \/ \E t \in Tasks : At(t, "flag") /\ task[t].key.src = list.slots[i].subject
  BY <1>1 DEF FlaggedInv, ListedIsFlagged
<1> QED BY <1>1, <1>2

\* Every step keeps it.
LEMMA FlaggedStep == DecisionInv /\ FlaggedInv /\ [Next]_vars => FlaggedInv'
<1> SUFFICES ASSUME DecisionInv, FlaggedInv, [Next]_vars PROVE FlaggedInv'
  OBVIOUS
<1>1. TasksShaped'
  BY DecisionStep DEF DecisionInv
<1>2. /\ TasksShaped
      /\ DOMAIN task = Tasks /\ \A t \in Tasks : DOMAIN task[t] = {"pc", "key", "out"}
      /\ ListShaped(list) /\ ComesFrom(list, list)
  BY DEF FlaggedInv, TasksShaped, ComesFrom
<1>3. ASSUME NEW t \in Tasks, At(t, "idle") \/ ~At(t, "flag"),
             \A u \in Tasks \ {t} : task'[u] = task[u], UNCHANGED flagged,
             ListShaped(list'), ComesFrom(list', list)
      PROVE  FlaggedInv'
  BY <1>1, <1>3, StaysFlagged DEF FlaggedInv, At
<1>4. ASSUME NEW t \in Tasks, NEW key \in Keys, begin(t, key)
      PROVE  FlaggedInv'
  <2>1. At(t, "idle") /\ \A u \in Tasks \ {t} : task'[u] = task[u]
    BY <1>2, <1>4, OthersStay DEF begin, zone_firewall_evaluate_flow
  <2> QED BY <1>2, <1>3, <1>4, <2>1 DEF begin
<1>5. ASSUME NEW t \in Tasks, check_quarantine(t)
      PROVE  FlaggedInv'
  <2>1. ~At(t, "flag") /\ \A u \in Tasks \ {t} : task'[u] = task[u]
    BY <1>2, <1>5, OthersStay, Zenon DEF check_quarantine, At, zone_firewall_evaluate_flow
  <2>2. ListShaped(list') /\ ComesFrom(list', list) /\ UNCHANGED flagged
    BY <1>2, <1>5, CheckKeeps DEF check_quarantine
  <2> QED BY <1>3, <2>1, <2>2
<1>6. ASSUME NEW t \in Tasks, evaluate_policy(t) \/ policy_fails(t) \/ check_rate(t)
      PROVE  FlaggedInv'
  <2>1. \A u \in Tasks \ {t} : task'[u] = task[u]
    BY <1>2, <1>6, OthersStay, Zenon DEF zone_firewall_evaluate_flow
  <2>2. ~At(t, "flag") /\ UNCHANGED <<list, flagged>>
    <3>1. CASE evaluate_policy(t)
      BY <3>1 DEF evaluate_policy, At
    <3>2. CASE policy_fails(t)
      BY <3>2 DEF policy_fails, At
    <3>3. CASE check_rate(t)
      BY <3>3 DEF check_rate, At
    <3> QED BY <1>6, <3>1, <3>2, <3>3
  <2> QED BY <1>2, <1>3, <2>1, <2>2
<1>7. ASSUME NEW t \in Tasks, sentence(t)
      PROVE  FlaggedInv'
  <2>1. /\ ~At(t, "flag") /\ \A u \in Tasks \ {t} : task'[u] = task[u]
        /\ At(t, "flag")' /\ task'[t].key = task[t].key /\ UNCHANGED flagged
    BY <1>2, <1>7 DEF sentence, Go, At
  <2>2. CASE UNCHANGED list
    BY <1>2, <1>3, <2>1, <2>2
  <2>3. CASE list' = Q!quarantine_manager_add(list, task[t].key.src, "BLOCK_ALL", QuarantineTtl, ts)
    <3>1. ListShaped(list') /\ Adds(list', list, task[t].key.src, "BLOCK_ALL")
      BY <1>2, <2>3, AddMakes
    <3>2. ASSUME NEW i \in DOMAIN list'.slots, list'.slots[i].mode = "BLOCK_ALL"
          PROVE  \/ list'.slots[i].subject \in flagged'
                 \/ \E u \in Tasks : At(u, "flag")' /\ task'[u].key.src = list'.slots[i].subject
      <4>1. CASE list'.slots[i].subject = task[t].key.src
        BY <2>1, <4>1
      <4>2. CASE /\ i \in DOMAIN list.slots /\ list.slots[i].mode = "BLOCK_ALL"
                 /\ list'.slots[i].subject = list.slots[i].subject
        <5>1. \/ list.slots[i].subject \in flagged
              \/ \E u \in Tasks : At(u, "flag") /\ task[u].key.src = list.slots[i].subject
          BY <4>2 DEF FlaggedInv, ListedIsFlagged
        <5> QED BY <2>1, <4>2, <5>1 DEF At
      <4> QED BY <3>1, <3>2, <4>1, <4>2 DEF Adds
    <3> QED BY <1>1, <3>1, <3>2 DEF FlaggedInv, ListedIsFlagged
  <2> QED BY <1>7, <2>2, <2>3 DEF sentence
<1>8. ASSUME NEW t \in Tasks, flag(t)
      PROVE  FlaggedInv'
  <2>1. /\ flagged' = flagged \cup {task[t].key.src} /\ UNCHANGED list
        /\ \A u \in Tasks \ {t} : task'[u] = task[u]
    BY <1>2, <1>8, OthersStay, Zenon DEF flag, zone_firewall_evaluate_flow
  <2> QED BY <1>1, <1>2, <2>1, StaysFlagged DEF FlaggedInv, At
<1>9. ASSUME NEW src \in Sources, restrict(src)
      PROVE  FlaggedInv'
  <2>1. ListShaped(list') /\ Adds(list', list, src, "RESTRICTED") /\ UNCHANGED <<flagged, task>>
    BY <1>2, <1>9, AddMakes DEF restrict
  <2>2. ASSUME NEW i \in DOMAIN list'.slots, list'.slots[i].mode = "BLOCK_ALL"
        PROVE  /\ i \in DOMAIN list.slots /\ list.slots[i].mode = "BLOCK_ALL"
               /\ list'.slots[i].subject = list.slots[i].subject
    BY <2>1, <2>2 DEF Adds
  <2> QED BY <1>1, <2>1, <2>2 DEF FlaggedInv, ListedIsFlagged, At
<1>10. ASSUME NEW src \in Sources, pardon(src)
       PROVE  FlaggedInv'
  <2>1. ListShaped(list') /\ ComesFrom(list', list) /\ UNCHANGED <<flagged, task>>
    BY <1>2, <1>10, RemoveKeeps DEF pardon
  <2> QED BY <1>1, <2>1, StaysFlagged DEF FlaggedInv, At
<1>11. ASSUME UNCHANGED <<list, flagged, task>>
       PROVE  FlaggedInv'
  BY <1>1, <1>2, <1>11, StaysFlagged DEF FlaggedInv, At
<1> QED
  BY <1>4, <1>5, <1>6, <1>7, <1>8, <1>9, <1>10, <1>11
  DEF Next, Step, Tick, zone_firewall_evaluate_flow, add_policy, remove_policy, vars

(***************************************************************************)
(* An address that the firewall put on the list is marked in the registry  *)
(* or about to be, for every number of tasks and every capacity of the     *)
(* list (zone_firewall.c:136-146, 186-201).                                *)
(***************************************************************************)
THEOREM TheListedAreFlagged == Spec => []ListedIsFlagged
<1>1. FlaggedInv => ListedIsFlagged
  BY DEF FlaggedInv
<1> QED BY <1>1, DecisionInit, DecisionStep, FlaggedInit, FlaggedStep, PTL DEF Spec
=============================================================================
