---------------------------- MODULE PolicyEngine ----------------------------
(***************************************************************************)
(* The policy engine (policy_engine.c): rules with priorities and expiry   *)
(* times; the best rule that matches a flow decides, or a default action.  *)
(***************************************************************************)
EXTENDS RuleTable

CONSTANTS
  Actions,       \* policy_action_t
  RuleShapes,    \* the rules callers add: [match, priority, action, expires_at_ms]
  MaxRuleIds     \* bound on the ids given out

PolicyAssumption ==
  /\ MaxRuleIds \in Nat
  /\ \A s \in RuleShapes : s.action \in Actions /\ {s.priority, s.expires_at_ms} \subseteq Nat

rule_is_expired(rule, ts) == rule.expires_at_ms # 0 /\ ts >= rule.expires_at_ms

rule_matches(rule, key, ts) == ~rule_is_expired(rule, ts) /\ fields_match(rule, key)

matching_rules(r, key, ts) == {i \in DOMAIN r.slots : rule_matches(r.slots[i], key, ts)}

\* The action that policy_engine_evaluate returns.
policy_engine_evaluate(r, default, key, ts) ==
  LET best == best_rule(r, matching_rules(r, key, ts))
  IN IF best = 0 THEN default ELSE r.slots[best].action

policy_engine_expire_rules(r, ts) ==
  drop_rules(r, {i \in DOMAIN r.slots : rule_is_expired(r.slots[i], ts)})

-----------------------------------------------------------------------------
VARIABLES
  now,              \* time since boot
  rules,            \* s_rules, active_rules and s_next_rule_id
  default_action,   \* s_config.default_action
  given             \* history: the ids given out by the engine since the last reset

vars == <<now, rules, default_action, given>>

Init == now = 1 /\ rules = NoRules /\ default_action = "ALLOW" /\ given = {}

Rule(shape, id) ==
  [rule_id |-> id, match |-> shape.match, priority |-> shape.priority,
   action |-> shape.action, expires_at_ms |-> shape.expires_at_ms]

add(shape, id) ==
  /\ rules.next_rule_id <= MaxRuleIds
  /\ rules' = add_rule(rules, Rule(shape, id))
  /\ given' = given \cup {rules'.slots[i].rule_id :
                         i \in {j \in DOMAIN rules'.slots \ DOMAIN rules.slots : id = 0}}
  /\ UNCHANGED <<now, default_action>>

remove(id) == rules' = remove_rule(rules, id) /\ UNCHANGED <<now, default_action, given>>

set_default_action(a) == default_action' = a /\ UNCHANGED <<now, rules, given>>

expire_rules ==
  /\ rules' = policy_engine_expire_rules(rules, now_ms(now))
  /\ UNCHANGED <<now, default_action, given>>

reset == rules' = NoRules /\ given' = {} /\ UNCHANGED <<now, default_action>>

Tick == now < MaxTime /\ now' = now + 1 /\ UNCHANGED <<rules, default_action, given>>

Next ==
  \/ Tick \/ expire_rules \/ reset
  \/ \E a \in Actions : set_default_action(a)
  \/ \E id \in 0 .. MaxRuleIds : remove(id)
  \/ \E shape \in RuleShapes, id \in OwnIds \cup {0} : add(shape, id)

Spec == Init /\ [][Next]_vars

-----------------------------------------------------------------------------
TypeOK ==
  /\ now \in 1 .. MaxTime
  /\ DOMAIN rules.slots \subseteq 1 .. MaxRules
  /\ \A i \in DOMAIN rules.slots :
       \E s \in RuleShapes, id \in 1 .. MaxRuleIds : rules.slots[i] = Rule(s, id)
  /\ rules.next_rule_id \in 1 .. MaxRuleIds + 1
  /\ default_action \in Actions

(***************************************************************************)
(* The loop over the slots finds, among the rules in force that match, the *)
(* highest priority and, among equals, the last slot, whatever additions,  *)
(* removals and expiries made of the order of the slots; only a flow that  *)
(* no rule matches gets the default (policy_engine_evaluate;               *)
(* find_best_rule_locked of the rate limiter is the same loop).            *)
(***************************************************************************)
HighestPriorityPrevails ==
  \A key \in Keys :
    LET a    == policy_engine_evaluate(rules, default_action, key, now_ms(now))
        live == {i \in DOMAIN rules.slots :
                   /\ \A f \in DOMAIN key : key[f] \in rules.slots[i].match[f]
                   /\ rules.slots[i].expires_at_ms \notin 1 .. now_ms(now)}
    IN IF live = {} THEN a = default_action
       ELSE \E i \in live :
              /\ a = rules.slots[i].action
              /\ \A j \in live : \/ rules.slots[j].priority < rules.slots[i].priority
                                 \/ rules.slots[j].priority = rules.slots[i].priority /\ j <= i

(***************************************************************************)
(* active_rules is the number of rules (the counters next to every memset  *)
(* of a slot).                                                             *)
(***************************************************************************)
RulesAccounted == rules.active_rules = Cardinality(DOMAIN rules.slots)

(***************************************************************************)
(* An id that the engine gave out means one rule, also after removals and  *)
(* expiries, unless a caller chose the same id for a rule of its own       *)
(* (policy_engine_add_rule, s_next_rule_id).                               *)
(***************************************************************************)
GivenIdsDistinct ==
  \A i, j \in DOMAIN rules.slots :
    /\ rules.slots[i].rule_id = rules.slots[j].rule_id
    /\ rules.slots[i].rule_id \in given \ OwnIds
    => i = j
=============================================================================
