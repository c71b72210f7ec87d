------------------------------ MODULE RuleTable ------------------------------
(***************************************************************************)
(* Tables of rules with priorities, as policy_engine.c and rate_limiter.c  *)
(* keep them.  A rule carries, for each field of a flow key, the set of    *)
(* values it admits: a mask admits a block of addresses, and a zero mask,  *)
(* port, protocol or direction admits every value.                         *)
(***************************************************************************)
EXTENDS SlotTable

CONSTANTS
  Keys,       \* flow_key_t with its direction: records
  MaxRules,   \* POLICY_ENGINE_MAX_RULES, RATE_LIMITER_MAX_RULES
  OwnIds      \* the ids that callers choose themselves; 0 asks for the next one

RuleAssumption == MaxRules \in Nat \ {0} /\ OwnIds \subseteq Nat \ {0}

NoRules == [slots |-> EmptyTable, active_rules |-> 0, next_rule_id |-> 1]

find_rule_slot(r, id) == FirstOf({i \in DOMAIN r.slots : r.slots[i].rule_id = id})

\* A rule that finds no slot changes nothing (ESP_ERR_NO_MEM).
add_rule(r, rule) ==
  LET i == find_empty_slot(r.slots, MaxRules)
  IN IF i = 0 THEN r
     ELSE [slots |-> put_slot(r.slots, i, [rule EXCEPT !.rule_id =
                                             IF @ = 0 THEN r.next_rule_id ELSE @]),
           active_rules |-> r.active_rules + 1,
           next_rule_id |-> IF rule.rule_id = 0 THEN r.next_rule_id + 1 ELSE r.next_rule_id]

drop_rules(r, I) ==
  LET left == r.active_rules - Cardinality(I)
  IN [r EXCEPT !.slots = [i \in DOMAIN r.slots \ I |-> r.slots[i]],
               !.active_rules = IF left > 0 THEN left ELSE 0]

remove_rule(r, id) ==
  LET i == find_rule_slot(r, id)
  IN IF id # 0 /\ i # 0 THEN drop_rules(r, {i}) ELSE r

fields_match(rule, key) == \A f \in DOMAIN key : key[f] \in rule.match[f]

\* Faulty variant: the first rule that matches is taken.
best_first(r, matching) == FirstOf(matching)

\* The loop over the slots that keeps the best rule so far; 0 when none matches.
best_rule(r, matching) ==
  LET best[n \in 0 .. MaxRules] ==
        IF n = 0 THEN 0
        ELSE IF /\ n \in matching
                /\ \/ best[n - 1] = 0
                   \/ r.slots[n].priority >= r.slots[best[n - 1]].priority
             THEN n ELSE best[n - 1]
  IN best[MaxRules]
=============================================================================
