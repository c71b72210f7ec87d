---------------------------- MODULE ZoneFirewall ----------------------------
(***************************************************************************)
(* The zone firewall (zone_firewall.c): the evaluation of one packet calls *)
(* the flow table, the quarantine list, the policy engine and the rate     *)
(* limiter in turn.  Each call is one critical section; between the calls  *)
(* other tasks evaluate other packets, rules change and time passes.       *)
(*                                                                         *)
(* The components are used through the functions of their own modules.     *)
(***************************************************************************)
EXTENDS Integers, FiniteSets, TLC

CONSTANTS
  Tasks,            \* the tasks that evaluate packets
  Keys,             \* flow_key_t: [src, port]
  ClockMod, MaxTime,
  ReadySets,        \* which of the policy engine and the quarantine list are initialised
  PolicyShapes,     \* the rules that callers of the policy engine add
  RateRuleTable,    \* the rules of the rate limiter, set at boot
  DefaultParams,    \* its limits for flows without a rule
  AutoQuarantine,   \* auto_quarantine_on_rate_limit
  QuarantineTtl,    \* quarantine_ttl_ms
  MaxEntries,       \* QUARANTINE_MAX_ENTRIES
  MaxFlows,         \* FLOW_TABLE_MAX_ENTRIES
  MaxBuckets,       \* RATE_LIMITER_MAX_BUCKETS
  MaxRules,         \* POLICY_ENGINE_MAX_RULES
  MaxRuleIds,       \* bound on the rules added
  MaxEvaluations,   \* bound on the packets evaluated
  MaxListed         \* bound on the entries that other callers put on the list

ASSUME FirewallAssumption ==
  /\ ReadySets \subseteq SUBSET {"policy", "quarantine"}
  /\ AutoQuarantine \in BOOLEAN /\ {MaxTime, MaxRuleIds, MaxEvaluations, MaxListed} \subseteq Nat

VARIABLES
  now,      \* time since boot
  ready,    \* s_initialized of the policy engine and of the quarantine list
  flows,    \* the flow table
  list,     \* the quarantine list
  rules,    \* the rules of the policy engine
  buckets,  \* the buckets of the rate limiter
  flagged,  \* the addresses whose device the registry holds as QUARANTINED
  stats,    \* s_stats
  task,     \* for each task the place in zone_firewall_evaluate_flow and its decision
  duress    \* history: what held all along the evaluation

vars == <<now, ready, flows, list, rules, buckets, flagged, stats, task, duress>>

Sources == {key.src : key \in Keys}

F == INSTANCE FlowTable WITH
       FlowKeys <- Keys, EvictFlows <- TRUE, MaxIdle <- 0, HardTtl <- 0, FlowStates <- {},
       Notes <- {}, NoNote <- "none", MaxCreated <- 0, MaxWait <- 0, sighted <- 0

Q == INSTANCE QuarantineManager WITH
       Subjects <- Sources, NoSubject <- "0.0.0.0", Modes <- {"BLOCK_ALL", "RESTRICTED"},
       DefaultTtl <- QuarantineTtl, EvictLru <- TRUE, Ttls <- {}, MaxAdded <- 0,
       MaxWait <- 0, duty <- 0

P == INSTANCE PolicyEngine WITH
       OwnIds <- {}, Actions <- {}, RuleShapes <- PolicyShapes, MaxWait <- 0,
       default_action <- "ALLOW", given <- {}

R == INSTANCE RateLimiter WITH
       OwnIds <- {}, EvictBuckets <- TRUE, MaxBucketIdle <- 0, RateRules <- {},
       PacketSizes <- {}, MaxCount <- 0, MaxMade <- 0, MaxRateIds <- 0, MaxWait <- 0,
       usage <- 0

Counters == {"evaluations", "allowed", "dropped", "redirected",
             "quarantined_hits", "rate_exceeded", "policy_denied"}

Out == [verdict |-> "ALLOW", policy_action |-> "ALLOW", rate_exceeded |-> FALSE,
        quarantined |-> FALSE, events |-> {}]

Init ==
  /\ now = 1 /\ ready \in ReadySets
  /\ flows = F!EmptyFlows /\ list = Q!EmptyList
  /\ rules = P!NoRules /\ buckets = R!NoBuckets
  /\ flagged = {} /\ stats = [c \in Counters |-> 0]
  /\ task = [t \in Tasks |-> [pc |-> "idle", key |-> CHOOSE k \in Keys : TRUE, out |-> Out]]
  /\ duress = [t \in Tasks |-> [held |-> FALSE, denied |-> FALSE]]

ts == now % ClockMod

Count(C) == stats' = [c \in Counters |-> IF c \in C THEN stats[c] + 1 ELSE stats[c]]

At(t, pc) == task[t].pc = pc

Go(t, pc, out) == task' = [task EXCEPT ![t].pc = pc, ![t].out = out]

\* The last step of a packet: the verdict, the counters and the event.
Return(t, out, C) == Go(t, "idle", out) /\ Count(C)

begin(t, key) ==
  /\ At(t, "idle") /\ stats.evaluations < MaxEvaluations
  /\ task' = [task EXCEPT ![t] = [pc |-> "quarantine", key |-> key, out |-> Out]]
  /\ flows' = F!flow_table_touch(flows, key, ts)
  /\ Count({"evaluations"})
  /\ UNCHANGED <<now, ready, list, rules, buckets, flagged>>

Listed(src) == "quarantine" \in ready /\ Q!is_quarantined(list, src, ts)

Mode(src) == list.slots[Q!find_slot(list, src)].mode

\* Faulty variant: an entry of any mode counts and the packet goes on.
check_quarantine_soft(t) ==
  LET src == task[t].key.src
      out == [task[t].out EXCEPT !.quarantined = Listed(src)]
  IN /\ At(t, "quarantine")
     /\ list' = IF "quarantine" \in ready THEN Q!quarantine_manager_check(list, src, ts) ELSE list
     /\ Go(t, "policy", out)
     /\ UNCHANGED <<now, ready, flows, rules, buckets, flagged, stats>>

check_quarantine(t) ==
  LET src == task[t].key.src
      out == [task[t].out EXCEPT !.quarantined = Listed(src)]
  IN /\ At(t, "quarantine")
     /\ list' = IF "quarantine" \in ready THEN Q!quarantine_manager_check(list, src, ts) ELSE list
     /\ IF Listed(src) /\ Mode(src) = "BLOCK_ALL"
        THEN Return(t, [out EXCEPT !.verdict = "DROP", !.events = {"POLICY_DENY"}],
                    {"dropped", "quarantined_hits"})
        ELSE Go(t, "policy", out) /\ UNCHANGED stats
     /\ UNCHANGED <<now, ready, flows, rules, buckets, flagged>>

ActionFor(key) == P!policy_engine_evaluate(rules, "ALLOW", key, ts)

evaluate_policy(t) ==
  LET action == ActionFor(task[t].key)
      out    == [task[t].out EXCEPT !.policy_action = action]
  IN /\ At(t, "policy") /\ "policy" \in ready
     /\ CASE action = "DENY" ->
               Return(t, [out EXCEPT !.verdict = "DROP", !.events = {"POLICY_DENY"}],
                      {"dropped", "policy_denied"})
          [] action = "QUARANTINE" -> Go(t, "sentence", out) /\ UNCHANGED stats
          [] action = "REDIRECT" ->
               Return(t, [out EXCEPT !.verdict = "REDIRECT"], {"redirected"})
          [] OTHER -> Go(t, "rate", out) /\ UNCHANGED stats
     /\ UNCHANGED <<now, ready, flows, list, rules, buckets, flagged>>

\* The engine fails: whatever verdict default_allow gives, the last branch overwrites it.
policy_fails(t) ==
  /\ At(t, "policy") /\ "policy" \notin ready
  /\ Go(t, "rate", task[t].out)
  /\ UNCHANGED <<now, ready, flows, list, rules, buckets, flagged, stats>>

\* quarantine_manager_add_ip, refused when the list was not initialised.
sentence(t) ==
  /\ At(t, "sentence")
  /\ list' = IF "quarantine" \in ready
             THEN Q!quarantine_manager_add(list, task[t].key.src, "BLOCK_ALL", QuarantineTtl, ts)
             ELSE list
  /\ Go(t, "flag", task[t].out)
  /\ UNCHANGED <<now, ready, flows, rules, buckets, flagged, stats>>

\* Faulty variant: the registry is told nothing.
flag_nothing(t) ==
  /\ At(t, "flag")
  /\ Return(t, [task[t].out EXCEPT !.verdict = "DROP", !.events = @ \cup {"DEVICE_QUARANTINED"}],
            {"dropped", "policy_denied"})
  /\ UNCHANGED <<now, ready, flows, list, rules, buckets, flagged>>

\* device_registry_set_state_by_ip and the end of both branches that lead here.
flag(t) ==
  /\ At(t, "flag")
  /\ flagged' = flagged \cup {task[t].key.src}
  /\ Return(t, [task[t].out EXCEPT !.verdict = "DROP", !.events = @ \cup {"DEVICE_QUARANTINED"}],
            IF task[t].out.rate_exceeded THEN {"dropped"} ELSE {"dropped", "policy_denied"})
  /\ UNCHANGED <<now, ready, flows, list, rules, buckets>>

Suggested(key) ==
  LET i == R!find_best_rule(RateRuleTable, key)
  IN i # 0 /\ RateRuleTable.slots[i].suggest_quarantine

\* Faulty variant: a packet above its limit passes unless the rule suggests quarantine.
check_rate_lenient(t) ==
  LET key    == task[t].key
      result == R!rate_limiter_check(RateRuleTable, buckets, key, 1, ts)
      out    == task[t].out
  IN /\ At(t, "rate")
     /\ buckets' = result.buckets
     /\ IF result.decision = "EXCEEDED" /\ AutoQuarantine /\ Suggested(key)
        THEN /\ Go(t, "sentence", [out EXCEPT !.rate_exceeded = TRUE]) /\ Count({"rate_exceeded"})
        ELSE Return(t, [out EXCEPT !.rate_exceeded = result.decision = "EXCEEDED"], {"allowed"})
     /\ UNCHANGED <<now, ready, flows, list, rules, flagged>>

\* A limiter without room for a bucket answers with an error, and the packet passes.
check_rate(t) ==
  LET key    == task[t].key
      result == R!rate_limiter_check(RateRuleTable, buckets, key, 1, ts)
      over   == [task[t].out EXCEPT !.rate_exceeded = TRUE, !.events = {"RATE_EXCEEDED"}]
      logs   == task[t].out.policy_action = "LOG_ONLY"
  IN /\ At(t, "rate")
     /\ buckets' = result.buckets
     /\ IF result.decision = "EXCEEDED"
        THEN IF AutoQuarantine /\ Suggested(key)
             THEN Go(t, "sentence", over) /\ Count({"rate_exceeded"})
             ELSE Return(t, [over EXCEPT !.verdict = "DROP"], {"rate_exceeded", "dropped"})
        ELSE Return(t, [task[t].out EXCEPT !.verdict = IF logs THEN "LOG_ONLY" ELSE "ALLOW",
                                           !.events = IF logs THEN {"FLOW_SEEN"} ELSE {}],
                    {"allowed"})
     /\ UNCHANGED <<now, ready, flows, list, rules, flagged>>

zone_firewall_evaluate_flow(t) ==
  \/ \E key \in Keys : begin(t, key)
  \/ check_quarantine(t) \/ evaluate_policy(t) \/ policy_fails(t)
  \/ sentence(t) \/ flag(t) \/ check_rate(t)

\* Other callers of the quarantine list and of the policy engine, and time.
restrict(src) ==
  /\ "quarantine" \in ready /\ list.stats.added < MaxListed
  /\ list' = Q!quarantine_manager_add(list, src, "RESTRICTED", QuarantineTtl, ts)
  /\ UNCHANGED <<now, ready, flows, rules, buckets, flagged, stats, task>>

pardon(src) ==
  /\ "quarantine" \in ready /\ Q!find_slot(list, src) # 0
  /\ list' = Q!quarantine_manager_remove(list, src)
  /\ UNCHANGED <<now, ready, flows, rules, buckets, flagged, stats, task>>

add_policy(shape) ==
  /\ rules.next_rule_id <= MaxRuleIds
  /\ rules' = P!add_rule(rules, P!Rule(shape, 0))
  /\ UNCHANGED <<now, ready, flows, list, buckets, flagged, stats, task>>

remove_policy(id) ==
  /\ P!find_rule_slot(rules, id) # 0
  /\ rules' = P!remove_rule(rules, id)
  /\ UNCHANGED <<now, ready, flows, list, buckets, flagged, stats, task>>

Tick ==
  /\ now < MaxTime /\ now' = now + 1
  /\ UNCHANGED <<ready, flows, list, rules, buckets, flagged, stats, task>>

Held(t) == Listed(task[t].key.src) /\ Mode(task[t].key.src) = "BLOCK_ALL"

Denied(t) == "policy" \in ready /\ ActionFor(task[t].key) \in {"DENY", "QUARANTINE"}

\* history: what holds from the step that begins the evaluation to the last one.
Observe ==
  duress' = [t \in Tasks |->
    IF At(t, "idle") /\ task'[t].pc = "idle" THEN duress[t]
    ELSE LET b == At(t, "idle")
         IN [held |-> (b \/ duress[t].held) /\ Held(t)',
             denied |-> (b \/ duress[t].denied) /\ Denied(t)']]

Step ==
  \/ Tick
  \/ \E t \in Tasks : zone_firewall_evaluate_flow(t)
  \/ \E src \in Sources : restrict(src) \/ pardon(src)
  \/ \E shape \in PolicyShapes : add_policy(shape)
  \/ \E id \in 1 .. MaxRuleIds : remove_policy(id)

Next == Step /\ Observe

Spec == Init /\ [][Next]_vars

-----------------------------------------------------------------------------
Places == {"idle", "quarantine", "policy", "sentence", "flag", "rate"}

TypeOK ==
  /\ now \in 1 .. MaxTime /\ ready \in ReadySets
  /\ flagged \subseteq Sources
  /\ \A c \in Counters : stats[c] \in 0 .. MaxEvaluations
  /\ \A t \in Tasks :
       /\ task[t].pc \in Places /\ task[t].key \in Keys
       /\ task[t].out.verdict \in {"ALLOW", "DROP", "REDIRECT", "LOG_ONLY"}

Passed(t) == At(t, "idle") /\ task[t].out.verdict # "DROP"

(***************************************************************************)
(* A packet whose source is under BLOCK_ALL from the beginning to the end  *)
(* of its evaluation is dropped, whatever other tasks do in between        *)
(* (zone_firewall.c:93-110).                                               *)
(***************************************************************************)
QuarantinedIsDropped == \A t \in Tasks : duress[t].held => ~Passed(t)

(***************************************************************************)
(* A packet that the policy denies, or puts under quarantine, from the     *)
(* beginning to the end of its evaluation is dropped, although the rules   *)
(* may change meanwhile (zone_firewall.c:122-157).                         *)
(***************************************************************************)
DeniedIsDropped == \A t \in Tasks : duress[t].denied => ~Passed(t)

(***************************************************************************)
(* What is condemned throughout its evaluation, by the quarantine list or  *)
(* by the policy, is dropped: the two above together                       *)
(* (zone_firewall.c:93-157).                                               *)
(***************************************************************************)
CondemnedIsDropped == QuarantinedIsDropped /\ DeniedIsDropped

(***************************************************************************)
(* Every packet is counted under one verdict when its evaluation is over,  *)
(* on every path out (the counters next to each return).                   *)
(***************************************************************************)
VerdictsAddUp ==
  stats.evaluations = stats.allowed + stats.dropped + stats.redirected
                        + Cardinality({t \in Tasks : ~At(t, "idle")})

(***************************************************************************)
(* A dropped packet has a cause and its event was published: quarantine,   *)
(* policy or rate.  A policy engine that fails is no cause, not even with  *)
(* default_allow = false; and a packet above its limit does not pass       *)
(* (zone_firewall.c:114-117, 173-217).                                     *)
(***************************************************************************)
DropHasCause ==
  \A t \in Tasks :
    At(t, "idle") =>
      LET out == task[t].out
      IN /\ out.rate_exceeded => out.verdict = "DROP"
         /\ out.verdict = "DROP" =>
              /\ out.events \ {"FLOW_SEEN"} # {}
              /\ \/ out.quarantined \/ out.rate_exceeded
                 \/ out.policy_action \in {"DENY", "QUARANTINE"}

(***************************************************************************)
(* An address that the firewall put on the list is also marked in the      *)
(* registry, or the task that listed it is about to mark it.  The mark     *)
(* stays when the list lets the address go (zone_firewall.c:136-146,       *)
(* 186-201).                                                               *)
(***************************************************************************)
ListedIsFlagged ==
  \A i \in DOMAIN list.slots :
    LET e == list.slots[i]
    IN e.mode = "BLOCK_ALL" =>
         e.subject \in flagged \/ \E t \in Tasks : At(t, "flag") /\ task[t].key.src = e.subject
=============================================================================
