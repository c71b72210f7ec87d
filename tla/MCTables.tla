------------------------------ MODULE MCTables ------------------------------
(***************************************************************************)
(* The tables and caches of fixed size: those of the intake of pills and,  *)
(* each by itself, those of the zone firewall.  A behaviour is about one   *)
(* of them (part); the others stay as they are initially.                  *)
(*                                                                         *)
(* Intake: a pill of one fragment and two of two fragments against a seen  *)
(* cache of four entries and a capsule cache of two: the sizes of the      *)
(* firmware divided by eight.  A fourth message is abandoned after its     *)
(* first fragment, so that the two slots are contended; headers disagree   *)
(* about the number of fragments, announce another length, or come with    *)
(* damaged bytes.                                                          *)
(***************************************************************************)
EXTENDS GuardianIntake

CONSTANTS m1, m2, m3, m4

Whole == [len |-> 5, count |-> 1]
Pair == [len |-> 5, count |-> 2]
Recut == [len |-> 5, count |-> 3]
Other == [len |-> 4, count |-> 1]

MCShapes == {Whole, Pair, Recut, Other}

Piece(id, shape, index, sound) ==
  [id |-> id, shape |-> shape, index |-> index, sound |-> sound]

MCArriving ==
  {Piece(m, Pair, i, TRUE) : m \in {m1, m2}, i \in 0 .. 1} \cup
  {Piece(m3, Whole, 0, TRUE), Piece(m4, Pair, 0, TRUE)} \cup
  {Piece(m1, Pair, 1, FALSE), Piece(m1, Recut, 2, TRUE), Piece(m2, Other, 0, TRUE)}

-----------------------------------------------------------------------------
(***************************************************************************)
(* The quarantine list: two slots for three subjects; the clock turns at 4 *)
(* and time goes on.                                                       *)
(***************************************************************************)
VARIABLES q_now, list, duty

Quarantine == INSTANCE QuarantineManager WITH
  now <- q_now, ClockMod <- 4, MaxTime <- 5, MaxWait <- 1,
  Subjects <- {"none", "a", "b", "c"}, NoSubject <- "none", Modes <- {"BLOCK_ALL"},
  MaxEntries <- 2, DefaultTtl <- 2, EvictLru <- TRUE, Ttls <- {0}, MaxAdded <- 3

(***************************************************************************)
(* The flow table: two slots for three flows; the clock turns at 4, and an *)
(* idle limit of 1 and an age limit of 2 pass before and after the turn.   *)
(***************************************************************************)
VARIABLES f_now, flows, sighted

FlowTab == INSTANCE FlowTable WITH
  now <- f_now, ClockMod <- 4, MaxTime <- 5, MaxWait <- 1,
  FlowKeys <- {"k1", "k2", "k3"}, MaxFlows <- 2, EvictFlows <- TRUE, MaxIdle <- 1, HardTtl <- 2,
  FlowStates <- {"BLOCKED"}, Notes <- {"risky"}, NoNote <- "none", MaxCreated <- 3

(***************************************************************************)
(* The policy engine: three slots; two flows that differ in their port;    *)
(* rules for one port and for both, of equal and other priorities, with    *)
(* and without an expiry time; ids up to four.                             *)
(***************************************************************************)
VARIABLES p_now, p_rules, default_action, given

PolicyShape(ports, priority, action, expires) ==
  [match |-> [port |-> ports], priority |-> priority, action |-> action, expires_at_ms |-> expires]

Policy == INSTANCE PolicyEngine WITH
  now <- p_now, rules <- p_rules, ClockMod <- 5, MaxTime <- 5, MaxWait <- 0,
  Keys <- [port : {53, 80}], MaxRules <- 3, OwnIds <- {4},
  Actions <- {"ALLOW", "DENY", "REDIRECT", "LOG_ONLY"},
  RuleShapes <- {PolicyShape({53, 80}, 2, "DENY", 0), PolicyShape({53}, 2, "ALLOW", 0),
                 PolicyShape({53}, 1, "LOG_ONLY", 2), PolicyShape({80}, 3, "REDIRECT", 3)},
  MaxRuleIds <- 4

(***************************************************************************)
(* The rate limiter: two buckets for three flows, windows of 2 and 3, a    *)
(* rule that limits packets and one that limits bytes; the clock turns at  *)
(* 4.                                                                      *)
(***************************************************************************)
VARIABLES r_now, r_rules, buckets, usage

RateRule(ports, priority, suggest, window, packets, bytes) ==
  [rule_id |-> 0, match |-> [port |-> ports], priority |-> priority, suggest_quarantine |-> suggest,
   params |-> [window_ms |-> window, max_packets |-> packets, max_bytes |-> bytes]]

Rate == INSTANCE RateLimiter WITH
  now <- r_now, rules <- r_rules, ClockMod <- 4, MaxTime <- 5, MaxWait <- 1,
  Keys <- [port : {53, 80, 443}], MaxRules <- 1, OwnIds <- {}, MaxBuckets <- 2,
  EvictBuckets <- TRUE, MaxBucketIdle <- 2,
  DefaultParams <- [window_ms |-> 2, max_packets |-> 1, max_bytes |-> 0],
  RateRules <- {RateRule({53, 80}, 1, TRUE, 3, 2, 0), RateRule({80}, 2, FALSE, 0, 0, 3)},
  PacketSizes <- {2}, MaxCount <- 3, MaxMade <- 3, MaxRateIds <- 1

ASSUME
  /\ Quarantine!QuarantineAssumption /\ FlowTab!FlowAssumption
  /\ Policy!PolicyAssumption /\ Policy!RuleAssumption
  /\ Rate!RateAssumption /\ Rate!RuleAssumption

-----------------------------------------------------------------------------
VARIABLE part   \* what the behaviour is about

quarantine == <<q_now, list, duty>>
flowtab == <<f_now, flows, sighted>>
policy == <<p_now, p_rules, default_action, given>>
rate == <<r_now, r_rules, buckets, usage>>
tablevars == <<intakeVars, quarantine, flowtab, policy, rate, part>>

TablesInit ==
  /\ IntakeInit /\ Quarantine!Init /\ FlowTab!Init /\ Policy!Init /\ Rate!Init
  /\ part \in {"intake", "quarantine", "flows", "policy", "rate"}

TablesNext ==
  /\ UNCHANGED part
  /\ \/ part = "intake" /\ IntakeNext /\ UNCHANGED <<quarantine, flowtab, policy, rate>>
     \/ part = "quarantine" /\ Quarantine!Next /\ UNCHANGED <<intakeVars, flowtab, policy, rate>>
     \/ part = "flows" /\ FlowTab!Next /\ UNCHANGED <<intakeVars, quarantine, policy, rate>>
     \/ part = "policy" /\ Policy!Next /\ UNCHANGED <<intakeVars, quarantine, flowtab, rate>>
     \/ part = "rate" /\ Rate!Next /\ UNCHANGED <<intakeVars, quarantine, flowtab, policy>>

TablesSpec == TablesInit /\ [][TablesNext]_tablevars

-----------------------------------------------------------------------------
(***************************************************************************)
(* The tables have their types; a subject, a flow and a bucket has one     *)
(* entry; the entries are what was added and did not leave by removal,     *)
(* expiry or eviction; and an id that policy_engine_add_rule gave out      *)
(* means one rule (the counters next to every clearing of a slot,          *)
(* s_next_rule_id).                                                        *)
(***************************************************************************)
TablesAccounted ==
  CASE part = "intake" -> IntakeTypeOK
    [] part = "quarantine" ->
         Quarantine!TypeOK /\ Quarantine!OneEntryPerSubject /\ Quarantine!EntriesAccounted
    [] part = "flows" -> FlowTab!TypeOK /\ FlowTab!FlowsAccounted
    [] part = "policy" -> Policy!TypeOK /\ Policy!RulesAccounted /\ Policy!GivenIdsDistinct
    [] part = "rate" -> Rate!TypeOK /\ Rate!BucketsAccounted

(***************************************************************************)
(* QuarantineManager: a subject is held from its last addition to its      *)
(* deadline and no longer, unless the 32-bit clock turns meanwhile         *)
(* (quarantine_manager_add, entry_is_expired).                             *)
(***************************************************************************)
HeldUntilDeadline == part = "quarantine" => Quarantine!HeldUntilDeadline

(***************************************************************************)
(* PolicyEngine: the rule in force that matches with the highest priority  *)
(* decides, the last one among equals, and the default only where none     *)
(* matches (policy_engine_evaluate).                                       *)
(***************************************************************************)
HighestPriorityPrevails == part = "policy" => Policy!HighestPriorityPrevails

(***************************************************************************)
(* The life of an entry.  Before the clock turns, only a full quarantine   *)
(* list gives up an entry, the one used least recently                     *)
(* (find_lru_slot_locked).  flow_table_expire_old clears flows that were   *)
(* idle or old for too long, but for one that was touched after it had     *)
(* read the clock.  A new flow has nothing of the flow whose slot it       *)
(* takes, and traffic does not make a blocked flow active                  *)
(* (create_entry_locked, update_entry_locked).                             *)
(***************************************************************************)
EntryLifecycle ==
  /\ Quarantine!EvictsLeastRecent
  /\ FlowTab!OnlyOldFlowsExpire
  /\ FlowTab!NewFlowsAreClean /\ FlowTab!TrafficNeverUnblocks

(***************************************************************************)
(* RateLimiter: a packet that rate_limiter_check lets pass leaves its flow *)
(* within the limits in force for the window, and a flow gets a new window *)
(* only when the old one is over, unless its bucket left the table or a    *)
(* task was overtaken after it had read the clock.                         *)
(***************************************************************************)
LimitsHold == Rate!WithinBudget /\ Rate!WindowsApart
=============================================================================
