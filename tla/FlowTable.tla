------------------------------ MODULE FlowTable ------------------------------
(***************************************************************************)
(* The table of flows (flow_table.c): touched for every packet, with idle  *)
(* flows cleared by expire_old.  Both read the clock before they take the  *)
(* spin lock, so that a caller may be overtaken by one that read later.    *)
(***************************************************************************)
EXTENDS SlotTable

CONSTANTS
  FlowKeys,      \* flow_key_t
  MaxFlows,      \* FLOW_TABLE_MAX_ENTRIES
  EvictFlows,    \* evict_lru_when_full
  MaxIdle,       \* max_idle_ms
  HardTtl,       \* hard_ttl_ms
  FlowStates,    \* the states that callers of flow_table_set_state write
  Notes,         \* the risk scores and policy actions that callers write
  NoNote,        \* their value in a new flow
  MaxCreated     \* bound on the number of flows made

FlowAssumption ==
  /\ MaxFlows \in Nat \ {0} /\ {MaxIdle, HardTtl, MaxCreated} \subseteq Nat
  /\ EvictFlows \in BOOLEAN /\ NoNote \notin Notes
  /\ FlowStates \subseteq {"EMPTY", "ACTIVE", "QUARANTINED", "BLOCKED", "EXPIRED"}

NoFlowStats ==
  [active_entries |-> 0, created_flows |-> 0, expired_flows |-> 0, evicted_flows |-> 0]

EmptyFlows == [slots |-> EmptyTable, stats |-> NoFlowStats]

find_existing_slot(f, key) == FirstOf({i \in DOMAIN f.slots : f.slots[i].key = key})

NewFlow(key, ts) ==
  [key |-> key, state |-> "ACTIVE", note |-> NoNote, first_seen_ms |-> ts, last_seen_ms |-> ts]

create_entry(f, i, key, ts) ==
  [slots |-> put_slot(f.slots, i, NewFlow(key, ts)),
   stats |-> [f.stats EXCEPT !.active_entries = @ + 1, !.created_flows = @ + 1]]

update_entry(f, i, ts) ==
  [f EXCEPT !.slots[i] =
     [@ EXCEPT !.last_seen_ms = ts,
               !.state = IF @ \in {"EMPTY", "EXPIRED"} THEN "ACTIVE" ELSE @]]

\* The flow that makes room leaves its slot to the new one, which overwrites it.
evict(f) == [f EXCEPT !.stats.active_entries = IF @ > 0 THEN @ - 1 ELSE 0,
                      !.stats.evicted_flows = @ + 1]

flow_table_touch(f, key, ts) ==
  LET i     == find_existing_slot(f, key)
      empty == find_empty_slot(f.slots, MaxFlows)
      lru   == find_lru_slot([j \in DOMAIN f.slots |-> f.slots[j].last_seen_ms])
  IN IF i # 0 THEN update_entry(f, i, ts)
     ELSE IF empty # 0 THEN create_entry(f, empty, key, ts)
     ELSE IF ~EvictFlows \/ lru = 0 THEN f
     ELSE create_entry(evict(f), lru, key, ts)

flow_table_set_state(f, key, state) ==
  LET i == find_existing_slot(f, key)
  IN IF i # 0 THEN [f EXCEPT !.slots[i].state = state] ELSE f

\* flow_table_set_risk and flow_table_set_policy_action
flow_table_set_note(f, key, note) ==
  LET i == find_existing_slot(f, key)
  IN IF i # 0 THEN [f EXCEPT !.slots[i].note = note] ELSE f

too_old(e, ts) ==
  \/ Since(ts, e.last_seen_ms) > MaxIdle
  \/ Since(ts, e.first_seen_ms) > HardTtl

flow_table_expire_old(f, ts) ==
  LET gone == {i \in DOMAIN f.slots : too_old(f.slots[i], ts)}
      left == f.stats.active_entries - Cardinality(gone)
  IN [slots |-> [i \in DOMAIN f.slots \ gone |-> f.slots[i]],
      stats |-> [f.stats EXCEPT !.active_entries = IF left > 0 THEN left ELSE 0,
                                !.expired_flows = @ + Cardinality(gone)]]

-----------------------------------------------------------------------------
VARIABLES
  now,     \* time since boot
  flows,   \* s_slots and s_stats
  sighted     \* history: the times, not cut to 32 bits, of the flows in the table

vars == <<now, flows, sighted>>

Init == now = 1 /\ flows = EmptyFlows /\ sighted = EmptyTable

ReadTimes == {t \in now - MaxWait .. now : t > 0}

KeysOf(f) == {f.slots[i].key : i \in DOMAIN f.slots}

touch(key) == \E t \in ReadTimes :
  /\ flows.stats.created_flows < MaxCreated
  /\ flows' = flow_table_touch(flows, key, now_ms(t))
  /\ sighted' = [k \in KeysOf(flows') |->
                IF k # key THEN sighted[k]
                ELSE [first |-> IF k \in KeysOf(flows) THEN sighted[k].first ELSE t, last |-> t]]
  /\ UNCHANGED now

set_state(key, state) ==
  flows' = flow_table_set_state(flows, key, state) /\ UNCHANGED <<now, sighted>>

set_note(key, note) ==
  flows' = flow_table_set_note(flows, key, note) /\ UNCHANGED <<now, sighted>>

expire_old == \E t \in ReadTimes :
  /\ flows' = flow_table_expire_old(flows, now_ms(t))
  /\ sighted' = [k \in KeysOf(flows') |-> sighted[k]]
  /\ UNCHANGED now

reset == flows' = EmptyFlows /\ sighted' = EmptyTable /\ UNCHANGED now

Tick == now < MaxTime /\ now' = now + 1 /\ UNCHANGED <<flows, sighted>>

Next ==
  \/ Tick \/ expire_old \/ reset
  \/ \E key \in FlowKeys :
       \/ touch(key)
       \/ \E state \in FlowStates : set_state(key, state)
       \/ \E note \in Notes : set_note(key, note)

Spec == Init /\ [][Next]_vars

-----------------------------------------------------------------------------
TypeOK ==
  /\ now \in 1 .. MaxTime
  /\ DOMAIN flows.slots \subseteq 1 .. MaxFlows
  /\ \A i \in DOMAIN flows.slots :
       flows.slots[i] \in [key : FlowKeys, state : FlowStates \cup {"ACTIVE"},
                           note : Notes \cup {NoNote}, first_seen_ms : 0 .. ClockMod - 1,
                           last_seen_ms : 0 .. ClockMod - 1]

(***************************************************************************)
(* A flow has one entry, and the counters tell the number of entries: what *)
(* was created and neither expired nor made room (flow_table_touch,        *)
(* flow_table_expire_old).                                                 *)
(***************************************************************************)
FlowsAccounted ==
  LET st == flows.stats
  IN /\ st.active_entries = Cardinality(KeysOf(flows))
     /\ st.active_entries = Cardinality(DOMAIN flows.slots)
     /\ st.created_flows = st.active_entries + st.expired_flows + st.evicted_flows

(***************************************************************************)
(* expire_old clears a flow that was idle for more than max_idle_ms or is  *)
(* older than hard_ttl_ms.  The exception is a flow that another task      *)
(* touched after expire_old had read the clock: the difference is negative *)
(* and, unsigned, larger than any limit (flow_table.c:295-307).            *)
(***************************************************************************)
OnlyOldFlowsExpire ==
  [][flows'.stats.expired_flows > flows.stats.expired_flows =>
       \A k \in DOMAIN sighted \ DOMAIN sighted' :
         \/ now - sighted[k].last > MaxIdle
         \/ now - sighted[k].first > HardTtl
         \/ \E t \in ReadTimes : t < sighted[k].last \/ t < sighted[k].first]_vars

(***************************************************************************)
(* A new flow has nothing of the flow whose slot it takes                  *)
(* (create_entry_locked).                                                  *)
(***************************************************************************)
NewFlowsAreClean ==
  [][\A i \in DOMAIN flows'.slots :
       LET e == flows'.slots[i]
       IN e.key \notin KeysOf(flows) => e.state = "ACTIVE" /\ e.note = NoNote]_vars

(***************************************************************************)
(* Traffic does not make a blocked flow active: as long as the entry lives *)
(* only set_state does (update_entry_locked).                              *)
(***************************************************************************)
TrafficNeverUnblocks ==
  [][\A i \in DOMAIN flows.slots, j \in DOMAIN flows'.slots :
       /\ flows.slots[i].key = flows'.slots[j].key
       /\ flows.slots[i].state = "BLOCKED" /\ flows'.slots[j].state # "BLOCKED"
       => sighted' = sighted /\ flows'.slots[j].last_seen_ms = flows.slots[i].last_seen_ms]_vars
=============================================================================
