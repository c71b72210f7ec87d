-------------------------- MODULE QuarantineManager --------------------------
(***************************************************************************)
(* The quarantine list (quarantine_manager.c).  Every operation runs under *)
(* one spin lock; add, check and expire_old read the clock before they     *)
(* take it, so that the time they use may be up to MaxWait old.            *)
(*                                                                         *)
(* The operations are written as functions of the list so that the zone    *)
(* firewall can use them too.                                              *)
(***************************************************************************)
EXTENDS SlotTable

CONSTANTS
  Subjects,      \* addresses, MACs or device ids
  NoSubject,     \* the zero address
  Modes,         \* quarantine_mode_t
  MaxEntries,    \* QUARANTINE_MAX_ENTRIES
  DefaultTtl,    \* default_ttl_ms
  EvictLru,      \* evict_lru_when_full
  Ttls,          \* the time limits that callers ask for
  MaxAdded       \* bound on the number of entries made

QuarantineAssumption ==
  /\ NoSubject \in Subjects /\ MaxEntries \in Nat \ {0} /\ MaxAdded \in Nat
  /\ DefaultTtl \in Nat \ {0} /\ EvictLru \in BOOLEAN /\ Ttls \subseteq Nat

NoStats == [active_entries |-> 0, added |-> 0, removed |-> 0, expired |-> 0, evicted |-> 0]

\* The list as quarantine_manager_init leaves it.
EmptyList == [slots |-> EmptyTable, stats |-> NoStats]

subject_is_valid(s) == s # NoSubject

find_slot(q, s) == FirstOf({i \in DOMAIN q.slots : q.slots[i].subject = s})

entry_is_expired(e, ts) == e.expires_at_ms # 0 /\ ts >= e.expires_at_ms

last_use(e) == IF e.last_hit_ms = 0 THEN e.created_at_ms ELSE e.last_hit_ms

\* clear_slot_locked, with the counter of the reason.
drop(q, i, why) ==
  [slots |-> clear_slot(q.slots, i),
   stats |-> [q.stats EXCEPT !.active_entries = IF @ > 0 THEN @ - 1 ELSE 0,
                             ![why] = @ + 1]]

NewEntry(s, mode, ts, ttl) ==
  [subject |-> s, mode |-> mode, created_at_ms |-> ts,
   expires_at_ms |-> (ts + ttl) % ClockMod, last_hit_ms |-> 0]

make_entry(q, i, entry) ==
  [slots |-> put_slot(q.slots, i, entry),
   stats |-> [q.stats EXCEPT !.active_entries = @ + 1, !.added = @ + 1]]

effective_ttl(ttl) == IF ttl = 0 THEN DefaultTtl ELSE ttl

\* The slot that a full list gives up, 0 for none.
victim(q) ==
  IF EvictLru THEN find_lru_slot([i \in DOMAIN q.slots |-> last_use(q.slots[i])]) ELSE 0

\* Faulty variants: a second addition does not extend; a subject is entered without a
\* search.
add_once(q, s, mode, ttl, ts) ==
  LET e == find_empty_slot(q.slots, MaxEntries)
  IN IF ~subject_is_valid(s) \/ find_slot(q, s) # 0 \/ e = 0 THEN q
     ELSE make_entry(q, e, NewEntry(s, mode, ts, effective_ttl(ttl)))

add_again(q, s, mode, ttl, ts) ==
  LET e == find_empty_slot(q.slots, MaxEntries)
  IN IF ~subject_is_valid(s) \/ e = 0 THEN q
     ELSE make_entry(q, e, NewEntry(s, mode, ts, effective_ttl(ttl)))

quarantine_manager_add(q, s, mode, ttl, ts) ==
  LET i     == find_slot(q, s)
      entry == NewEntry(s, mode, ts, effective_ttl(ttl))
      empty == find_empty_slot(q.slots, MaxEntries)
      room  == IF empty = 0 /\ victim(q) # 0 THEN drop(q, victim(q), "evicted") ELSE q
      slot  == IF empty = 0 THEN victim(q) ELSE empty
  IN IF ~subject_is_valid(s) THEN q
     ELSE IF i # 0
     THEN [q EXCEPT !.slots[i] = [@ EXCEPT !.mode = mode,
                                           !.expires_at_ms = entry.expires_at_ms]]
     ELSE IF slot = 0 THEN q          \* ESP_ERR_NO_MEM
     ELSE make_entry(room, slot, entry)

quarantine_manager_remove(q, s) ==
  LET i == find_slot(q, s)
  IN IF subject_is_valid(s) /\ i # 0 THEN drop(q, i, "removed") ELSE q

\* What quarantine_manager_check returns, and what it does to the list.
is_quarantined(q, s, ts) ==
  LET i == find_slot(q, s)
  IN subject_is_valid(s) /\ i # 0 /\ ~entry_is_expired(q.slots[i], ts)

quarantine_manager_check(q, s, ts) ==
  LET i == find_slot(q, s)
  IN IF ~subject_is_valid(s) \/ i = 0 THEN q
     ELSE IF is_quarantined(q, s, ts) THEN [q EXCEPT !.slots[i].last_hit_ms = ts]
     ELSE drop(q, i, "expired")

expired_slots(q, ts) == {i \in DOMAIN q.slots : entry_is_expired(q.slots[i], ts)}

quarantine_manager_expire_old(q, ts) ==
  LET gone == expired_slots(q, ts)
      left == q.stats.active_entries - Cardinality(gone)
  IN [slots |-> [i \in DOMAIN q.slots \ gone |-> q.slots[i]],
      stats |-> [q.stats EXCEPT !.active_entries = IF left > 0 THEN left ELSE 0,
                                !.expired = @ + Cardinality(gone)]]

-----------------------------------------------------------------------------
VARIABLES
  now,    \* time since boot
  list,   \* s_slots and s_stats
  duty    \* history: since when and until when each subject is to be held

vars == <<now, list, duty>>

Init == now = 1 /\ list = EmptyList /\ duty = EmptyTable

\* The times a caller that now gets the lock may have read.
ReadTimes == {t \in now - MaxWait .. now : t > 0}

\* history: the term of a subject starts with an addition and is void once the subject
\* is removed or made room.
duty_after_add(s, ttl, t, newlist) ==
  LET still == {u \in DOMAIN duty : u = s \/ find_slot(list, u) = 0 \/ find_slot(newlist, u) # 0}
      kept  == [u \in still |-> duty[u]]
  IN IF find_slot(newlist, s) = 0 THEN kept
     ELSE (s :> [since |-> t, until |-> t + effective_ttl(ttl)]) @@ kept

add(s, mode, ttl) == \E t \in ReadTimes :
  /\ list.stats.added < MaxAdded
  /\ list' = quarantine_manager_add(list, s, mode, ttl, now_ms(t))
  /\ duty' = duty_after_add(s, ttl, t, list')
  /\ UNCHANGED now

remove(s) ==
  /\ list' = quarantine_manager_remove(list, s)
  /\ duty' = [u \in DOMAIN duty \ {s} |-> duty[u]]
  /\ UNCHANGED now

check(s) == \E t \in ReadTimes :
  /\ list' = quarantine_manager_check(list, s, now_ms(t))
  /\ UNCHANGED <<now, duty>>

expire_old == \E t \in ReadTimes :
  /\ list' = quarantine_manager_expire_old(list, now_ms(t))
  /\ UNCHANGED <<now, duty>>

reset == list' = EmptyList /\ duty' = EmptyTable /\ UNCHANGED now

Tick == now < MaxTime /\ now' = now + 1 /\ UNCHANGED <<list, duty>>

Next ==
  \/ Tick \/ expire_old \/ reset
  \/ \E s \in Subjects : remove(s) \/ check(s)
  \/ \E s \in Subjects, mode \in Modes, ttl \in Ttls : add(s, mode, ttl)

Spec == Init /\ [][Next]_vars

-----------------------------------------------------------------------------
Clock == 0 .. ClockMod - 1

TypeOK ==
  /\ now \in 0 .. MaxTime
  /\ DOMAIN list.slots \subseteq 1 .. MaxEntries
  /\ \A i \in DOMAIN list.slots :
       list.slots[i] \in [subject : Subjects \ {NoSubject}, mode : Modes, created_at_ms : Clock,
                          expires_at_ms : Clock, last_hit_ms : Clock]
  /\ \A c \in DOMAIN NoStats : list.stats[c] \in Nat
  /\ DOMAIN duty \subseteq Subjects

(***************************************************************************)
(* No subject has two entries: the search before an insertion would leave  *)
(* the second one in force when the first is removed                       *)
(* (quarantine_manager_add).                                               *)
(***************************************************************************)
OneEntryPerSubject ==
  \A i, j \in DOMAIN list.slots : list.slots[i].subject = list.slots[j].subject => i = j

(***************************************************************************)
(* The counters tell the number of entries: it is what was added and did   *)
(* not leave by removal, expiry or eviction (clear_slot_locked and the     *)
(* counters next to its calls).                                            *)
(***************************************************************************)
EntriesAccounted ==
  LET st == list.stats
  IN /\ st.active_entries = Cardinality(DOMAIN list.slots)
     /\ st.added = st.active_entries + st.removed + st.expired + st.evicted

(***************************************************************************)
(* A subject is held from its last addition to its deadline and no longer, *)
(* whatever the order of additions, checks and expiries, provided that the *)
(* 32-bit clock does not turn meanwhile: across the turn the deadline is a *)
(* small number, or 0, which means for ever                                *)
(* (quarantine_manager_add, entry_is_expired).                             *)
(***************************************************************************)
HeldUntilDeadline ==
  \A s \in Subjects, t \in ReadTimes :
    IF s \in DOMAIN duty
    THEN LET d == duty[s]
         IN {Turn(d.since - MaxWait), Turn(d.until)} = {Turn(now)} =>
              /\ is_quarantined(list, s, now_ms(t)) => t < d.until
              /\ now < d.until => is_quarantined(list, s, now_ms(t))
    ELSE ~is_quarantined(list, s, now_ms(t))

(***************************************************************************)
(* Before the clock turns, a full list gives up the entry that was used    *)
(* least recently, and only a full list gives one up                       *)
(* (find_lru_slot_locked).                                                 *)
(***************************************************************************)
EvictsLeastRecent ==
  [][list'.stats.evicted > list.stats.evicted /\ now < ClockMod - 1 =>
       /\ DOMAIN list.slots = 1 .. MaxEntries
       /\ \E i \in DOMAIN list.slots :
            /\ find_slot(list', list.slots[i].subject) = 0
            /\ \A j \in DOMAIN list.slots :
                 last_use(list.slots[i]) <= last_use(list.slots[j])]_vars
=============================================================================
