------------------------------ MODULE SlotTable ------------------------------
(***************************************************************************)
(* What the fixed tables of the traffic components share (flow_table,      *)
(* quarantine_manager, rate_limiter, policy_engine, device_registry): an   *)
(* array of slots with an in_use flag, searched from the first slot up.  A *)
(* table is a function on the slots in use; index 0 stands for the -1 of   *)
(* the searches.  Times are counts of milliseconds modulo ClockMod.        *)
(***************************************************************************)
EXTENDS Integers, FiniteSets, TLC

CONSTANTS
  ClockMod,   \* 2^32: the clock is cut to 32 bits
  MaxTime,    \* bound on the time since boot
  MaxWait     \* how long a caller may wait for the lock after reading the time

ASSUME ClockAssumption == ClockMod \in Nat \ {0, 1} /\ {MaxTime, MaxWait} \subseteq Nat

\* The clock as the code reads it (now_ms), at time t since boot.
now_ms(t) == t % ClockMod

\* Unsigned subtraction of two clock values.
Since(ts, earlier) == (ts - earlier) % ClockMod

\* The turn of the 32-bit clock that time t belongs to.
Turn(t) == t \div ClockMod

EmptyTable == [i \in {} |-> i]

\* A search that returns the first slot with some property.
FirstOf(I) == IF I = {} THEN 0 ELSE CHOOSE i \in I : \A j \in I : i <= j

find_empty_slot(table, size) == FirstOf((1 .. size) \ DOMAIN table)

\* Faulty variant: the slot used last is taken.
find_mru_slot(stamp) ==
  FirstOf({i \in DOMAIN stamp : \A j \in DOMAIN stamp : stamp[i] >= stamp[j]})

\* The oldest stamp, where the search starts from UINT32_MAX.
find_lru_slot(stamp) ==
  FirstOf({i \in DOMAIN stamp :
             /\ stamp[i] < ClockMod - 1
             /\ \A j \in DOMAIN stamp : stamp[i] <= stamp[j]})

clear_slot(table, i) == [j \in DOMAIN table \ {i} |-> table[j]]

put_slot(table, i, entry) ==
  [j \in DOMAIN table \cup {i} |-> IF j = i THEN entry ELSE table[j]]
=============================================================================
