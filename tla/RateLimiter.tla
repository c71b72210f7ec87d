----------------------------- MODULE RateLimiter -----------------------------
(***************************************************************************)
(* The rate limiter (rate_limiter.c): a bucket per flow and direction      *)
(* counts packets and bytes in a window of fixed length; the best rule     *)
(* that matches the flow, or the default, sets the limits.  The clock is   *)
(* read before the lock is taken.                                          *)
(***************************************************************************)
EXTENDS RuleTable

CONSTANTS
  MaxBuckets,      \* RATE_LIMITER_MAX_BUCKETS
  EvictBuckets,    \* evict_lru_when_full
  MaxBucketIdle,   \* max_idle_ms
  DefaultParams,   \* default_params: [window_ms, max_packets, max_bytes], 0 for no limit
  RateRules,       \* the rules callers add: [match, priority, params, suggest_quarantine]
  PacketSizes,     \* packet_bytes
  MaxCount,        \* bound on the packets counted in a window
  MaxMade,         \* bound on the number of buckets made
  MaxRateIds       \* bound on the ids given out

RateAssumption ==
  /\ MaxBuckets \in Nat \ {0} /\ {MaxBucketIdle, MaxCount, MaxMade, MaxRateIds} \subseteq Nat
  /\ EvictBuckets \in BOOLEAN /\ PacketSizes \subseteq Nat

NoBucketStats ==
  [active_buckets |-> 0, created_buckets |-> 0, evicted_buckets |-> 0, expired_buckets |-> 0]

NoBuckets == [slots |-> EmptyTable, stats |-> NoBucketStats]

find_bucket(b, key) == FirstOf({i \in DOMAIN b.slots : b.slots[i].bucket_key = key})

\* clear_bucket_locked, with the counter of the reason.
clear_buckets(b, I, why) ==
  LET left == b.stats.active_buckets - Cardinality(I)
  IN [slots |-> [i \in DOMAIN b.slots \ I |-> b.slots[i]],
      stats |-> [b.stats EXCEPT !.active_buckets = IF left > 0 THEN left ELSE 0,
                                ![why] = @ + Cardinality(I)]]

lru_bucket(b) ==
  IF EvictBuckets THEN find_lru_slot([i \in DOMAIN b.slots |-> b.slots[i].last_seen_ms]) ELSE 0

\* With no slot to be had the table comes back as it was.
create_bucket(b, key, ts) ==
  LET empty == find_empty_slot(b.slots, MaxBuckets)
      i     == IF empty # 0 THEN empty ELSE lru_bucket(b)
      room  == IF empty # 0 \/ i = 0 THEN b ELSE clear_buckets(b, {i}, "evicted_buckets")
  IN IF i = 0 THEN b
     ELSE [slots |-> put_slot(room.slots, i,
                       [bucket_key |-> key, window_start_ms |-> ts, last_seen_ms |-> ts,
                        packets |-> 0, bytes |-> 0]),
           stats |-> [room.stats EXCEPT !.active_buckets = @ + 1, !.created_buckets = @ + 1]]

\* find_best_rule_locked: the rule that sets the limits for a flow, 0 for none.
find_best_rule(r, key) == best_rule(r, {i \in DOMAIN r.slots : fields_match(r.slots[i], key)})

params_for(r, key) ==
  LET i == find_best_rule(r, key)
  IN IF i = 0 THEN DefaultParams ELSE r.slots[i].params

\* Faulty variant: a new window starts when the old one is not yet over.
window_over_early(bucket, params, ts) ==
  Since(ts, bucket.window_start_ms) + 1 >= params.window_ms

window_over(bucket, params, ts) == Since(ts, bucket.window_start_ms) >= params.window_ms

counted(bucket, params, size, ts) ==
  LET fresh == window_over(bucket, params, ts)
  IN [bucket EXCEPT !.window_start_ms = IF fresh THEN ts ELSE @, !.last_seen_ms = ts,
                    !.packets = IF fresh THEN 1 ELSE @ + 1,
                    !.bytes = IF fresh THEN size ELSE @ + size]

params_exceeded(params, bucket) ==
  \/ params.max_packets > 0 /\ bucket.packets > params.max_packets
  \/ params.max_bytes > 0 /\ bucket.bytes > params.max_bytes

\* The buckets after rate_limiter_check, and its decision.
rate_limiter_check(r, b, key, size, ts) ==
  LET with == IF find_bucket(b, key) # 0 THEN b ELSE create_bucket(b, key, ts)
      i    == find_bucket(with, key)
      next == counted(with.slots[i], params_for(r, key), size, ts)
  IN IF i = 0 THEN [buckets |-> with, decision |-> "ERROR"]
     ELSE [buckets |-> [with EXCEPT !.slots[i] = next],
           decision |-> IF params_exceeded(params_for(r, key), next)
                        THEN "EXCEEDED" ELSE "ALLOW"]

rate_limiter_expire_old(b, ts) ==
  clear_buckets(b, {i \in DOMAIN b.slots : Since(ts, b.slots[i].last_seen_ms) > MaxBucketIdle},
                "expired_buckets")

-----------------------------------------------------------------------------
VARIABLES
  now,       \* time since boot
  rules,     \* s_rules
  buckets,   \* s_buckets
  usage      \* history: for each flow the start of its window and what passed in it

vars == <<now, rules, buckets, usage>>

NoUsage == [start |-> 0, packets |-> 0, bytes |-> 0]

Init ==
  /\ now = 1 /\ rules = NoRules /\ buckets = NoBuckets
  /\ usage = [k \in Keys |-> NoUsage]

ReadTimes == {t \in now - MaxWait .. now : t > 0}

\* history: what is kept for the flows that have a bucket.
Kept(u) == [k \in Keys |-> IF find_bucket(buckets', k) = 0 THEN NoUsage ELSE u[k]]

\* history: a window starts with a bucket and whenever the code starts one over.
UsageAfter(k, size, t, decision) ==
  LET i      == find_bucket(buckets, k)
      fresh  == i = 0 \/ window_over(buckets.slots[i], params_for(rules, k), now_ms(t))
      before == IF fresh THEN [start |-> t, packets |-> 0, bytes |-> 0] ELSE usage[k]
  IN IF decision = "ALLOW"
     THEN [before EXCEPT !.packets = @ + 1, !.bytes = @ + size] ELSE before

check(k, size) == \E t \in ReadTimes :
  LET result == rate_limiter_check(rules, buckets, k, size, now_ms(t))
  IN /\ \A i \in DOMAIN buckets.slots : buckets.slots[i].packets < MaxCount
     /\ result.buckets.stats.created_buckets <= MaxMade
     /\ buckets' = result.buckets
     /\ usage' = Kept([usage EXCEPT ![k] = UsageAfter(k, size, t, result.decision)])
     /\ UNCHANGED <<now, rules>>

add(shape) ==
  /\ rules.next_rule_id <= MaxRateIds
  /\ rules' = add_rule(rules, [shape EXCEPT !.params.window_ms =
                                 IF @ = 0 THEN DefaultParams.window_ms ELSE @])
  /\ UNCHANGED <<now, buckets, usage>>

remove(id) == rules' = remove_rule(rules, id) /\ UNCHANGED <<now, buckets, usage>>

expire_old == \E t \in ReadTimes :
  /\ buckets' = rate_limiter_expire_old(buckets, now_ms(t))
  /\ usage' = Kept(usage)
  /\ UNCHANGED <<now, rules>>

reset == rules' = NoRules /\ buckets' = NoBuckets /\ usage' = Kept(usage) /\ UNCHANGED now

Tick == now < MaxTime /\ now' = now + 1 /\ UNCHANGED <<rules, buckets, usage>>

Next ==
  \/ Tick \/ expire_old \/ reset
  \/ \E k \in Keys, size \in PacketSizes : check(k, size)
  \/ \E shape \in RateRules : add(shape)
  \/ \E id \in 1 .. MaxRateIds : remove(id)

Spec == Init /\ [][Next]_vars

-----------------------------------------------------------------------------
Clock == 0 .. ClockMod - 1

TypeOK ==
  /\ now \in 1 .. MaxTime
  /\ DOMAIN buckets.slots \subseteq 1 .. MaxBuckets
  /\ \A i \in DOMAIN buckets.slots :
       buckets.slots[i] \in [bucket_key : Keys, window_start_ms : Clock, last_seen_ms : Clock,
                             packets : 1 .. MaxCount, bytes : Nat]

(***************************************************************************)
(* A flow has one bucket, and the counters tell the number of buckets      *)
(* (create_bucket_locked, clear_bucket_locked).                            *)
(***************************************************************************)
BucketsAccounted ==
  LET st == buckets.stats
  IN /\ st.active_buckets = Cardinality({buckets.slots[i].bucket_key : i \in DOMAIN buckets.slots})
     /\ st.active_buckets = Cardinality(DOMAIN buckets.slots)
     /\ st.created_buckets = st.active_buckets + st.evicted_buckets + st.expired_buckets

(***************************************************************************)
(* A packet that is let pass leaves the flow within the limits in force    *)
(* for the window: no more than max_packets and max_bytes were let pass    *)
(* since it started (rate_limiter_check, params_exceeded).                 *)
(***************************************************************************)
WithinBudget ==
  [][usage' # usage => \A k \in Keys :
       LET p == params_for(rules, k)
       IN usage'[k].packets > usage[k].packets \/ usage'[k].start # usage[k].start =>
            /\ p.max_packets > 0 => usage'[k].packets <= p.max_packets
            /\ p.max_bytes > 0 => usage'[k].bytes <= p.max_bytes]_vars

(***************************************************************************)
(* A flow gets a new window only when the old one is over.  There are two  *)
(* exceptions: its bucket left the table (evicted, idle, or the limiter    *)
(* was reset), and a task was overtaken after it had read the clock, so    *)
(* that the elapsed time is negative and, unsigned, larger than any window *)
(* (rate_limiter.c:409-440).                                               *)
(***************************************************************************)
WindowsApart ==
  [][usage' # usage => \A k \in Keys :
       usage[k].start # 0 /\ usage'[k].start \notin {0, usage[k].start} =>
         \/ usage'[k].start - usage[k].start >= params_for(rules, k).window_ms
         \/ usage'[k].start < usage[k].start]_vars
=============================================================================
