------------------------------ MODULE SeenRing ------------------------------
(***************************************************************************)
(* The ring of remembered digests that BlindNet keeps twice: the capsule   *)
(* cache of the Stomach (stomach_cp_cache.c, 16 entries) and the seen      *)
(* cache of G2G (g2g.rs, 32 entries).  Both are an array, the index of the *)
(* next slot to overwrite and the number of slots filled so far, and both  *)
(* are cleared to zero bytes.  The operators here are the operations the   *)
(* two caches share; the size of the ring is an argument.                  *)
(***************************************************************************)
EXTENDS Naturals

CONSTANTS
  Digests,  \* what a ring remembers: 32-byte capsule digests
  Zero      \* the all-zero digest that an erased slot holds

(***************************************************************************)
(* Zero is a digest like any other: a slot that was never written holds a  *)
(* value that may be asked for.                                            *)
(***************************************************************************)
ASSUME ZeroAssumption == Zero \in Digests

Rings(size) ==
  [entries : [0 .. size - 1 -> Digests], next : 0 .. size - 1, count : 0 .. size]

ClearedRing(size) ==
  [entries |-> [i \in 0 .. size - 1 |-> Zero], next |-> 0, count |-> 0]

\* Only the first count slots are looked at.
RingContains(ring, d) ==
  \E i \in DOMAIN ring.entries : i < ring.count /\ ring.entries[i] = d

\* Overwrites the slot at next, whatever the ring already holds.
RingAdd(ring, size, d) ==
  [entries |-> [ring.entries EXCEPT ![ring.next] = d],
   next    |-> (ring.next + 1) % size,
   count   |-> IF ring.count < size THEN ring.count + 1 ELSE ring.count]

-----------------------------------------------------------------------------
(***************************************************************************)
(* The ring read back in the order of insertion.  The digest of age 0 is   *)
(* the one added last; AgeSlot says which slot holds the digest of an age. *)
(***************************************************************************)
AgeSlot(ring, size, age) ==
  IF age < ring.next THEN ring.next - 1 - age ELSE ring.next + size - 1 - age

Aged(ring, size, age) == ring.entries[AgeSlot(ring, size, age)]

\* What every ring reachable from ClearedRing by RingAdd satisfies: until the
\* first wrap the filled slots are those below next.
RingShape(ring, size) ==
  /\ ring \in Rings(size)
  /\ ring.count < size => ring.next = ring.count
=============================================================================
