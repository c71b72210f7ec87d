------------------------------- MODULE CpCache -------------------------------
(***************************************************************************)
(* The capsule cache of the Stomach.  process_action_pill asks it once for *)
(* every pill (seen_or_add_cp) and goes on only when the answer is "not    *)
(* seen".  The cache lives in RAM and is cleared by clear_seen_cache and   *)
(* by every boot (Stomach::new).                                           *)
(***************************************************************************)
EXTENDS SeenRing, Sequences

CONSTANTS
  CacheSize,      \* STOMACH_CP_CACHE_SIZE
  MaxAdmissions   \* bound on the length of the history between two clears

ASSUME CacheSizeAssumption == CacheSize \in Nat \ {0}
ASSUME MaxAdmissionsAssumption == MaxAdmissions \in Nat

VARIABLES
  cache,     \* stomach_cp_cache_t
  admitted   \* history: the digests answered "not seen" since the last clear

cacheVars == <<cache, admitted>>

CacheInit ==
  /\ cache = ClearedRing(CacheSize)
  /\ admitted = << >>

-----------------------------------------------------------------------------
contains(d) == RingContains(cache, d)

\* Faulty variant: a digest is entered twice.
seen_or_add_twice(d) ==
  /\ ~contains(d) /\ Len(admitted) < MaxAdmissions
  /\ cache' = RingAdd(RingAdd(cache, CacheSize, d), CacheSize, d)
  /\ admitted' = Append(admitted, d)

seen_or_add(d) ==
  IF contains(d)
  THEN UNCHANGED cacheVars
  ELSE /\ Len(admitted) < MaxAdmissions
       /\ cache' = RingAdd(cache, CacheSize, d)
       /\ admitted' = Append(admitted, d)

clear ==
  /\ cache' = ClearedRing(CacheSize)
  /\ admitted' = << >>

CacheNext == clear \/ \E d \in Digests : seen_or_add(d)

CacheSpec == CacheInit /\ [][CacheNext]_cacheVars

-----------------------------------------------------------------------------
CacheTypeOK ==
  /\ cache \in Rings(CacheSize)
  /\ admitted \in Seq(Digests)

(***************************************************************************)
(* The cache remembers the last CacheSize admitted digests and nothing     *)
(* else: a slot that was never written, or was overwritten, answers for no *)
(* digest (stomach_cp_cache_contains, stomach_cp_cache_seen_or_add).       *)
(***************************************************************************)
SeenIsWindow ==
  \A d \in Digests :
    contains(d) <=> \E k \in 1 .. Len(admitted) :
                      k + CacheSize > Len(admitted) /\ admitted[k] = d

(***************************************************************************)
(* A capsule is worked a second time only after CacheSize others have been *)
(* admitted since it was (stomach_cp_cache_seen_or_add).                   *)
(***************************************************************************)
AdmittedApart ==
  \A j \in 1 .. Len(admitted) : \A i \in 1 .. j - 1 :
    admitted[i] = admitted[j] => j - i > CacheSize

(***************************************************************************)
(* The ring implements the window: read back in order of insertion it is   *)
(* the sequence of ReplayWindow, and every step of the ring is a step of   *)
(* the window.                                                             *)
(***************************************************************************)
CacheWindow ==
  [k \in 1 .. cache.count |-> Aged(cache, CacheSize, cache.count - k)]

Window == INSTANCE ReplayWindow WITH Size <- CacheSize, window <- CacheWindow

WindowSpec == Window!Spec
=============================================================================
