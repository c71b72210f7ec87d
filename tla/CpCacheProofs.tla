---------------------------- MODULE CpCacheProofs ----------------------------
(***************************************************************************)
(* The rings of digests and the capsule cache built on one, for every size *)
(* of the ring and every set of digests.  First what adding to a ring does *)
(* to the order of insertion.                                              *)
(***************************************************************************)
EXTENDS CpCache, SequenceTheorems, TLAPS

(***************************************************************************)
(* The modulus in RingAdd takes next to the following slot, and from the   *)
(* last slot to the first.                                                 *)
(***************************************************************************)
LEMMA NextSlot ==
  ASSUME NEW size \in Nat \ {0}, NEW n \in 0 .. size - 1
  PROVE  (n + 1) % size = IF n + 1 = size THEN 0 ELSE n + 1
<1>1. CASE n + 1 = size
  BY <1>1
<1>2. CASE n + 1 # size
  BY <1>2
<1> QED BY <1>1, <1>2

(***************************************************************************)
(* The cleared ring has the shape.                                         *)
(***************************************************************************)
LEMMA ClearedRingShape ==
  ASSUME NEW size \in Nat \ {0}
  PROVE  RingShape(ClearedRing(size), size)
BY ZeroAssumption DEF RingShape, ClearedRing, Rings

(***************************************************************************)
(* RingAdd keeps the shape.                                                *)
(***************************************************************************)
LEMMA RingAddShape ==
  ASSUME NEW size \in Nat \ {0}, NEW ring, RingShape(ring, size),
         NEW d \in Digests
  PROVE  RingShape(RingAdd(ring, size, d), size)
<1> DEFINE new == RingAdd(ring, size, d)
<1>1. ring.next \in 0 .. size - 1 /\ ring.count \in 0 .. size
  BY DEF RingShape, Rings
<1>2. new.next = IF ring.next + 1 = size THEN 0 ELSE ring.next + 1
  BY <1>1, NextSlot DEF RingAdd
<1>3. new.count = IF ring.count < size THEN ring.count + 1 ELSE ring.count
  BY DEF RingAdd
<1>4. new.entries \in [0 .. size - 1 -> Digests]
  BY <1>1 DEF RingAdd, RingShape, Rings
<1>5. new \in Rings(size)
  <2>1. new = [entries |-> new.entries, next |-> new.next, count |-> new.count]
    BY DEF RingAdd
  <2>2. new.next \in 0 .. size - 1 /\ new.count \in 0 .. size
    BY <1>1, <1>2, <1>3
  <2> QED BY <2>1, <2>2, <1>4 DEF Rings
<1>6. new.count < size => new.next = new.count
  BY <1>1, <1>2, <1>3 DEF RingShape
<1> QED BY <1>5, <1>6 DEF RingShape

(***************************************************************************)
(* The added digest has age 0 and every other digest is one older.         *)
(***************************************************************************)
LEMMA RingAddAged ==
  ASSUME NEW size \in Nat \ {0}, NEW ring, RingShape(ring, size),
         NEW d \in Digests
  PROVE  /\ Aged(RingAdd(ring, size, d), size, 0) = d
         /\ \A a \in 0 .. size - 2 :
              Aged(RingAdd(ring, size, d), size, a + 1) = Aged(ring, size, a)
<1> DEFINE new == RingAdd(ring, size, d)
<1>1. ring.next \in 0 .. size - 1 /\ ring.entries \in [0 .. size - 1 -> Digests]
  BY DEF RingShape, Rings
<1>2. new.next = IF ring.next + 1 = size THEN 0 ELSE ring.next + 1
  BY <1>1, NextSlot DEF RingAdd
<1>3. new.entries = [ring.entries EXCEPT ![ring.next] = d]
  BY DEF RingAdd
<1> HIDE DEF new
<1>4. AgeSlot(new, size, 0) = ring.next
  BY <1>1, <1>2 DEF AgeSlot
<1>5. Aged(new, size, 0) = d
  BY <1>1, <1>3, <1>4 DEF Aged
<1>6. ASSUME NEW a \in 0 .. size - 2
      PROVE  Aged(new, size, a + 1) = Aged(ring, size, a)
  <2>1. AgeSlot(new, size, a + 1) = AgeSlot(ring, size, a)
    <3>1. CASE ring.next + 1 = size
      <4>1. new.next = 0 /\ ring.next = size - 1 /\ a < ring.next /\ ~(a + 1 < new.next)
        BY <1>1, <1>2, <3>1
      <4> QED BY <4>1 DEF AgeSlot
    <3>2. CASE ring.next + 1 # size
      <4>1. new.next = ring.next + 1 /\ (a + 1 < new.next <=> a < ring.next)
        BY <1>1, <1>2, <3>2
      <4> QED BY <1>1, <4>1, SMTT(30) DEF AgeSlot
    <3> QED BY <3>1, <3>2
  <2>2. AgeSlot(ring, size, a) \in 0 .. size - 1 /\ AgeSlot(ring, size, a) # ring.next
    BY <1>1 DEF AgeSlot
  <2> QED BY <1>1, <1>3, <2>1, <2>2 DEF Aged
<1> QED BY <1>5, <1>6 DEF new

(***************************************************************************)
(* Every age has a digest.                                                 *)
(***************************************************************************)
LEMMA AgedDigest ==
  ASSUME NEW size \in Nat \ {0}, NEW ring, RingShape(ring, size),
         NEW a \in 0 .. size - 1
  PROVE  Aged(ring, size, a) \in Digests
<1>1. ring.next \in 0 .. size - 1 /\ ring.entries \in [0 .. size - 1 -> Digests]
  BY DEF RingShape, Rings
<1>2. AgeSlot(ring, size, a) \in 0 .. size - 1
  BY <1>1 DEF AgeSlot
<1> QED BY <1>1, <1>2 DEF Aged

(***************************************************************************)
(* The scan over the first count slots finds exactly the digests of ages   *)
(* below count.                                                            *)
(***************************************************************************)
LEMMA ContainsByAge ==
  ASSUME NEW size \in Nat \ {0}, NEW ring, RingShape(ring, size), NEW d
  PROVE  RingContains(ring, d) <=>
           \E a \in 0 .. size - 1 : a < ring.count /\ Aged(ring, size, a) = d
<1>1. /\ ring.next \in 0 .. size - 1 /\ ring.count \in 0 .. size
      /\ DOMAIN ring.entries = 0 .. size - 1
      /\ ring.count < size => ring.next = ring.count
  BY DEF RingShape, Rings
<1>2. ASSUME NEW i \in 0 .. size - 1, i < ring.count, ring.entries[i] = d
      PROVE  \E a \in 0 .. size - 1 : a < ring.count /\ Aged(ring, size, a) = d
  <2>1. CASE i < ring.next
    <3>1. /\ ring.next - 1 - i \in 0 .. size - 1 /\ ring.next - 1 - i < ring.count
          /\ AgeSlot(ring, size, ring.next - 1 - i) = i
      BY <1>1, <1>2, <2>1 DEF AgeSlot
    <3> QED BY <3>1, <1>2 DEF Aged
  <2>2. CASE ~(i < ring.next)
    <3>1. /\ ring.next + size - 1 - i \in 0 .. size - 1
          /\ ring.next + size - 1 - i < ring.count
          /\ AgeSlot(ring, size, ring.next + size - 1 - i) = i
      BY <1>1, <1>2, <2>2 DEF AgeSlot
    <3> QED BY <3>1, <1>2 DEF Aged
  <2> QED BY <2>1, <2>2
<1>3. ASSUME NEW a \in 0 .. size - 1, a < ring.count, Aged(ring, size, a) = d
      PROVE  \E i \in 0 .. size - 1 : i < ring.count /\ ring.entries[i] = d
  <2>1. AgeSlot(ring, size, a) \in 0 .. size - 1 /\ AgeSlot(ring, size, a) < ring.count
    BY <1>1, <1>3, SMTT(30) DEF AgeSlot
  <2> QED BY <2>1, <1>3 DEF Aged
<1> QED BY <1>1, <1>2, <1>3 DEF RingContains

(***************************************************************************)
(* Adding a digest makes the ring answer for no other digest.              *)
(***************************************************************************)
LEMMA RingAddContains ==
  ASSUME NEW size \in Nat \ {0}, NEW ring, RingShape(ring, size),
         NEW d \in Digests, NEW e, RingContains(RingAdd(ring, size, d), e)
  PROVE  e = d \/ RingContains(ring, e)
<1> DEFINE new == RingAdd(ring, size, d)
<1>1. /\ ring.next \in 0 .. size - 1 /\ ring.count \in 0 .. size
      /\ ring.entries \in [0 .. size - 1 -> Digests]
      /\ ring.count < size => ring.next = ring.count
  BY DEF RingShape, Rings
<1>2. /\ new.entries = [ring.entries EXCEPT ![ring.next] = d]
      /\ new.count = IF ring.count < size THEN ring.count + 1 ELSE ring.count
  BY DEF RingAdd
<1>3. PICK i \in 0 .. size - 1 : i < new.count /\ new.entries[i] = e
  BY <1>1, <1>2 DEF RingContains
<1>4. CASE i = ring.next
  BY <1>1, <1>2, <1>3, <1>4
<1>5. CASE i # ring.next
  <2>1. i < ring.count /\ ring.entries[i] = e
    BY <1>1, <1>2, <1>3, <1>5
  <2> QED BY <1>1, <2>1 DEF RingContains
<1> QED BY <1>4, <1>5
-----------------------------------------------------------------------------

(***************************************************************************)
(* The inductive invariant.  AdmittedApart alone is not inductive: it says *)
(* nothing of the ring.  History ties the two: the ring, read back in      *)
(* order of insertion, is the end of the history.                          *)
(***************************************************************************)
History ==
  /\ cache.count = IF Len(admitted) < CacheSize THEN Len(admitted) ELSE CacheSize
  /\ \A a \in 0 .. CacheSize - 1 :
       a < cache.count => Aged(cache, CacheSize, a) = admitted[Len(admitted) - a]

CacheInv ==
  /\ RingShape(cache, CacheSize)
  /\ admitted \in Seq(Digests)
  /\ History
  /\ AdmittedApart

(***************************************************************************)
(* Under the invariant the scan of the ring answers for the last CacheSize *)
(* admitted digests and for no other (stomach_cp_cache_contains).          *)
(***************************************************************************)
LEMMA ContainsWindow ==
  ASSUME CacheInv
  PROVE  SeenIsWindow
<1>1. CacheSize \in Nat \ {0} /\ Len(admitted) \in Nat
  BY CacheSizeAssumption DEF CacheInv
<1>2. SUFFICES ASSUME NEW d \in Digests
               PROVE  contains(d) <=> \E k \in 1 .. Len(admitted) :
                        k + CacheSize > Len(admitted) /\ admitted[k] = d
  BY DEF SeenIsWindow
<1>3. contains(d) <=> \E a \in 0 .. CacheSize - 1 :
                        a < cache.count /\ Aged(cache, CacheSize, a) = d
  BY <1>1, ContainsByAge DEF contains, CacheInv
<1>4. ASSUME NEW a \in 0 .. CacheSize - 1, a < cache.count, Aged(cache, CacheSize, a) = d
      PROVE  \E k \in 1 .. Len(admitted) : k + CacheSize > Len(admitted) /\ admitted[k] = d
  <2>1. Len(admitted) - a \in 1 .. Len(admitted) /\ Len(admitted) - a + CacheSize > Len(admitted)
    BY <1>1, <1>4 DEF CacheInv, History
  <2>2. admitted[Len(admitted) - a] = d
    BY <1>4 DEF CacheInv, History
  <2> QED BY <2>1, <2>2
<1>5. ASSUME NEW k \in 1 .. Len(admitted), k + CacheSize > Len(admitted), admitted[k] = d
      PROVE  \E a \in 0 .. CacheSize - 1 : a < cache.count /\ Aged(cache, CacheSize, a) = d
  <2> DEFINE a == Len(admitted) - k
  <2>1. a \in 0 .. CacheSize - 1 /\ a < cache.count /\ Len(admitted) - a = k
    BY <1>1, <1>5 DEF CacheInv, History
  <2>2. Aged(cache, CacheSize, a) = d
    BY <2>1, <1>5 DEF CacheInv, History
  <2> QED BY <2>1, <2>2
<1> QED BY <1>3, <1>4, <1>5

(***************************************************************************)
(* A cleared cache, and therefore the cache after a boot, is the invariant *)
(* with an empty history.                                                  *)
(***************************************************************************)
LEMMA ClearedCacheInv == CacheInit => CacheInv
<1> SUFFICES ASSUME CacheInit PROVE CacheInv
  OBVIOUS
<1>1. RingShape(cache, CacheSize)
  BY CacheSizeAssumption, ClearedRingShape DEF CacheInit
<1>2. Len(admitted) = 0 /\ admitted \in Seq(Digests) /\ cache.count = 0
  BY DEF CacheInit, ClearedRing
<1>3. History /\ AdmittedApart
  BY <1>2, CacheSizeAssumption DEF History, AdmittedApart
<1> QED BY <1>1, <1>2, <1>3 DEF CacheInv

(***************************************************************************)
(* seen_or_add keeps the invariant.                                        *)
(***************************************************************************)
LEMMA SeenOrAddCacheInv ==
  ASSUME CacheInv, NEW d \in Digests, seen_or_add(d)
  PROVE  CacheInv'
<1>1. CASE contains(d)
  <2>1. UNCHANGED cacheVars
    BY <1>1 DEF seen_or_add
  <2> QED BY <2>1 DEF CacheInv, History, AdmittedApart, cacheVars
<1>2. CASE ~contains(d)
  <2> DEFINE L == Len(admitted)
  <2>1. cache' = RingAdd(cache, CacheSize, d) /\ admitted' = Append(admitted, d)
    BY <1>2 DEF seen_or_add
  <2>2. /\ L \in Nat /\ CacheSize \in Nat \ {0} /\ cache.count \in 0 .. CacheSize
        /\ Len(admitted') = L + 1 /\ admitted' \in Seq(Digests)
        /\ admitted'[L + 1] = d
        /\ \A k \in 1 .. L : admitted'[k] = admitted[k]
    BY <2>1, CacheSizeAssumption DEF CacheInv, RingShape, Rings
  <2>3. RingShape(cache', CacheSize)
    BY <2>1, <2>2, RingAddShape DEF CacheInv
  <2>4. cache'.count = IF cache.count < CacheSize THEN cache.count + 1 ELSE cache.count
    BY <2>1 DEF RingAdd
  <2>5. /\ Aged(cache', CacheSize, 0) = d
        /\ \A a \in 0 .. CacheSize - 2 :
             Aged(cache', CacheSize, a + 1) = Aged(cache, CacheSize, a)
    BY <2>1, <2>2, RingAddAged DEF CacheInv
  <2>6. History'
    <3>1. cache'.count = IF L + 1 < CacheSize THEN L + 1 ELSE CacheSize
      BY <2>2, <2>4 DEF CacheInv, History
    <3>2. ASSUME NEW a \in 0 .. CacheSize - 1, a < cache'.count
          PROVE  Aged(cache', CacheSize, a) = admitted'[L + 1 - a]
      <4>1. CASE a = 0
        BY <4>1, <2>2, <2>5
      <4>2. CASE a # 0
        <5>1. /\ a - 1 \in 0 .. CacheSize - 2 /\ a - 1 \in 0 .. CacheSize - 1
              /\ a - 1 < cache.count /\ L - (a - 1) \in 1 .. L /\ (a - 1) + 1 = a
              /\ L - (a - 1) = L + 1 - a
          BY <4>2, <3>2, <3>1, <2>2, <2>4 DEF CacheInv, History
        <5>2. Aged(cache', CacheSize, a) = Aged(cache, CacheSize, a - 1)
          BY <5>1, <2>5
        <5>3. Aged(cache, CacheSize, a - 1) = admitted[L - (a - 1)]
          BY <5>1 DEF CacheInv, History
        <5> QED BY <5>1, <5>2, <5>3, <2>2
      <4> QED BY <4>1, <4>2
    <3> QED BY <3>1, <3>2, <2>2 DEF History
  <2>7. AdmittedApart'
    <3> SUFFICES ASSUME NEW j \in 1 .. L + 1, NEW i \in 1 .. j - 1,
                        admitted'[i] = admitted'[j]
                 PROVE  j - i > CacheSize
      BY <2>2 DEF AdmittedApart
    <3>1. CASE j \in 1 .. L
      <4>1. i \in 1 .. L
        BY <3>1, <2>2
      <4> QED BY <3>1, <4>1, <2>2 DEF CacheInv, AdmittedApart
    <3>2. CASE j = L + 1
      <4>1. i \in 1 .. L /\ admitted[i] = d
        BY <3>2, <2>2
      <4>2. ~(i + CacheSize > L)
        BY <1>2, <4>1, ContainsWindow DEF SeenIsWindow
      <4> QED BY <3>2, <4>1, <4>2, <2>2
    <3> QED BY <3>1, <3>2, <2>2
  <2> QED BY <2>2, <2>3, <2>6, <2>7 DEF CacheInv
<1> QED BY <1>1, <1>2

(***************************************************************************)
(* Every step keeps the invariant.                                         *)
(***************************************************************************)
LEMMA NextCacheInv == CacheInv /\ [CacheNext]_cacheVars => CacheInv'
<1> SUFFICES ASSUME CacheInv, [CacheNext]_cacheVars PROVE CacheInv'
  OBVIOUS
<1>1. CASE clear
  <2>1. CacheInit'
    BY <1>1 DEF clear, CacheInit
  <2>2. (CacheInit => CacheInv)'
    BY ClearedCacheInv, PTL
  <2> QED BY <2>1, <2>2
<1>2. CASE \E d \in Digests : seen_or_add(d)
  BY <1>2, SeenOrAddCacheInv
<1>3. CASE UNCHANGED cacheVars
  BY <1>3 DEF CacheInv, History, AdmittedApart, cacheVars
<1> QED BY <1>1, <1>2, <1>3 DEF CacheNext

(***************************************************************************)
(* The invariant holds in every reachable state.                           *)
(***************************************************************************)
LEMMA CacheInvariant == CacheSpec => []CacheInv
BY ClearedCacheInv, NextCacheInv, PTL DEF CacheSpec

(***************************************************************************)
(* Type correctness of the capsule cache.                                  *)
(***************************************************************************)
THEOREM CacheTypeCorrect == CacheSpec => []CacheTypeOK
<1>1. CacheInv => CacheTypeOK
  BY DEF CacheInv, CacheTypeOK, RingShape
<1> QED BY <1>1, CacheInvariant, PTL

(***************************************************************************)
(* The cache remembers exactly the last CacheSize admitted digests.        *)
(***************************************************************************)
THEOREM RemembersWindow == CacheSpec => []SeenIsWindow
<1>1. CacheInv => SeenIsWindow
  BY ContainsWindow
<1> QED BY <1>1, CacheInvariant, PTL

(***************************************************************************)
(* No digest is admitted twice within CacheSize admissions.                *)
(***************************************************************************)
THEOREM NoEarlyReadmission == CacheSpec => []AdmittedApart
<1>1. CacheInv => AdmittedApart
  BY DEF CacheInv
<1> QED BY <1>1, CacheInvariant, PTL

-----------------------------------------------------------------------------
(***************************************************************************)
(* The ring read back is a sequence of count digests.                      *)
(***************************************************************************)
LEMMA CacheWindowSeq ==
  ASSUME RingShape(cache, CacheSize)
  PROVE  /\ CacheWindow \in Seq(Digests)
         /\ Len(CacheWindow) = cache.count
         /\ \A k \in 1 .. cache.count :
              CacheWindow[k] = Aged(cache, CacheSize, cache.count - k)
<1>1. /\ cache.next \in 0 .. CacheSize - 1 /\ cache.count \in 0 .. CacheSize
      /\ CacheSize \in Nat \ {0}
  BY CacheSizeAssumption DEF RingShape, Rings
<1>2. ASSUME NEW k \in 1 .. cache.count
      PROVE  Aged(cache, CacheSize, cache.count - k) \in Digests
  <2>1. cache.count - k \in 0 .. CacheSize - 1
    BY <1>1
  <2> QED BY <1>1, <2>1, AgedDigest
<1> QED BY <1>1, <1>2 DEF CacheWindow

(***************************************************************************)
(* Admitting a digest is Admit of ReplayWindow: the digest is not in the   *)
(* window, and it enters at the end while the oldest leaves a full window. *)
(***************************************************************************)
LEMMA AdmitWindow ==
  ASSUME CacheInv, CacheInv', NEW d \in Digests, seen_or_add(d), ~contains(d)
  PROVE  Window!Admit(d)
<1> DEFINE W == CacheWindow
           c == cache.count
<1>1. cache' = RingAdd(cache, CacheSize, d)
  BY DEF seen_or_add
<1>2. /\ CacheSize \in Nat \ {0} /\ c \in 0 .. CacheSize
      /\ cache'.count = IF c < CacheSize THEN c + 1 ELSE c
  BY <1>1, CacheSizeAssumption DEF RingAdd, CacheInv, RingShape, Rings
<1>3. /\ W \in Seq(Digests) /\ Len(W) = c
      /\ \A k \in 1 .. c : W[k] = Aged(cache, CacheSize, c - k)
  BY CacheWindowSeq DEF CacheInv
<1>4. /\ W' \in Seq(Digests) /\ Len(W') = cache'.count
      /\ \A k \in 1 .. cache'.count : W'[k] = Aged(cache', CacheSize, cache'.count - k)
  <2>1. RingShape(cache', CacheSize)
    BY DEF CacheInv
  <2>2. cache'.count \in 0 .. CacheSize
    BY <2>1 DEF RingShape, Rings
  <2>3. ASSUME NEW k \in 1 .. cache'.count
        PROVE  Aged(cache', CacheSize, cache'.count - k) \in Digests
    <3>1. cache'.count - k \in 0 .. CacheSize - 1
      BY <1>2, <2>2
    <3> QED BY <1>2, <2>1, <3>1, AgedDigest
  <2> QED BY <1>2, <2>2, <2>3 DEF CacheWindow
<1>5. /\ Aged(cache', CacheSize, 0) = d
      /\ \A a \in 0 .. CacheSize - 2 :
           Aged(cache', CacheSize, a + 1) = Aged(cache, CacheSize, a)
  BY <1>1, <1>2, RingAddAged DEF CacheInv
<1>6. d \notin Window!Remembered
  <2> SUFFICES ASSUME NEW k \in 1 .. c, W[k] = d
               PROVE  FALSE
    BY <1>3 DEF Window!Remembered
  <2>1. c - k \in 0 .. CacheSize - 1 /\ c - k < c /\ Aged(cache, CacheSize, c - k) = d
    BY <1>2, <1>3
  <2>2. contains(d)
    BY <1>2, <2>1, ContainsByAge DEF contains, CacheInv
  <2> QED BY <2>2
<1> HIDE DEF W
<1>7. CASE c < CacheSize
  <2>1. Len(W') = c + 1
    BY <1>2, <1>4, <1>7
  <2>2. ASSUME NEW k \in 1 .. c + 1
        PROVE  W'[k] = Append(W, d)[k]
    <3>1. W'[k] = Aged(cache', CacheSize, c + 1 - k)
      BY <1>2, <1>4, <1>7
    <3>2. CASE k = c + 1
      BY <1>2, <1>3, <1>5, <3>1, <3>2
    <3>3. CASE k # c + 1
      <4>1. k \in 1 .. c /\ c - k \in 0 .. CacheSize - 2 /\ (c - k) + 1 = c + 1 - k
        BY <1>2, <1>7, <3>3
      <4>2. W'[k] = W[k]
        BY <1>3, <1>5, <3>1, <4>1
      <4> QED BY <1>3, <4>1, <4>2
    <3> QED BY <3>2, <3>3
  <2>3. W' = Append(W, d)
    <3>1. Append(W, d) \in Seq(Digests) /\ Len(Append(W, d)) = c + 1
      BY <1>3
    <3> QED BY <1>2, <1>4, <2>1, <2>2, <3>1, SeqEqual
  <2> QED BY <1>3, <1>6, <1>7, <2>3 DEF Window!Admit, W
<1>8. CASE ~(c < CacheSize)
  <2>1. c = CacheSize /\ Len(W') = c /\ Len(W) # 0
    BY <1>2, <1>3, <1>4, <1>8
  <2>2. /\ Tail(W) \in Seq(Digests) /\ Len(Tail(W)) = c - 1
        /\ \A k \in 1 .. c - 1 : Tail(W)[k] = W[k + 1]
    BY <1>2, <1>3, <2>1
  <2>3. ASSUME NEW k \in 1 .. c
        PROVE  W'[k] = Append(Tail(W), d)[k]
    <3>1. W'[k] = Aged(cache', CacheSize, c - k)
      BY <1>2, <1>4, <1>8
    <3>2. CASE k = c
      BY <1>2, <1>5, <2>2, <3>1, <3>2
    <3>3. CASE k # c
      <4>1. /\ k \in 1 .. c - 1 /\ k + 1 \in 1 .. c
            /\ c - (k + 1) \in 0 .. CacheSize - 2 /\ c - (k + 1) + 1 = c - k
        BY <1>2, <2>1, <3>3
      <4>2. W'[k] = W[k + 1]
        BY <1>3, <1>5, <3>1, <4>1
      <4> QED BY <2>2, <4>1, <4>2
    <3> QED BY <3>2, <3>3
  <2>4. W' = Append(Tail(W), d)
    <3>1. /\ Append(Tail(W), d) \in Seq(Digests) /\ Len(Append(Tail(W), d)) = c
      BY <1>2, <2>1, <2>2
    <3> QED BY <1>2, <1>4, <2>1, <2>3, <3>1, SeqEqual
  <2> QED BY <1>3, <1>6, <1>8, <2>4 DEF Window!Admit, W
<1> QED BY <1>7, <1>8

(***************************************************************************)
(* The capsule cache implements the replay window.                         *)
(***************************************************************************)
THEOREM ImplementsWindow == CacheSpec => WindowSpec
<1>1. CacheInit => Window!Init
  <2> SUFFICES ASSUME CacheInit PROVE CacheWindow = << >>
    BY DEF Window!Init
  <2>1. cache.count = 0 /\ RingShape(cache, CacheSize)
    BY CacheSizeAssumption, ClearedRingShape DEF CacheInit, ClearedRing
  <2> QED BY <2>1, CacheWindowSeq
<1>2. CacheInv /\ CacheInv' /\ [CacheNext]_cacheVars => [Window!Next]_CacheWindow
  <2> SUFFICES ASSUME CacheInv, CacheInv', [CacheNext]_cacheVars
               PROVE  [Window!Next]_CacheWindow
    OBVIOUS
  <2>1. CASE clear
    <3>1. cache'.count = 0
      BY <2>1 DEF clear, ClearedRing
    <3>2. CacheWindow' = << >>
      BY <3>1 DEF CacheWindow
    <3> QED BY <3>2 DEF Window!Next, Window!Forget
  <2>2. ASSUME NEW d \in Digests, seen_or_add(d)
        PROVE  [Window!Next]_CacheWindow
    <3>1. CASE contains(d)
      <4>1. UNCHANGED cacheVars
        BY <2>2, <3>1 DEF seen_or_add
      <4> QED BY <4>1 DEF CacheWindow, cacheVars
    <3>2. CASE ~contains(d)
      BY <2>2, <3>2, AdmitWindow DEF Window!Next
    <3> QED BY <3>1, <3>2
  <2>3. CASE UNCHANGED cacheVars
    BY <2>3 DEF CacheWindow, cacheVars
  <2> QED BY <2>1, <2>2, <2>3 DEF CacheNext
<1> QED BY <1>1, <1>2, CacheInvariant, PTL DEF CacheSpec, WindowSpec, Window!Spec
=============================================================================
