---------------------------- MODULE IntakeProofs ----------------------------
(***************************************************************************)
(* Fragment reassembly, for every number of slots, every size of the seen  *)
(* cache and every set of fragments that the radio may deliver; and then   *)
(* the two replay filters in a row, for all sizes of the caches with       *)
(* SeenSize >= 2 * CacheSize.  The second part rests on what is proved of  *)
(* each filter on its own.                                                 *)
(***************************************************************************)
EXTENDS GuardianIntake, CpCacheProofs, WellFoundedInduction

(***************************************************************************)
(* The least element that rx_slot_for picks exists.                        *)
(***************************************************************************)
LEMMA LeastIsLeast ==
  ASSUME NEW S \in SUBSET Nat, S # {}
  PROVE  Least(S) \in S /\ \A j \in S : Least(S) <= j
<1> DEFINE R == {p \in Nat \X Nat : p[1] < p[2]}
<1>1. IsWellFoundedOn(R, Nat)
  <2>1. OpToRel(<, Nat) = R
    BY Zenon DEF OpToRel
  <2> QED BY <2>1, NatLessThanWellFounded, Zenon
<1>2. \A x, y \in Nat : x < y => <<x, y>> \in R
  OBVIOUS
<1> HIDE DEF R
<1>3. PICK x \in S : \A y \in S : ~(<<y, x>> \in R)
  BY <1>1, WFMin
<1>4. \A y \in S : x <= y
  <2> TAKE y \in S
  <2>1. x \in Nat /\ y \in Nat /\ ~(y < x)
    BY <1>2, <1>3
  <2> QED BY <2>1
<1> QED BY <1>4 DEF Least

-----------------------------------------------------------------------------
(***************************************************************************)
(* The inductive invariant.  HandedRemembered is what makes HandedApart    *)
(* inductive: the k-th pill handed on is still in the seen cache, aged by  *)
(* at most two additions for each pill handed on after it.                 *)
(***************************************************************************)
HandedRemembered ==
  \A k \in 1 .. Len(handed) :
    2 * (Len(handed) - k) < SeenSize =>
      \E a \in 0 .. SeenSize - 1 :
        /\ a <= 2 * (Len(handed) - k)
        /\ a < seen_cache.count
        /\ Aged(seen_cache, SeenSize, a) = handed[k]

IInv ==
  /\ rx_slots \in [SlotIds -> Slots]
  /\ RingShape(seen_cache, SeenSize)
  /\ handed \in Seq(Digests)
  /\ SlotDiscipline
  /\ SeenHoldsNoSlot
  /\ HandedRemembered
  /\ HandedApart

(***************************************************************************)
(* The slot rx_slot_for returns: the one the message holds, or a free one, *)
(* or slot 0 of a full table.                                              *)
(***************************************************************************)
LEMMA SlotFor ==
  ASSUME NEW id
  PROVE  /\ rx_slot_for(id) \in SlotIds
         /\ Holding(id) # {} => rx_slot_for(id) \in Holding(id)
         /\ Holding(id) = {} => \/ rx_slot_for(id) \in Free
                                \/ rx_slot_for(id) = 0 /\ Free = {}
<1>1. Holding(id) \in SUBSET Nat /\ Free \in SUBSET Nat
  BY SizesAssumption DEF Holding, Free, SlotIds
<1>2. CASE Holding(id) # {}
  <2>1. rx_slot_for(id) \in Holding(id)
    BY <1>1, <1>2, LeastIsLeast DEF rx_slot_for
  <2> QED BY <1>2, <2>1 DEF Holding
<1>3. CASE Holding(id) = {} /\ Free # {}
  <2>1. rx_slot_for(id) \in Free
    BY <1>1, <1>3, LeastIsLeast DEF rx_slot_for
  <2> QED BY <1>3, <2>1 DEF Free
<1>4. CASE Holding(id) = {} /\ Free = {}
  BY <1>4, SizesAssumption DEF rx_slot_for, SlotIds
<1> QED BY <1>2, <1>3, <1>4

(***************************************************************************)
(* Wiping the slot of a message leaves it no slot and disturbs no other.   *)
(***************************************************************************)
LEMMA PutEmpty ==
  ASSUME rx_slots \in [SlotIds -> Slots], SlotDiscipline,
         NEW id, Put(id, EmptySlot)
  PROVE  /\ rx_slots' \in [SlotIds -> Slots]
         /\ SlotDiscipline'
         /\ \A i \in SlotIds : rx_slots'[i].in_use =>
              rx_slots'[i] = rx_slots[i] /\ rx_slots[i].message_id # id
<1> DEFINE n == rx_slot_for(id)
<1>1. n \in SlotIds /\ rx_slots' = [rx_slots EXCEPT ![n] = EmptySlot]
  BY SlotFor DEF Put
<1> HIDE DEF n
<1>2. EmptySlot \in Slots /\ ~EmptySlot.in_use
  BY ZeroAssumption DEF EmptySlot, Slots
<1>3. rx_slots' \in [SlotIds -> Slots]
  BY <1>1, <1>2
<1>4. \A i \in SlotIds : rx_slots'[i].in_use => i # n /\ rx_slots'[i] = rx_slots[i]
  BY <1>1, <1>2
<1>5. ASSUME NEW i \in SlotIds, rx_slots[i].in_use, i # n
      PROVE  rx_slots[i].message_id # id
  <2>1. CASE Holding(id) = {}
    BY <1>5, <2>1 DEF Holding
  <2>2. CASE Holding(id) # {}
    <3>1. n \in Holding(id)
      BY <2>2, SlotFor DEF n
    <3>2. Holding(id) = {n}
      BY <3>1 DEF SlotDiscipline, Holding
    <3> QED BY <1>5, <3>2 DEF Holding
  <2> QED BY <2>1, <2>2
<1>6. SlotDiscipline'
  <2> SUFFICES ASSUME NEW i \in SlotIds
               PROVE  /\ rx_slots'[i].in_use =>
                           /\ rx_slots'[i].received_mask # {}
                           /\ rx_slots'[i].received_mask
                                \subseteq 0 .. rx_slots'[i].shape.count - 1
                           /\ ~Complete(rx_slots'[i])
                           /\ Holding(rx_slots[i].message_id)' = {i}
                      /\ ~rx_slots'[i].in_use => rx_slots'[i] = EmptySlot
    BY <1>4 DEF SlotDiscipline, Complete, Holding
  <2>1. ASSUME rx_slots'[i].in_use
        PROVE  Holding(rx_slots[i].message_id)' = {i}
    <3>1. i # n /\ rx_slots'[i] = rx_slots[i]
      BY <1>4, <2>1
    <3>2. Holding(rx_slots[i].message_id) = {i}
      BY <2>1, <3>1 DEF SlotDiscipline
    <3> QED BY <1>4, <2>1, <3>1, <3>2 DEF Holding
  <2>2. CASE i = n
    BY <1>1, <1>2, <2>2
  <2>3. CASE i # n
    <3>1. rx_slots'[i] = rx_slots[i]
      BY <1>1, <2>3
    <3> QED BY <2>1, <3>1 DEF SlotDiscipline
  <2> QED BY <2>2, <2>3
<1> QED BY <1>3, <1>4, <1>5, <1>6

(***************************************************************************)
(* Storing a fragment that does not complete its message keeps the         *)
(* discipline of the slots, and changes only the slot of that message.     *)
(***************************************************************************)
LEMMA PutReceived ==
  ASSUME rx_slots \in [SlotIds -> Slots], SlotDiscipline,
         NEW f \in Arriving, OpenSlot(f).shape = f.shape,
         ~Complete(Received(f)), Put(f.id, Received(f))
  PROVE  /\ rx_slots' \in [SlotIds -> Slots]
         /\ SlotDiscipline'
         /\ \A i \in SlotIds : rx_slots'[i].in_use =>
              rx_slots'[i].message_id = f.id \/ rx_slots'[i] = rx_slots[i]
<1> DEFINE n == rx_slot_for(f.id)
           r == Received(f)
<1>1. n \in SlotIds /\ rx_slots' = [rx_slots EXCEPT ![n] = r]
  BY SlotFor DEF Put
<1>2. f.id \in Digests /\ f.shape \in Shapes /\ f.index \in 0 .. f.shape.count - 1
  BY FragmentsAssumption DEF Fragments
<1>3. /\ OpenSlot(f) \in Slots /\ OpenSlot(f).in_use /\ OpenSlot(f).message_id = f.id
      /\ OpenSlot(f).received_mask \subseteq 0 .. f.shape.count - 1
  <2>1. CASE Holding(f.id) # {}
    <3>1. OpenSlot(f) = rx_slots[n] /\ n \in Holding(f.id)
      BY <2>1, SlotFor DEF OpenSlot
    <3> HIDE DEF n
    <3> QED BY <1>1, <3>1 DEF Holding, SlotDiscipline
  <2>2. CASE Holding(f.id) = {}
    BY <1>2, <2>2, ZeroAssumption DEF OpenSlot, EmptySlot, Slots
  <2> QED BY <2>1, <2>2
<1>4. /\ r \in Slots /\ r.in_use /\ r.message_id = f.id /\ r.shape = f.shape
      /\ r.received_mask # {} /\ r.received_mask \subseteq 0 .. f.shape.count - 1
  <2>1. f.sound \in BOOLEAN /\ f.index \in Nat
    BY FragmentsAssumption DEF Fragments
  <2> QED BY <1>2, <1>3, <2>1 DEF Received, Slots
<1>5. \A i \in SlotIds : i # n => rx_slots'[i] = rx_slots[i]
  BY <1>1
<1>6. rx_slots'[n] = r
  BY <1>1
<1>7. ASSUME NEW i \in SlotIds, rx_slots[i].in_use, i # n
      PROVE  rx_slots[i].message_id # f.id
  <2>1. CASE Holding(f.id) = {}
    BY <1>7, <2>1 DEF Holding
  <2>2. CASE Holding(f.id) # {}
    <3>1. n \in Holding(f.id)
      BY <2>2, SlotFor
    <3> HIDE DEF n
    <3>2. Holding(f.id) = {n}
      BY <3>1 DEF SlotDiscipline, Holding
    <3> QED BY <1>7, <3>2 DEF Holding
  <2> QED BY <2>1, <2>2
<1> HIDE DEF n, r
<1>8. SlotDiscipline'
  <2> SUFFICES ASSUME NEW i \in SlotIds
               PROVE  /\ rx_slots'[i].in_use =>
                           /\ rx_slots'[i].received_mask # {}
                           /\ rx_slots'[i].received_mask
                                \subseteq 0 .. rx_slots'[i].shape.count - 1
                           /\ ~Complete(rx_slots'[i])
                           /\ {j \in SlotIds : rx_slots'[j].in_use /\
                                 rx_slots'[j].message_id = rx_slots'[i].message_id} = {i}
                      /\ ~rx_slots'[i].in_use => rx_slots'[i] = EmptySlot
    BY DEF SlotDiscipline, Complete, Holding, EmptySlot
  <2>1. CASE i = n
    <3>1. \A j \in SlotIds : rx_slots'[j].in_use /\ rx_slots'[j].message_id = f.id => j = n
      BY <1>5, <1>7
    <3> QED BY <1>4, <1>6, <2>1, <3>1 DEF r
  <2>2. CASE i # n
    <3>1. rx_slots'[i] = rx_slots[i]
      BY <1>5, <2>2
    <3>2. ASSUME rx_slots[i].in_use, NEW j \in SlotIds, rx_slots'[j].in_use,
                 rx_slots'[j].message_id = rx_slots[i].message_id
          PROVE  j = i
      <4>1. j # n
        BY <1>4, <1>6, <1>7, <2>2, <3>2
      <4>2. j \in Holding(rx_slots[i].message_id)
        BY <1>5, <3>2, <4>1 DEF Holding
      <4> QED BY <3>2, <4>2 DEF SlotDiscipline
    <3> QED BY <3>1, <3>2 DEF SlotDiscipline
  <2> QED BY <2>1, <2>2
<1>9. rx_slots' \in [SlotIds -> Slots]
  BY <1>1, <1>4
<1> QED BY <1>4, <1>5, <1>6, <1>8, <1>9

(***************************************************************************)
(* Entering the id of a pill once or twice ages every other digest by at   *)
(* most two, and makes the seen cache answer for no other id.              *)
(***************************************************************************)
LEMMA SeenAdded ==
  ASSUME RingShape(seen_cache, SeenSize), NEW id \in Digests,
         NEW new \in {RingAdd(seen_cache, SeenSize, id),
                      RingAdd(RingAdd(seen_cache, SeenSize, id), SeenSize, id)}
  PROVE  /\ RingShape(new, SeenSize)
         /\ new.count > 0 /\ Aged(new, SeenSize, 0) = id
         /\ \A e : RingContains(new, e) => e = id \/ seen(e)
         /\ \A a \in 0 .. SeenSize - 3 : a < seen_cache.count =>
              \E b \in {a + 1, a + 2} :
                b < new.count /\ Aged(new, SeenSize, b) = Aged(seen_cache, SeenSize, a)
<1> DEFINE once == RingAdd(seen_cache, SeenSize, id)
           twice == RingAdd(once, SeenSize, id)
<1>1. SeenSize \in Nat \ {0} /\ seen_cache.count \in 0 .. SeenSize
  BY SizesAssumption DEF RingShape, Rings
<1>2. /\ RingShape(once, SeenSize)
      /\ once.count = IF seen_cache.count < SeenSize THEN seen_cache.count + 1
                      ELSE seen_cache.count
      /\ Aged(once, SeenSize, 0) = id
      /\ \A a \in 0 .. SeenSize - 2 :
           Aged(once, SeenSize, a + 1) = Aged(seen_cache, SeenSize, a)
      /\ \A e : RingContains(once, e) => e = id \/ seen(e)
  <2>1. RingShape(once, SeenSize)
    BY <1>1, RingAddShape
  <2>2. once.count = IF seen_cache.count < SeenSize THEN seen_cache.count + 1
                     ELSE seen_cache.count
    BY DEF RingAdd
  <2>3. /\ Aged(once, SeenSize, 0) = id
        /\ \A a \in 0 .. SeenSize - 2 :
             Aged(once, SeenSize, a + 1) = Aged(seen_cache, SeenSize, a)
    BY <1>1, RingAddAged
  <2>4. \A e : RingContains(once, e) => e = id \/ seen(e)
    BY <1>1, RingAddContains DEF seen
  <2> QED BY <2>1, <2>2, <2>3, <2>4
<1> HIDE DEF once
<1>3. /\ RingShape(twice, SeenSize)
      /\ twice.count = IF once.count < SeenSize THEN once.count + 1 ELSE once.count
      /\ Aged(twice, SeenSize, 0) = id
      /\ \A a \in 0 .. SeenSize - 2 :
           Aged(twice, SeenSize, a + 1) = Aged(once, SeenSize, a)
      /\ \A e : RingContains(twice, e) => e = id \/ RingContains(once, e)
  <2>1. RingShape(twice, SeenSize)
    BY <1>1, <1>2, RingAddShape
  <2>2. twice.count = IF once.count < SeenSize THEN once.count + 1 ELSE once.count
    BY DEF RingAdd
  <2>3. /\ Aged(twice, SeenSize, 0) = id
        /\ \A a \in 0 .. SeenSize - 2 :
             Aged(twice, SeenSize, a + 1) = Aged(once, SeenSize, a)
    BY <1>1, <1>2, RingAddAged
  <2>4. \A e : RingContains(twice, e) => e = id \/ RingContains(once, e)
    BY <1>1, <1>2, RingAddContains
  <2> QED BY <2>1, <2>2, <2>3, <2>4
<1> HIDE DEF twice
<1>4. new = once \/ new = twice
  BY DEF once, twice
<1>5. CASE new = once
  <2>1. ASSUME NEW a \in 0 .. SeenSize - 3, a < seen_cache.count
        PROVE  a + 1 < new.count /\ Aged(new, SeenSize, a + 1) = Aged(seen_cache, SeenSize, a)
    BY <1>1, <1>2, <1>5, <2>1
  <2> QED BY <1>1, <1>2, <1>5, <2>1
<1>6. CASE new = twice
  <2>1. ASSUME NEW a \in 0 .. SeenSize - 3, a < seen_cache.count
        PROVE  a + 2 < new.count /\ Aged(new, SeenSize, a + 2) = Aged(seen_cache, SeenSize, a)
    <3>1. /\ a + 1 \in 0 .. SeenSize - 2 /\ a \in 0 .. SeenSize - 2 /\ (a + 1) + 1 = a + 2
          /\ a + 2 < twice.count
      BY <1>1, <1>2, <1>3, <2>1
    <3> QED BY <1>2, <1>3, <1>6, <3>1
  <2> QED BY <1>1, <1>2, <1>3, <1>6, <2>1
<1> QED BY <1>4, <1>5, <1>6

-----------------------------------------------------------------------------
(***************************************************************************)
(* The cleared caches satisfy the invariant.                               *)
(***************************************************************************)
LEMMA InitIInv == Init => IInv
<1> SUFFICES ASSUME Init PROVE IInv
  OBVIOUS
<1>1. EmptySlot \in Slots /\ ~EmptySlot.in_use
  BY ZeroAssumption DEF EmptySlot, Slots
<1>2. rx_slots \in [SlotIds -> Slots] /\ \A i \in SlotIds : rx_slots[i] = EmptySlot
  BY <1>1 DEF Init
<1>3. SlotDiscipline /\ SeenHoldsNoSlot
  BY <1>1, <1>2 DEF SlotDiscipline, SeenHoldsNoSlot
<1>4. RingShape(seen_cache, SeenSize)
  BY SizesAssumption, ClearedRingShape DEF Init
<1>5. handed \in Seq(Digests) /\ HandedRemembered /\ HandedApart
  BY DEF Init, HandedRemembered, HandedApart
<1> QED BY <1>2, <1>3, <1>4, <1>5 DEF IInv

(***************************************************************************)
(* A header that contradicts the slot of its message wipes the slot.       *)
(***************************************************************************)
LEMMA DropMismatchIInv ==
  ASSUME IInv, NEW f \in Arriving, DropMismatch(f)
  PROVE  IInv'
<1>1. Put(f.id, EmptySlot) /\ UNCHANGED <<seen_cache, handed>>
  BY DEF DropMismatch
<1>2. /\ rx_slots' \in [SlotIds -> Slots] /\ SlotDiscipline'
      /\ \A i \in SlotIds : rx_slots'[i].in_use => rx_slots'[i] = rx_slots[i]
  BY <1>1, PutEmpty DEF IInv
<1>3. SeenHoldsNoSlot'
  BY <1>1, <1>2 DEF IInv, SeenHoldsNoSlot, seen
<1>4. HandedRemembered' /\ HandedApart'
  BY <1>1 DEF IInv, HandedRemembered, HandedApart
<1> QED BY <1>1, <1>2, <1>3, <1>4 DEF IInv

(***************************************************************************)
(* A new fragment that does not complete its message is stored.            *)
(***************************************************************************)
LEMMA KeepIInv ==
  ASSUME IInv, NEW f \in Arriving, Keep(f)
  PROVE  IInv'
<1>1. /\ Put(f.id, Received(f)) /\ UNCHANGED <<seen_cache, handed>>
      /\ ~seen(f.id) /\ OpenSlot(f).shape = f.shape /\ ~Complete(Received(f))
  BY DEF Keep
<1>2. /\ rx_slots' \in [SlotIds -> Slots] /\ SlotDiscipline'
      /\ \A i \in SlotIds : rx_slots'[i].in_use =>
           rx_slots'[i].message_id = f.id \/ rx_slots'[i] = rx_slots[i]
  BY <1>1, PutReceived DEF IInv
<1>3. SeenHoldsNoSlot'
  BY <1>1, <1>2 DEF IInv, SeenHoldsNoSlot, seen
<1>4. HandedRemembered' /\ HandedApart'
  BY <1>1 DEF IInv, HandedRemembered, HandedApart
<1> QED BY <1>1, <1>2, <1>3, <1>4 DEF IInv

(***************************************************************************)
(* A pill handed on enters the seen cache and leaves the pills handed on   *)
(* before it there long enough.                                            *)
(***************************************************************************)
LEMMA HandOnIInv ==
  ASSUME IInv, NEW id \in Digests, ~seen(id), handed' = Append(handed, id),
         seen_cache' \in {RingAdd(seen_cache, SeenSize, id),
                          RingAdd(RingAdd(seen_cache, SeenSize, id), SeenSize, id)}
  PROVE  handed' \in Seq(Digests) /\ HandedRemembered' /\ HandedApart'
<1> DEFINE L == Len(handed)
<1>1. /\ L \in Nat /\ SeenSize \in Nat \ {0} /\ handed \in Seq(Digests)
      /\ Len(handed') = L + 1 /\ handed' \in Seq(Digests) /\ handed'[L + 1] = id
      /\ \A k \in 1 .. L : handed'[k] = handed[k]
  BY SizesAssumption DEF IInv
<1>2. /\ RingShape(seen_cache', SeenSize)
      /\ seen_cache'.count > 0 /\ Aged(seen_cache', SeenSize, 0) = id
      /\ \A a \in 0 .. SeenSize - 3 : a < seen_cache.count =>
           \E b \in {a + 1, a + 2} : b < seen_cache'.count /\
             Aged(seen_cache', SeenSize, b) = Aged(seen_cache, SeenSize, a)
  BY SeenAdded DEF IInv
<1> HIDE DEF L
<1>3. HandedRemembered'
  <2> SUFFICES ASSUME NEW k \in 1 .. L + 1, 2 * (L + 1 - k) < SeenSize
               PROVE  \E b \in 0 .. SeenSize - 1 :
                        /\ b <= 2 * (L + 1 - k) /\ b < seen_cache'.count
                        /\ Aged(seen_cache', SeenSize, b) = handed'[k]
    BY <1>1 DEF HandedRemembered
  <2>1. CASE k = L + 1
    BY <1>1, <1>2, <2>1
  <2>2. CASE k # L + 1
    <3>1. k \in 1 .. L /\ 2 * (L - k) < SeenSize - 2 /\ 2 * (L - k) < SeenSize
      BY <1>1, <2>2
    <3>2. PICK a \in 0 .. SeenSize - 1 :
            /\ a <= 2 * (L - k) /\ a < seen_cache.count
            /\ Aged(seen_cache, SeenSize, a) = handed[k]
      BY <3>1 DEF IInv, HandedRemembered, L
    <3>3. a \in 0 .. SeenSize - 3
      BY <1>1, <3>1, <3>2
    <3>4. PICK b \in {a + 1, a + 2} : b < seen_cache'.count /\
            Aged(seen_cache', SeenSize, b) = Aged(seen_cache, SeenSize, a)
      BY <1>2, <3>2, <3>3
    <3>5. b \in 0 .. SeenSize - 1 /\ b <= 2 * (L + 1 - k)
      <4>1. a \in Nat /\ b \in Nat /\ a <= SeenSize - 3 /\ b <= a + 2
        BY <1>1, <3>3
      <4>2. L - k \in Int /\ 2 * (L + 1 - k) = 2 * (L - k) + 2
        BY <1>1, <3>1
      <4>3. b <= SeenSize - 1
        BY <1>1, <4>1
      <4>4. b <= 2 * (L - k) + 2
        BY <3>2, <4>1, <4>2
      <4> QED BY <1>1, <4>1, <4>2, <4>3, <4>4
    <3> QED BY <1>1, <3>1, <3>2, <3>4, <3>5
  <2> QED BY <2>1, <2>2
<1>4. HandedApart'
  <2> SUFFICES ASSUME NEW j \in 1 .. L + 1, NEW i \in 1 .. j - 1,
                      handed'[i] = handed'[j]
               PROVE  j - i > SeenSize \div 2
    BY <1>1 DEF HandedApart
  <2>1. CASE j # L + 1
    <3>1. j \in 1 .. L /\ i \in 1 .. L
      BY <1>1, <2>1
    <3> QED BY <1>1, <3>1 DEF IInv, HandedApart, L
  <2>2. CASE j = L + 1
    <3>1. i \in 1 .. L /\ handed[i] = id
      BY <1>1, <2>2
    <3> SUFFICES ASSUME ~(j - i > SeenSize \div 2)
                 PROVE  FALSE
      OBVIOUS
    <3>2. 2 * (L - i) < SeenSize
      BY <1>1, <2>2, <3>1
    <3>3. PICK a \in 0 .. SeenSize - 1 :
            a < seen_cache.count /\ Aged(seen_cache, SeenSize, a) = id
      BY <1>1, <3>1, <3>2 DEF IInv, HandedRemembered, L
    <3>4. seen(id)
      BY <1>1, <3>3, ContainsByAge DEF IInv, seen
    <3> QED BY <3>4
  <2> QED BY <2>1, <2>2
<1> QED BY <1>1, <1>3, <1>4

(***************************************************************************)
(* The fragment that completes a message frees the slot, and the pill is   *)
(* refused or handed on.                                                   *)
(***************************************************************************)
LEMMA FinishIInv ==
  ASSUME IInv, NEW f \in Arriving, Finish(f)
  PROVE  IInv'
<1>1. /\ Put(f.id, EmptySlot) /\ ~seen(f.id)
      /\ handle_received_action_pill_bytes(f.id, f.shape.len, Received(f).sound)
  BY DEF Finish
<1>2. /\ rx_slots' \in [SlotIds -> Slots] /\ SlotDiscipline'
      /\ \A i \in SlotIds : rx_slots'[i].in_use =>
           rx_slots'[i] = rx_slots[i] /\ rx_slots[i].message_id # f.id
  BY <1>1, PutEmpty DEF IInv
<1>3. f.id \in Digests
  BY FragmentsAssumption DEF Fragments
<1>4. CASE UNCHANGED <<seen_cache, handed>>
  <2>1. SeenHoldsNoSlot'
    BY <1>2, <1>4 DEF IInv, SeenHoldsNoSlot, seen
  <2>2. HandedRemembered' /\ HandedApart'
    BY <1>4 DEF IInv, HandedRemembered, HandedApart
  <2> QED BY <1>2, <1>4, <2>1, <2>2 DEF IInv
<1>5. CASE ~UNCHANGED <<seen_cache, handed>>
  <2>1. /\ handed' = Append(handed, f.id)
        /\ seen_cache' \in {RingAdd(seen_cache, SeenSize, f.id),
                            RingAdd(RingAdd(seen_cache, SeenSize, f.id), SeenSize, f.id)}
    BY <1>1, <1>5 DEF handle_received_action_pill_bytes, send_action_pill_bytes
  <2>2. handed' \in Seq(Digests) /\ HandedRemembered' /\ HandedApart'
    BY <1>1, <1>3, <2>1, HandOnIInv
  <2>3. /\ RingShape(seen_cache', SeenSize)
        /\ \A e : RingContains(seen_cache', e) => e = f.id \/ seen(e)
    BY <1>3, <2>1, SeenAdded DEF IInv
  <2>4. SeenHoldsNoSlot'
    BY <1>2, <2>3 DEF IInv, SeenHoldsNoSlot, seen
  <2> QED BY <1>2, <2>2, <2>3, <2>4 DEF IInv
<1> QED BY <1>4, <1>5

(***************************************************************************)
(* Every step keeps the invariant.                                         *)
(***************************************************************************)
LEMMA NextIInv == IInv /\ [Next]_vars => IInv'
<1> SUFFICES ASSUME IInv, [Next]_vars PROVE IInv'
  OBVIOUS
<1>1. CASE UNCHANGED vars
  BY <1>1 DEF vars, IInv, SlotDiscipline, SeenHoldsNoSlot, HandedRemembered,
              HandedApart, Holding, Complete, seen
<1>2. CASE clear_seen_cache
  <2>1. rx_slots' = rx_slots /\ handed' = << >> /\ seen_cache' = ClearedRing(SeenSize)
    BY <1>2 DEF clear_seen_cache
  <2>2. RingShape(seen_cache', SeenSize) /\ seen_cache'.count = 0
    BY <2>1, SizesAssumption, ClearedRingShape DEF ClearedRing
  <2>3. SlotDiscipline'
    BY <2>1 DEF IInv, SlotDiscipline, Holding, Complete
  <2>4. \A id : ~RingContains(seen_cache', id)
    BY <2>1 DEF RingContains, ClearedRing
  <2>5. SeenHoldsNoSlot'
    BY <2>4 DEF SeenHoldsNoSlot, seen
  <2>6. handed' \in Seq(Digests) /\ HandedRemembered' /\ HandedApart'
    BY <2>1 DEF HandedRemembered, HandedApart
  <2> QED BY <2>1, <2>2, <2>3, <2>5, <2>6 DEF IInv
<1>4. CASE Restart
  <2>1. Init'
    BY <1>4 DEF Restart, Init
  <2>2. (Init => IInv)'
    BY InitIInv, PTL
  <2> QED BY <2>1, <2>2
<1>3. ASSUME NEW f \in Arriving, handle_received_fragment(f)
      PROVE  IInv'
  <2>1. CASE DropSeen(f) \/ DropDuplicate(f)
    BY <1>1, <2>1 DEF DropSeen, DropDuplicate
  <2>2. CASE DropMismatch(f)
    BY <2>2, DropMismatchIInv
  <2>3. CASE Keep(f)
    BY <2>3, KeepIInv
  <2>4. CASE Finish(f)
    BY <2>4, FinishIInv
  <2> QED BY <1>3, <2>1, <2>2, <2>3, <2>4 DEF handle_received_fragment
<1> QED BY <1>1, <1>2, <1>3, <1>4 DEF Next

(***************************************************************************)
(* The invariant holds in every reachable state.                           *)
(***************************************************************************)
LEMMA Invariant == Spec => []IInv
BY InitIInv, NextIInv, PTL DEF Spec

(***************************************************************************)
(* Type correctness of reassembly.                                         *)
(***************************************************************************)
THEOREM TypeCorrect == Spec => []TypeOK
<1>1. IInv => TypeOK
  BY DEF IInv, TypeOK, RingShape
<1> QED BY <1>1, Invariant, PTL

(***************************************************************************)
(* No slot is ever wedged: rx_slot_for and handle_received_fragment keep   *)
(* every slot in use incomplete and the only one of its message.           *)
(***************************************************************************)
THEOREM SlotsStayUsable == Spec => []SlotDiscipline
<1>1. IInv => SlotDiscipline
  BY DEF IInv
<1> QED BY <1>1, Invariant, PTL

(***************************************************************************)
(* A message in the seen cache holds no slot.                              *)
(***************************************************************************)
THEOREM SeenIsReleased == Spec => []SeenHoldsNoSlot
<1>1. IInv => SeenHoldsNoSlot
  BY DEF IInv
<1> QED BY <1>1, Invariant, PTL

(***************************************************************************)
(* A pill is handed on again only after more than half the seen cache's    *)
(* worth of others (handle_received_action_pill_bytes, add_seen).          *)
(***************************************************************************)
THEOREM NoEarlyHandOn == Spec => []HandedApart
<1>1. IInv => HandedApart
  BY DEF IInv
<1> QED BY <1>1, Invariant, PTL

(***************************************************************************)
(* Only slot 0 of a full table is ever taken from a message.               *)
(***************************************************************************)
THEOREM EvictionOnlyWhenFull == Spec => EvictsOnlyWhenFull
<1> DEFINE Evicts == \A i \in SlotIds :
                       /\ rx_slots[i].in_use
                       /\ rx_slots'[i].in_use
                       /\ rx_slots'[i].message_id # rx_slots[i].message_id
                       => i = 0 /\ Free = {}
<1>1. IInv /\ [Next]_vars => [Evicts]_vars
  <2> SUFFICES ASSUME IInv, Next, NEW i \in SlotIds, rx_slots[i].in_use,
                      rx_slots'[i].in_use,
                      rx_slots'[i].message_id # rx_slots[i].message_id
               PROVE  i = 0 /\ Free = {}
    OBVIOUS
  <2>1. ASSUME NEW f \in Arriving, NEW slot, Put(f.id, slot),
               slot.in_use => slot = Received(f)
        PROVE  i = 0 /\ Free = {}
    <3> DEFINE n == rx_slot_for(f.id)
    <3>1. n \in SlotIds /\ rx_slots' = [rx_slots EXCEPT ![n] = slot]
      BY <2>1, SlotFor DEF Put
    <3>2. i = n /\ slot = Received(f)
      BY <2>1, <3>1 DEF IInv
    <3>3. CASE Holding(f.id) # {}
      <4>1. n \in Holding(f.id) /\ OpenSlot(f) = rx_slots[n]
        BY <3>3, SlotFor DEF OpenSlot
      <4>2. rx_slots[n] \in Slots
        BY <3>1 DEF IInv
      <4>3. Received(f).message_id = rx_slots[n].message_id
        BY <4>1, <4>2 DEF Received, Slots
      <4> QED BY <3>1, <3>2, <4>3 DEF IInv
    <3>4. CASE Holding(f.id) = {}
      <4>1. n \in Free \/ (n = 0 /\ Free = {})
        BY <3>4, SlotFor
      <4> QED BY <3>2, <4>1 DEF Free
    <3> QED BY <3>3, <3>4
  <2>2. CASE rx_slots' = rx_slots
    BY <2>2
  <2>3. ASSUME NEW f \in Arriving, handle_received_fragment(f), rx_slots' # rx_slots
        PROVE  Put(f.id, EmptySlot) \/ Put(f.id, Received(f))
    BY <2>3 DEF handle_received_fragment, DropSeen, DropMismatch, DropDuplicate,
                Keep, Finish, vars
  <2>4. ~EmptySlot.in_use
    BY DEF EmptySlot
  <2>5. ~Restart
    BY <2>4 DEF Restart
  <2> QED BY <2>1, <2>2, <2>3, <2>4, <2>5 DEF Next, clear_seen_cache
<1> QED BY <1>1, Invariant, PTL DEF Spec, EvictsOnlyWhenFull
-----------------------------------------------------------------------------

(***************************************************************************)
(* Every step is a step of Reassembly or leaves it alone.                  *)
(***************************************************************************)
LEMMA IntakeIsReassembly == IntakeNext => [Next]_vars
BY DEF IntakeNext, IntakeRestart, on_fragment_received, Next

(***************************************************************************)
(* Every step is a step of the capsule cache or leaves it alone.           *)
(***************************************************************************)
LEMMA IntakeIsCache == IntakeNext => [CacheNext]_cacheVars
<1>1. ASSUME NEW f \in Arriving, on_fragment_received(f)
      PROVE  [CacheNext]_cacheVars
  <2>1. f.id \in Digests
    BY FragmentsAssumption DEF Fragments
  <2> QED BY <1>1, <2>1 DEF on_fragment_received, seen_or_add_cp, CacheNext, cacheVars
<1> QED BY <1>1 DEF IntakeNext, IntakeRestart, CacheNext

-----------------------------------------------------------------------------
(***************************************************************************)
(* The inductive invariant: the two filters' own, and the equality of the  *)
(* two histories.                                                          *)
(***************************************************************************)
IntakeInv ==
  /\ IInv
  /\ CacheInv
  /\ skipped \in BOOLEAN
  /\ EveryHandedAdmitted

(***************************************************************************)
(* After a boot both histories are empty.                                  *)
(***************************************************************************)
LEMMA InitIntakeInv == IntakeInit => IntakeInv
<1> SUFFICES ASSUME IntakeInit PROVE IntakeInv
  OBVIOUS
<1>1. IInv
  BY InitIInv DEF IntakeInit
<1>2. CacheInv
  BY ClearedCacheInv DEF IntakeInit
<1>3. admitted = << >> /\ handed = << >> /\ skipped = FALSE
  BY DEF IntakeInit, Init, CacheInit
<1> QED BY <1>1, <1>2, <1>3 DEF IntakeInv, EveryHandedAdmitted

(***************************************************************************)
(* The core of the argument: a pill that G2G hands on is not among the     *)
(* last CacheSize that the Stomach admitted.                               *)
(***************************************************************************)
LEMMA HandedIsNew ==
  ASSUME IntakeInv, HandedApart', NEW id, handed' = Append(handed, id),
         admitted = handed, id \in Digests
  PROVE  ~contains(id)
<1>1. /\ CacheSize \in Nat /\ SeenSize \in Nat /\ CacheSize <= SeenSize \div 2
      /\ SeenSize \div 2 \in Nat
  BY CachesAssumption, CacheSizeAssumption, SizesAssumption
<1>2. handed \in Seq(Digests) /\ Len(handed) \in Nat
  BY DEF IntakeInv, IInv
<1> SUFFICES ASSUME contains(id) PROVE FALSE
  OBVIOUS
<1>3. SeenIsWindow
  BY ContainsWindow DEF IntakeInv
<1>4. PICK k \in 1 .. Len(handed) : k + CacheSize > Len(handed) /\ handed[k] = id
  BY <1>3 DEF SeenIsWindow
<1>5. /\ Len(handed') = Len(handed) + 1
      /\ handed'[k] = id /\ handed'[Len(handed) + 1] = id
      /\ k \in 1 .. (Len(handed) + 1) - 1
  BY <1>2, <1>4
<1>6. Len(handed) + 1 - k > SeenSize \div 2
  BY <1>2, <1>5, SMTT(30) DEF HandedApart
<1> QED BY <1>1, <1>2, <1>4, <1>6

(***************************************************************************)
(* Every step keeps the invariant.                                         *)
(***************************************************************************)
LEMMA NextIntakeInv == IntakeInv /\ [IntakeNext]_intakeVars => IntakeInv'
<1> SUFFICES ASSUME IntakeInv, [IntakeNext]_intakeVars PROVE IntakeInv'
  OBVIOUS
<1>1. [Next]_vars
  BY IntakeIsReassembly DEF intakeVars, vars
<1>2. [CacheNext]_cacheVars
  BY IntakeIsCache DEF intakeVars, cacheVars
<1>3. IInv'
  BY <1>1, NextIInv DEF IntakeInv
<1>4. CacheInv'
  BY <1>2, NextCacheInv DEF IntakeInv
<1>5. skipped' \in BOOLEAN /\ EveryHandedAdmitted'
  <2>1. CASE UNCHANGED intakeVars
    BY <2>1 DEF intakeVars, IntakeInv, EveryHandedAdmitted
  <2>2. CASE IntakeRestart
    BY <2>2 DEF IntakeRestart, Restart, clear, EveryHandedAdmitted
  <2>3. ASSUME NEW f \in Arriving, on_fragment_received(f)
        PROVE  skipped' \in BOOLEAN /\ EveryHandedAdmitted'
    <3>1. CASE handed' = handed
      BY <2>3, <3>1 DEF on_fragment_received, cacheVars, IntakeInv, EveryHandedAdmitted
    <3>2. CASE handed' # handed /\ skipped'
      BY <2>3, <3>2 DEF on_fragment_received, seen_or_add_cp, IntakeInv, EveryHandedAdmitted
    <3>3. CASE handed' # handed /\ ~skipped'
      <4>1. seen_or_add(f.id) /\ skipped' = skipped
        BY <2>3, <3>3 DEF on_fragment_received, seen_or_add_cp
      <4>2. handed' = Append(handed, f.id)
        BY <2>3, <3>3 DEF on_fragment_received, handle_received_fragment, DropSeen,
                          DropMismatch, DropDuplicate, Keep, Finish, vars,
                          handle_received_action_pill_bytes
      <4>3. admitted = handed
        BY <3>3, <4>1 DEF IntakeInv, EveryHandedAdmitted
      <4>4. f.id \in Digests
        BY FragmentsAssumption DEF Fragments
      <4>5. ~contains(f.id)
        BY <1>3, <4>2, <4>3, <4>4, HandedIsNew DEF IInv
      <4>6. admitted' = Append(admitted, f.id)
        BY <4>1, <4>5 DEF seen_or_add
      <4> QED BY <3>3, <4>1, <4>2, <4>3, <4>6 DEF IntakeInv, EveryHandedAdmitted
    <3> QED BY <3>1, <3>2, <3>3
  <2> QED BY <2>1, <2>2, <2>3 DEF IntakeNext
<1> QED BY <1>3, <1>4, <1>5 DEF IntakeInv

(***************************************************************************)
(* The invariant holds in every reachable state.                           *)
(***************************************************************************)
LEMMA IntakeInvariant == IntakeSpec => []IntakeInv
BY InitIntakeInv, NextIntakeInv, PTL DEF IntakeSpec

(***************************************************************************)
(* Slots, both caches and the histories keep their types.                  *)
(***************************************************************************)
THEOREM IntakeTypeCorrect == IntakeSpec => []IntakeTypeOK
<1>1. IntakeInv => IntakeTypeOK
  BY DEF IntakeInv, IInv, CacheInv, IntakeTypeOK, TypeOK, CacheTypeOK, RingShape
<1> QED BY <1>1, IntakeInvariant, PTL

(***************************************************************************)
(* The Stomach admits every pill that G2G hands on, whatever the radio     *)
(* delivers, as long as it can compute digests.                            *)
(***************************************************************************)
THEOREM StomachAdmitsAll == IntakeSpec => []EveryHandedAdmitted
<1>1. IntakeInv => EveryHandedAdmitted
  BY DEF IntakeInv
<1> QED BY <1>1, IntakeInvariant, PTL
=============================================================================
