----------------------------- MODULE Reassembly -----------------------------
(***************************************************************************)
(* The receiving side of G2G (cortex/src/logic/g2g.rs): fragments of       *)
(* Action Pills are collected in a few slots; a complete pill whose digest *)
(* agrees with the message id and that is not in the seen cache is handed  *)
(* to the pipeline, which first relays it.                                 *)
(*                                                                         *)
(* RX_SLOTS and SEEN_CACHE are touched by the G2G receive task only, so    *)
(* one call of handle_received_fragment is one step.  The radio may lose,  *)
(* repeat and reorder fragments: any fragment may arrive at any time.      *)
(***************************************************************************)
EXTENDS SeenRing, Sequences

CONSTANTS
  RxSlots,      \* G2G_RX_SLOTS
  SeenSize,     \* G2G_SEEN_CACHE_SIZE
  Shapes,       \* the pairs (total_len, frag_count) that headers carry
  PillLen,      \* size_of::<ActionPill>()
  Arriving,     \* the fragments that the radio may deliver
  HashMayFail,  \* whether compute_inner_id may fail for want of memory
  MaxHanded     \* bound on the length of the history of handed pills

(***************************************************************************)
(* A fragment whose header passes the bounds check; any other is dropped   *)
(* before a variable is read.  sound says that the bytes it carries agree  *)
(* with the digest that is its message id.                                 *)
(***************************************************************************)
Fragments ==
  {f \in [id : Digests, shape : Shapes, index : Nat, sound : BOOLEAN] :
     f.index < f.shape.count}

ASSUME SizesAssumption ==
  /\ RxSlots \in Nat \ {0} /\ SeenSize \in Nat \ {0} /\ MaxHanded \in Nat
  /\ HashMayFail \in BOOLEAN

ASSUME FragmentsAssumption ==
  /\ Shapes \subseteq [len : Nat \ {0}, count : Nat \ {0}]
  /\ Arriving \subseteq Fragments

VARIABLES
  rx_slots,    \* RX_SLOTS
  seen_cache,  \* SEEN_CACHE
  handed       \* history: ids of the pills given to ACTION_PILL_HANDLER

vars == <<rx_slots, seen_cache, handed>>

SlotIds == 0 .. RxSlots - 1

EmptySlot ==
  [in_use |-> FALSE, message_id |-> Zero, shape |-> [len |-> 0, count |-> 0],
   received_mask |-> {}, sound |-> TRUE]

Init ==
  /\ rx_slots = [i \in SlotIds |-> EmptySlot]
  /\ seen_cache = ClearedRing(SeenSize)
  /\ handed = << >>

-----------------------------------------------------------------------------
seen(id) == RingContains(seen_cache, id)

Holding(id) == {i \in SlotIds : rx_slots[i].in_use /\ rx_slots[i].message_id = id}

Free == {i \in SlotIds : ~rx_slots[i].in_use}

Least(S) == CHOOSE i \in S : \A j \in S : i <= j

\* Faulty variant: free slots are not looked for.
rx_slot_for_without_free(id) == IF Holding(id) # {} THEN Least(Holding(id)) ELSE 0

\* The slot of the message, else the first free one, else slot 0.
rx_slot_for(id) ==
  IF Holding(id) # {} THEN Least(Holding(id))
  ELSE IF Free # {} THEN Least(Free) ELSE 0

\* The slot as rx_slot_for returns it, with the header of a first fragment.
OpenSlot(f) ==
  IF Holding(f.id) # {} THEN rx_slots[rx_slot_for(f.id)]
  ELSE [EmptySlot EXCEPT !.in_use = TRUE, !.message_id = f.id, !.shape = f.shape]

Received(f) ==
  [OpenSlot(f) EXCEPT !.received_mask = @ \cup {f.index},
                      !.sound = @ /\ f.sound]

Complete(slot) == slot.received_mask = 0 .. slot.shape.count - 1

\* The seen cache after a relay: the id is entered, without looking, when all
\* fragments could be queued for transmission.
send_action_pill_bytes(ring, id) == {ring, RingAdd(ring, SeenSize, id)}

\* Faulty variant: only the relay enters the id.
handle_pill_without_adding(id, len, sound) ==
  \/ /\ len # PillLen \/ ~sound \/ seen(id) \/ HashMayFail
     /\ UNCHANGED <<seen_cache, handed>>
  \/ /\ len = PillLen /\ sound /\ ~seen(id)
     /\ Len(handed) < MaxHanded
     /\ handed' = Append(handed, id)
     /\ seen_cache' \in send_action_pill_bytes(seen_cache, id)

(***************************************************************************)
(* A complete pill of the right size and digest enters the seen cache and  *)
(* goes to the handler, which first relays it.                             *)
(***************************************************************************)
handle_received_action_pill_bytes(id, len, sound) ==
  \/ /\ len # PillLen \/ ~sound \/ seen(id) \/ HashMayFail
     /\ UNCHANGED <<seen_cache, handed>>
  \/ /\ len = PillLen /\ sound /\ ~seen(id)
     /\ Len(handed) < MaxHanded
     /\ handed' = Append(handed, id)
     /\ seen_cache' \in send_action_pill_bytes(RingAdd(seen_cache, SeenSize, id), id)

Put(id, slot) == rx_slots' = [rx_slots EXCEPT ![rx_slot_for(id)] = slot]

DropSeen(f) ==
  /\ seen(f.id)
  /\ UNCHANGED vars

DropMismatch(f) ==
  /\ ~seen(f.id)
  /\ OpenSlot(f).shape # f.shape
  /\ Put(f.id, EmptySlot)
  /\ UNCHANGED <<seen_cache, handed>>

DropDuplicate(f) ==
  /\ ~seen(f.id)
  /\ OpenSlot(f).shape = f.shape
  /\ f.index \in OpenSlot(f).received_mask
  /\ UNCHANGED vars

Keep(f) ==
  /\ ~seen(f.id)
  /\ OpenSlot(f).shape = f.shape
  /\ f.index \notin OpenSlot(f).received_mask
  /\ ~Complete(Received(f))
  /\ Put(f.id, Received(f))
  /\ UNCHANGED <<seen_cache, handed>>

\* Faulty variant: the slot is not cleared.
FinishWithoutClear(f) ==
  /\ ~seen(f.id)
  /\ OpenSlot(f).shape = f.shape
  /\ f.index \notin OpenSlot(f).received_mask
  /\ Complete(Received(f))
  /\ Put(f.id, Received(f))
  /\ handle_received_action_pill_bytes(f.id, f.shape.len, Received(f).sound)

Finish(f) ==
  /\ ~seen(f.id)
  /\ OpenSlot(f).shape = f.shape
  /\ f.index \notin OpenSlot(f).received_mask
  /\ Complete(Received(f))
  /\ Put(f.id, EmptySlot)
  /\ handle_received_action_pill_bytes(f.id, f.shape.len, Received(f).sound)

handle_received_fragment(f) ==
  DropSeen(f) \/ DropMismatch(f) \/ DropDuplicate(f) \/ Keep(f) \/ Finish(f)

clear_seen_cache ==
  /\ seen_cache' = ClearedRing(SeenSize)
  /\ handed' = << >>
  /\ UNCHANGED rx_slots

\* Slots and cache are statics: a restart empties both.
Restart ==
  /\ rx_slots' = [i \in SlotIds |-> EmptySlot]
  /\ seen_cache' = ClearedRing(SeenSize)
  /\ handed' = << >>

Next ==
  \/ clear_seen_cache
  \/ Restart
  \/ \E f \in Arriving : handle_received_fragment(f)

Spec == Init /\ [][Next]_vars

-----------------------------------------------------------------------------
Slots ==
  [in_use : BOOLEAN, message_id : Digests,
   shape : Shapes \cup {EmptySlot.shape}, received_mask : SUBSET Nat, sound : BOOLEAN]

TypeOK ==
  /\ rx_slots \in [SlotIds -> Slots]
  /\ seen_cache \in Rings(SeenSize)
  /\ handed \in Seq(Digests)

(***************************************************************************)
(* Slots stay usable: no message has two slots, a slot in use holds at     *)
(* least one fragment and lacks at least one of its message (a complete    *)
(* slot would refuse every further fragment as a duplicate and never be    *)
(* handed on), and a free slot is wiped (handle_received_fragment,         *)
(* rx_slot_for).                                                           *)
(***************************************************************************)
SlotDiscipline ==
  \A i \in SlotIds :
    /\ rx_slots[i].in_use =>
         /\ rx_slots[i].received_mask # {}
         /\ rx_slots[i].received_mask \subseteq 0 .. rx_slots[i].shape.count - 1
         /\ ~Complete(rx_slots[i])
         /\ Holding(rx_slots[i].message_id) = {i}
    /\ ~rx_slots[i].in_use => rx_slots[i] = EmptySlot

(***************************************************************************)
(* A message in the seen cache holds no slot.  Its fragments are refused   *)
(* before a slot is looked up, so a slot it still held would be lost until *)
(* it is overwritten (the seen check of handle_received_fragment and the   *)
(* slot.clear() before the pill is handed on).                             *)
(***************************************************************************)
SeenHoldsNoSlot == \A i \in SlotIds : rx_slots[i].in_use => ~seen(rx_slots[i].message_id)

(***************************************************************************)
(* A pill is handed on again only after more than half of SeenSize others. *)
(* Half, because receiving a pill and relaying it each enter its id        *)
(* (seen_or_add in handle_received_action_pill_bytes, add_seen in          *)
(* send_action_pill_bytes).                                                *)
(***************************************************************************)
HandedApart ==
  \A j \in 1 .. Len(handed) : \A i \in 1 .. j - 1 :
    handed[i] = handed[j] => j - i > SeenSize \div 2

(***************************************************************************)
(* A partly received message gives up its slot to another message only     *)
(* from slot 0, and only when every slot is in use (rx_slot_for).          *)
(***************************************************************************)
EvictsOnlyWhenFull ==
  [][\A i \in SlotIds :
       /\ rx_slots[i].in_use
       /\ rx_slots'[i].in_use
       /\ rx_slots'[i].message_id # rx_slots[i].message_id
       => i = 0 /\ Free = {}]_vars

-----------------------------------------------------------------------------
(***************************************************************************)
(* For liveness: the sound fragments of the messages in Resent keep        *)
(* arriving as long as they make a difference.  The radio gives no such    *)
(* guarantee; it is what a sender that repeats its pill provides.          *)
(***************************************************************************)
CONSTANT Resent

ASSUME ResentAssumption == Resent \subseteq Digests

Resending ==
  \A f \in Arriving : f.id \in Resent /\ f.sound => WF_vars(handle_received_fragment(f))

LiveSpec == Spec /\ Resending

Handed(id) == \E k \in 1 .. Len(handed) : handed[k] = id

(***************************************************************************)
(* Unless the Guardian restarts for ever, a message that is sent again and *)
(* again is handed on, whatever partial messages were abandoned in other   *)
(* slots, as long as there are slots for all of them                       *)
(* (handle_received_fragment never wedges a slot).  clear_seen_cache       *)
(* empties the history as well, after which it is handed on again.         *)
(***************************************************************************)
ResentIsHanded ==
  []<><<Restart>>_vars \/ \A id \in Resent : []<>Handed(id)
=============================================================================
