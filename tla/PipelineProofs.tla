--------------------------- MODULE PipelineProofs ---------------------------
(***************************************************************************)
(* The command pipeline, for every set of pills and of membranes, every    *)
(* size of the cache and whatever fails.                                   *)
(***************************************************************************)
EXTENDS Pipeline, SequenceTheorems, TLAPS

C == INSTANCE CpCacheProofs

(***************************************************************************)
(* What the receive task knows of the pill it holds: the checks behind it  *)
(* hold, and the Stomach admitted it last.                                 *)
(***************************************************************************)
Held ==
  /\ rx.pc \in {"digest", "publish"} =>
       rx.pill.signed /\ rx.pill.issuer /\ rx.pill.active_matches /\ rx.pill.wellformed
  /\ rx.pc = "publish" => rx.device.secret = rx.pill.secret
  /\ rx.pc # "idle" =>
       /\ Len(admitted) # 0
       /\ admitted[Len(admitted)] = rx.pill.digest
       /\ \A k \in DOMAIN published :
            published[k].boot = boot => published[k].place < Len(admitted)

(***************************************************************************)
(* A publication of the current boot stands for one admission.             *)
(***************************************************************************)
Placed ==
  \A k \in DOMAIN published :
    /\ published[k].boot <= boot
    /\ published[k].boot = boot =>
         /\ published[k].place \in 1 .. Len(admitted)
         /\ admitted[published[k].place] = published[k].pill.digest

(***************************************************************************)
(* The inductive invariant.                                                *)
(***************************************************************************)
IInv ==
  /\ TypeOK
  /\ C!CacheInv
  /\ Held
  /\ Placed
  /\ PublishedGenuine
  /\ PublishedApart

(***************************************************************************)
(* The assumptions of the capsule cache hold here.                         *)
(***************************************************************************)
LEMMA CacheAssumptions ==
  C!ZeroAssumption /\ C!CacheSizeAssumption /\ C!MaxAdmissionsAssumption
BY PipelineAssumption
   DEF PipelineAssumption, C!ZeroAssumption, C!CacheSizeAssumption,
       C!MaxAdmissionsAssumption

(***************************************************************************)
(* The type of the cache is part of its own invariant.                     *)
(***************************************************************************)
LEMMA CacheTyped ==
  ASSUME C!CacheInv
  PROVE  Stomach!CacheTypeOK
BY DEF C!CacheInv, C!RingShape, C!Rings, Stomach!CacheTypeOK, Stomach!Rings

(***************************************************************************)
(* What a membrane from flash holds.                                       *)
(***************************************************************************)
LEMMA MembraneTyped ==
  ASSUME TypeOK
  PROVE  /\ membrane.ribosomes \in Seq(Entries)
         /\ \A t \in DOMAIN membrane.templates :
              membrane.templates[t] \subseteq DOMAIN ValueType
BY PipelineAssumption DEF TypeOK, PipelineAssumption

(***************************************************************************)
(* What the receive task holds at each of its places.                      *)
(***************************************************************************)
LEMMA PlaceTyped ==
  ASSUME rx \in Places
  PROVE  /\ rx.pc \in {"idle", "validate", "digest", "publish"}
         /\ rx.pc \in {"validate", "digest", "publish"} => rx.pill \in Pills
         /\ rx.pc = "publish" => rx.device \in Entries
         /\ rx.pc = "validate" => [rx EXCEPT !.pc = "digest"] =
                                  [pc |-> "digest", pill |-> rx.pill]
BY DEF Places

(***************************************************************************)
(* The places the task goes to.                                            *)
(***************************************************************************)
LEMMA PlaceShape ==
  /\ Idle \in Places /\ Idle.pc = "idle"
  /\ \A p \in Pills : /\ [pc |-> "validate", pill |-> p] \in Places
                      /\ [pc |-> "digest", pill |-> p] \in Places
                      /\ \A e \in Entries :
                           [pc |-> "publish", pill |-> p, device |-> e] \in Places
BY DEF Places, Idle

-----------------------------------------------------------------------------
(***************************************************************************)
(* The pipeline starts in the invariant.                                   *)
(***************************************************************************)
LEMMA InitIInv == Init => IInv
<1> SUFFICES ASSUME Init PROVE IInv
  OBVIOUS
<1>1. C!CacheInit
  BY DEF Init, Stomach!CacheInit, C!CacheInit, Stomach!ClearedRing, C!ClearedRing
<1>2. C!CacheInv
  BY <1>1, CacheAssumptions, C!ClearedCacheInv
<1>3. Stomach!CacheTypeOK
  BY <1>2, CacheTyped
<1>4. published = << >> /\ DOMAIN published = {} /\ boot = 0 /\ rx = Idle
  BY DEF Init
<1>5. TypeOK
  BY <1>3, <1>4, PlaceShape, PipelineAssumption DEF Init, TypeOK, PipelineAssumption
<1>6. Held /\ Placed /\ PublishedGenuine /\ PublishedApart
  BY <1>4, PlaceShape DEF Held, Placed, PublishedGenuine, PublishedApart
<1> QED BY <1>2, <1>5, <1>6 DEF IInv

(***************************************************************************)
(* A step that leaves the histories, the cache and the boot alone, and     *)
(* drops the pill, keeps the invariant.                                    *)
(***************************************************************************)
LEMMA DropIInv ==
  ASSUME IInv, rx' = Idle \/ UNCHANGED rx, UNCHANGED <<cache, admitted, published, boot>>,
         membrane' \in Membranes, now' \in 0 .. ClockWrap - 1, broker' \in BOOLEAN,
         lapsed' \subseteq Pills
  PROVE  IInv'
<1>1. C!CacheInv' /\ Stomach!CacheTypeOK'
  BY DEF IInv, TypeOK, C!CacheInv, C!History, C!AdmittedApart, Stomach!CacheTypeOK
<1>2. TypeOK'
  BY <1>1, PlaceShape DEF IInv, TypeOK
<1>3. Placed' /\ PublishedGenuine' /\ PublishedApart'
  BY DEF IInv, Placed, PublishedGenuine, PublishedApart
<1>4. Held'
  BY PlaceShape DEF IInv, Held
<1> QED BY <1>1, <1>2, <1>3, <1>4 DEF IInv

(***************************************************************************)
(* Asking the cache.                                                       *)
(***************************************************************************)
LEMMA SeenOrAddIInv ==
  ASSUME IInv, NEW p \in Pills, seen_or_add_cp(p)
  PROVE  IInv'
<1>1. CASE UNCHANGED <<cache, admitted, rx>>
  BY <1>1, DropIInv DEF seen_or_add_cp, Stay, IInv, TypeOK
<1>2. CASE /\ ~Stomach!contains(p.digest)
           /\ Stomach!seen_or_add(p.digest)
           /\ rx' = [pc |-> "validate", pill |-> p]
  <2>1. p.digest \in Digests
    BY PipelineAssumption DEF PipelineAssumption, PillRecords
  <2>2. C!seen_or_add(p.digest)
    BY <1>2 DEF Stomach!seen_or_add, C!seen_or_add, Stomach!contains, C!contains,
                Stomach!RingContains, C!RingContains, Stomach!cacheVars, C!cacheVars,
                Stomach!RingAdd, C!RingAdd
  <2>3. C!CacheInv'
    BY <2>1, <2>2, CacheAssumptions, C!NextCacheInv DEF IInv, C!CacheNext
  <2>4. Stomach!CacheTypeOK'
    BY <2>3 DEF C!CacheInv, C!RingShape, C!Rings, Stomach!CacheTypeOK, Stomach!Rings
  <2>5. UNCHANGED <<membrane, now, broker, boot, lapsed, published>>
    BY DEF seen_or_add_cp, Stay
  <2>6. TypeOK'
    BY <1>2, <2>4, <2>5, PlaceShape DEF IInv, TypeOK
  <2>7. /\ admitted \in Seq(Digests) /\ Len(admitted) \in Nat
        /\ admitted' = Append(admitted, p.digest)
    BY <1>2 DEF Stomach!seen_or_add, IInv, TypeOK, Stomach!CacheTypeOK
  <2>8. /\ Len(admitted') = Len(admitted) + 1
        /\ admitted'[Len(admitted) + 1] = p.digest
        /\ \A k \in 1 .. Len(admitted) : admitted'[k] = admitted[k]
    BY <2>1, <2>7
  <2>9. Placed'
    BY <2>5, <2>7, <2>8 DEF IInv, Placed
  <2>10. Held'
    <3>1. \A k \in DOMAIN published : published[k].boot = boot =>
            published[k].place \in 1 .. Len(admitted)
      BY DEF IInv, Placed
    <3>2. \A k \in DOMAIN published' : published'[k].boot = boot' =>
            published'[k].place < Len(admitted')
      BY <2>5, <2>7, <2>8, <3>1
    <3> QED BY <1>2, <2>7, <2>8, <3>2 DEF Held
  <2>11. PublishedGenuine' /\ PublishedApart'
    BY <2>5 DEF IInv, PublishedGenuine, PublishedApart
  <2> QED BY <2>3, <2>6, <2>9, <2>10, <2>11 DEF IInv
<1> QED BY <1>1, <1>2 DEF seen_or_add_cp

(***************************************************************************)
(* Going on with the same pill keeps the invariant, if the checks of the   *)
(* place the task leaves are behind it.                                    *)
(***************************************************************************)
LEMMA GoOnIInv ==
  ASSUME IInv, rx' \in Places, rx.pc # "idle", rx'.pill = rx.pill,
         UNCHANGED <<cache, admitted, published>>, Stay,
         rx'.pc \in {"digest", "publish"} =>
           rx.pill.signed /\ rx.pill.issuer /\ rx.pill.active_matches /\ rx.pill.wellformed,
         rx'.pc = "publish" => rx'.device.secret = rx.pill.secret
  PROVE  IInv'
<1>1. C!CacheInv' /\ Stomach!CacheTypeOK'
  BY DEF IInv, TypeOK, C!CacheInv, C!History, C!AdmittedApart, Stomach!CacheTypeOK
<1>2. TypeOK'
  BY <1>1 DEF IInv, TypeOK, Stay
<1>3. Placed' /\ PublishedGenuine' /\ PublishedApart'
  BY DEF IInv, Placed, PublishedGenuine, PublishedApart, Stay
<1>4. Held'
  BY DEF IInv, Held, Stay
<1> QED BY <1>1, <1>2, <1>3, <1>4 DEF IInv

(***************************************************************************)
(* Validating the capsule.                                                 *)
(***************************************************************************)
LEMMA ValidateIInv ==
  ASSUME IInv, validate_authorized
  PROVE  IInv'
<1>1. CASE rx' = Idle
  BY <1>1, DropIInv DEF validate_authorized, Stay, IInv, TypeOK
<1>2. CASE rx' # Idle
  <2>1. /\ rx.pill.signed /\ rx.pill.issuer /\ rx.pill.active_matches /\ rx.pill.wellformed
        /\ rx' = [rx EXCEPT !.pc = "digest"]
    BY <1>2 DEF validate_authorized, Authorized, validate_basic, issuer_key_matches,
                matches_active, verify_asymmetric, Goto
  <2>2. rx' = [pc |-> "digest", pill |-> rx.pill] /\ rx.pill \in Pills
    BY <2>1, PlaceTyped DEF validate_authorized, IInv, TypeOK
  <2>3. rx' \in Places /\ rx'.pc = "digest" /\ rx'.pill = rx.pill
    BY <2>2, PlaceShape
  <2> QED BY <2>1, <2>3, GoOnIInv DEF validate_authorized
<1> QED BY <1>1, <1>2

(***************************************************************************)
(* Looking for the device whose secret opens the active substance.         *)
(***************************************************************************)
LEMMA DigestIInv ==
  ASSUME IInv, digest_active_substance
  PROVE  IInv'
<1>1. CASE rx' = Idle
  BY <1>1, DropIInv DEF digest_active_substance, Stay, IInv, TypeOK
<1>2. CASE rx' # Idle
  <2>1. PICK i \in Openers(rx.pill) :
          rx' = [pc |-> "publish", pill |-> rx.pill, device |-> membrane.ribosomes[i]]
    BY <1>2 DEF digest_active_substance
  <2>2. membrane.ribosomes[i] \in Entries /\ membrane.ribosomes[i].secret = rx.pill.secret
    BY MembraneTyped DEF IInv, Openers, decrypt_with_secret
  <2>3. rx.pc = "digest" /\ rx.pill \in Pills
    BY PlaceTyped DEF digest_active_substance, IInv, TypeOK
  <2>4. rx' \in Places
    BY <2>1, <2>2, <2>3, PlaceShape
  <2>5. rx.pill.signed /\ rx.pill.issuer /\ rx.pill.active_matches /\ rx.pill.wellformed
    BY <2>3 DEF IInv, Held
  <2>6. rx'.pill = rx.pill /\ rx'.device.secret = rx.pill.secret
    BY <2>1, <2>2
  <2> QED BY <2>3, <2>4, <2>5, <2>6, GoOnIInv DEF digest_active_substance
<1> QED BY <1>1, <1>2

(***************************************************************************)
(* Publishing.  The new publication stands for the last admission, the     *)
(* earlier ones of this boot for earlier admissions; equal digests are     *)
(* apart among the admissions.                                             *)
(***************************************************************************)
LEMMA PublishIInv ==
  ASSUME IInv, publish_digested_command
  PROVE  IInv'
<1>1. CASE UNCHANGED published
  BY <1>1, DropIInv DEF publish_digested_command, Stay, IInv, TypeOK
<1>2. CASE published' # published
  <2> DEFINE n == Len(published)
             t == rx.device.template_id
             c == Command
  <2>1. /\ rx.pc = "publish" /\ rx' = Idle
        /\ rx.pill.device_id = rx.device.mqtt_client_id
        /\ t \in DOMAIN membrane.templates /\ rx.pill.amino \in membrane.templates[t]
        /\ published' = Append(published, c)
        /\ UNCHANGED <<cache, admitted, membrane, now, broker, boot, lapsed>>
    BY <1>2 DEF publish_digested_command, allows, Stay
  <2>2. rx.pill \in Pills /\ rx.device \in Entries
    BY <2>1, PlaceTyped DEF IInv, TypeOK
  <2>3. Len(admitted) \in Nat
    BY DEF IInv, C!CacheInv
  <2>4. /\ c.pill = rx.pill /\ c.device = rx.device /\ c.boot = boot
        /\ c.place = Len(admitted) /\ c.rna = membrane.templates[t]
        /\ c \in [pill : Pills, device : Entries, boot : Nat, place : Nat,
                  rna : SUBSET DOMAIN ValueType]
    BY <2>1, <2>2, <2>3, MembraneTyped DEF Command, IInv, TypeOK
  <2> HIDE DEF c
  <2>5. /\ n \in Nat /\ DOMAIN published = 1 .. n
        /\ published' \in Seq([pill : Pills, device : Entries, boot : Nat, place : Nat,
                               rna : SUBSET DOMAIN ValueType])
        /\ DOMAIN published' = 1 .. n + 1
        /\ published'[n + 1] = c
        /\ \A k \in 1 .. n : published'[k] = published[k]
    BY <2>1, <2>4 DEF IInv, TypeOK
  <2>6. C!CacheInv' /\ Stomach!CacheTypeOK'
    BY <2>1 DEF IInv, TypeOK, C!CacheInv, C!History, C!AdmittedApart, Stomach!CacheTypeOK
  <2>7. TypeOK'
    BY <2>1, <2>5, <2>6, PlaceShape DEF IInv, TypeOK
  <2>8. Held'
    BY <2>1, PlaceShape DEF Held
  <2>9. /\ Len(admitted) # 0 /\ admitted[Len(admitted)] = rx.pill.digest
        /\ \A k \in 1 .. n : published[k].boot = boot => published[k].place < Len(admitted)
    BY <2>1, <2>5 DEF IInv, Held
  <2>10. Placed'
    <3>1. ASSUME NEW k \in 1 .. n
          PROVE  /\ published'[k].boot <= boot
                 /\ published'[k].boot = boot =>
                      /\ published'[k].place \in 1 .. Len(admitted)
                      /\ admitted[published'[k].place] = published'[k].pill.digest
      BY <2>5 DEF IInv, Placed
    <3>2. /\ c.boot <= boot /\ c.place \in 1 .. Len(admitted)
          /\ admitted[c.place] = c.pill.digest
      BY <2>3, <2>4, <2>9 DEF IInv, TypeOK
    <3> QED BY <2>1, <2>5, <3>1, <3>2, SMTT(30) DEF Placed
  <2>11. PublishedGenuine'
    <3>1. /\ c.pill.signed /\ c.pill.issuer /\ c.pill.active_matches /\ c.pill.wellformed
          /\ c.device.secret = c.pill.secret /\ c.device.mqtt_client_id = c.pill.device_id
          /\ c.pill.amino \in c.rna
      BY <2>1, <2>4 DEF IInv, Held
    <3>2. ASSUME NEW k \in 1 .. n
          PROVE  /\ published'[k].pill.signed /\ published'[k].pill.issuer
                 /\ published'[k].pill.active_matches /\ published'[k].pill.wellformed
                 /\ published'[k].device.secret = published'[k].pill.secret
                 /\ published'[k].device.mqtt_client_id = published'[k].pill.device_id
                 /\ published'[k].pill.amino \in published'[k].rna
      BY <2>5 DEF IInv, PublishedGenuine
    <3>3. \A k \in DOMAIN published' : k \in 1 .. n \/ k = n + 1
      BY <2>5
    <3> QED BY <2>5, <3>1, <3>2, <3>3 DEF PublishedGenuine
  <2>12. PublishedApart'
    <3> SUFFICES ASSUME NEW j \in 1 .. n + 1, NEW i \in 1 .. j - 1,
                        published'[i].boot = published'[j].boot,
                        published'[i].pill.digest = published'[j].pill.digest
                 PROVE  published'[j].place - published'[i].place > CacheSize
      BY <2>5 DEF PublishedApart
    <3>1. CASE j \in 1 .. n
      <4>1. i \in 1 .. n /\ published'[i] = published[i] /\ published'[j] = published[j]
        BY <2>5, <3>1, SMTT(30)
      <4> QED BY <2>5, <3>1, <4>1 DEF IInv, PublishedApart
    <3>2. CASE j = n + 1
      <4> DEFINE a == published[i]
      <4>1. i \in 1 .. n /\ published'[i] = a /\ published'[j] = c
        BY <2>5, <3>2
      <4>2. a.boot = boot /\ a.pill.digest = rx.pill.digest
        BY <2>4, <4>1
      <4>3. /\ a.place \in 1 .. Len(admitted) /\ admitted[a.place] = rx.pill.digest
            /\ a.place < Len(admitted)
        BY <2>5, <2>9, <4>1, <4>2 DEF IInv, Placed
      <4>4. Len(admitted) \in 1 .. Len(admitted) /\ a.place \in 1 .. Len(admitted) - 1
        BY <2>3, <2>9, <4>3
      <4>5. Len(admitted) - a.place > CacheSize
        BY <2>9, <4>3, <4>4 DEF IInv, C!CacheInv, C!AdmittedApart
      <4> QED BY <2>4, <4>1, <4>5
    <3> QED BY <2>5, <3>1, <3>2, SMTT(30)
  <2> QED BY <2>6, <2>7, <2>8, <2>10, <2>11, <2>12 DEF IInv
<1> QED BY <1>1, <1>2

(***************************************************************************)
(* A restart empties the cache; the publications before it belong to       *)
(* earlier boots.                                                          *)
(***************************************************************************)
LEMMA RestartIInv ==
  ASSUME IInv, Restart
  PROVE  IInv'
<1>1. C!clear
  BY DEF Restart, Stomach!clear, C!clear, Stomach!ClearedRing, C!ClearedRing
<1>2. C!CacheInv'
  BY <1>1, CacheAssumptions, C!NextCacheInv DEF IInv, C!CacheNext
<1>3. Stomach!CacheTypeOK'
  BY <1>2 DEF C!CacheInv, C!RingShape, C!Rings, Stomach!CacheTypeOK, Stomach!Rings
<1>4. TypeOK'
  BY <1>3, PlaceShape, PipelineAssumption
     DEF Restart, Boot, IInv, TypeOK, PipelineAssumption
<1>5. Held'
  BY PlaceShape DEF Restart, Boot, Held
<1>6. PublishedGenuine' /\ PublishedApart'
  BY DEF Restart, IInv, PublishedGenuine, PublishedApart
<1>7. Placed'
  <2> SUFFICES ASSUME NEW k \in DOMAIN published
               PROVE  published[k].boot <= boot + 1 /\ published[k].boot # boot + 1
    BY DEF Placed, Restart
  <2>1. published[k] \in [pill : Pills, device : Entries, boot : Nat, place : Nat,
                          rna : SUBSET DOMAIN ValueType]
    <3> DEFINE R == [pill : Pills, device : Entries, boot : Nat, place : Nat,
                     rna : SUBSET DOMAIN ValueType]
    <3>1. published \in Seq(R)
      BY DEF IInv, TypeOK
    <3> HIDE DEF R
    <3>2. published[k] \in R
      BY <3>1
    <3> QED BY <3>2 DEF R
  <2>2. published[k].boot \in Nat /\ boot \in Nat /\ published[k].boot <= boot
    BY <2>1 DEF IInv, TypeOK, Placed
  <2> QED BY <2>2
<1> QED BY <1>2, <1>4, <1>5, <1>6, <1>7 DEF IInv

-----------------------------------------------------------------------------
(***************************************************************************)
(* Every step keeps the invariant.                                         *)
(***************************************************************************)
LEMMA NextIInv == IInv /\ [Next]_vars => IInv'
<1> SUFFICES ASSUME IInv, [Next]_vars PROVE IInv'
  OBVIOUS
<1>1. CASE \E p \in Pills : seen_or_add_cp(p)
  BY <1>1, SeenOrAddIInv
<1>2. CASE validate_authorized
  BY <1>2, ValidateIInv
<1>3. CASE digest_active_substance
  BY <1>3, DigestIInv
<1>4. CASE publish_digested_command
  BY <1>4, PublishIInv
<1>5. CASE Tick
  <2>1. now' \in 0 .. ClockWrap - 1
    BY <1>5, PipelineAssumption DEF Tick, IInv, TypeOK, PipelineAssumption
  <2>2. lapsed' \subseteq Pills
    BY <1>5 DEF Tick, IInv, TypeOK
  <2> QED BY <1>5, <2>1, <2>2, DropIInv DEF Tick, IInv, TypeOK
<1>6. CASE BrokerEnds
  BY <1>6, DropIInv DEF BrokerEnds, IInv, TypeOK
<1>7. CASE Restart
  BY <1>7, RestartIInv
<1>8. CASE UNCHANGED vars
  BY <1>8, DropIInv DEF vars, IInv, TypeOK
<1> QED BY <1>1, <1>2, <1>3, <1>4, <1>5, <1>6, <1>7, <1>8 DEF Next, process_action_pill

(***************************************************************************)
(* The invariant holds in every reachable state.                           *)
(***************************************************************************)
LEMMA Invariant == Spec => []IInv
BY InitIInv, NextIInv, PTL DEF Spec

(***************************************************************************)
(* The pipeline is type correct.                                           *)
(***************************************************************************)
THEOREM TypeCorrect == Spec => []TypeOK
<1>1. IInv => TypeOK
  BY DEF IInv
<1> QED BY <1>1, Invariant, PTL

(***************************************************************************)
(* Only genuine commands are published, whatever arrives and whatever      *)
(* fails.                                                                  *)
(***************************************************************************)
THEOREM OnlyGenuine == Spec => []PublishedGenuine
<1>1. IInv => PublishedGenuine
  BY DEF IInv
<1> QED BY <1>1, Invariant, PTL

(***************************************************************************)
(* A capsule is published again in the same boot only after CacheSize      *)
(* others were admitted.                                                   *)
(***************************************************************************)
THEOREM NoEarlyRepeat == Spec => []PublishedApart
<1>1. IInv => PublishedApart
  BY DEF IInv
<1> QED BY <1>1, Invariant, PTL
=============================================================================
