------------------------ MODULE MembraneStoreProofs ------------------------
(***************************************************************************)
(* The membrane in flash, for every set of devices and templates and every *)
(* size of the tables.                                                     *)
(***************************************************************************)
EXTENDS MembraneStore, SequenceTheorems, TLAPS

(***************************************************************************)
(* The inductive invariant.  Between the two writes of                     *)
(* device_membrane_set_post_handler the table that is still to be written  *)
(* fits the templates already in flash and has the same devices.           *)
(***************************************************************************)
Pending ==
  httpd.pc = "save_device" =>
    Whole(httpd.table, RnaTemplates) /\ Devices(httpd.table) = Devices(Ribosomes)

IInv ==
  /\ TypeOK
  /\ FlashLoads
  /\ FlashWhole
  /\ MembraneWhole
  /\ Pending

(***************************************************************************)
(* What the loads return.                                                  *)
(***************************************************************************)
LEMMA LoadsTyped ==
  ASSUME TypeOK
  PROVE  Ribosomes \in Seq(Entries) /\ RnaTemplates \in Seq(Templates)
BY TablesAssumption DEF TypeOK, Ribosomes, RnaTemplates, TablesAssumption

(***************************************************************************)
(* A table that loads again is what it was saved as.                       *)
(***************************************************************************)
LEMMA SavedRibosomes ==
  ASSUME NEW table \in Seq(Entries), ribosome_store_save(table)
  PROVE  ribosome' = table /\ Ribosomes' = table /\ RibosomesLoad'
<1>1. table # NotFound
  BY TablesAssumption DEF TablesAssumption
<1> QED BY <1>1 DEF ribosome_store_save, Ribosomes, RibosomesLoad

(***************************************************************************)
(* The same for the templates.                                             *)
(***************************************************************************)
LEMMA SavedTemplates ==
  ASSUME NEW table \in Seq(Templates), rna_membrane_save(table)
  PROVE  rna' = table /\ RnaTemplates' = table /\ RnaLoads'
<1>1. table # NotFound
  BY TablesAssumption DEF TablesAssumption
<1> QED BY <1>1 DEF rna_membrane_save, RnaTemplates, RnaLoads

(***************************************************************************)
(* A table with the templates of another one serves the same devices.      *)
(***************************************************************************)
LEMMA WholeMonotone ==
  ASSUME NEW R, NEW S, NEW T, Whole(R, S), TemplateIds(S) \subseteq TemplateIds(T)
  PROVE  Whole(R, T)
BY DEF Whole, rna_template_table_find

(***************************************************************************)
(* Adding a device with a template that exists keeps a table whole.        *)
(***************************************************************************)
LEMMA AppendWhole ==
  ASSUME NEW R \in Seq(Entries), NEW T, Whole(R, T), NEW e \in Entries,
         rna_template_table_find(T, e.template_id)
  PROVE  Append(R, e) \in Seq(Entries) /\ Whole(Append(R, e), T)
<1>1. Append(R, e) \in Seq(Entries)
  OBVIOUS
<1>2. ASSUME NEW i \in DOMAIN Append(R, e)
      PROVE  rna_template_table_find(T, Append(R, e)[i].template_id)
  <2>1. Len(R) \in Nat /\ DOMAIN R = 1 .. Len(R) /\ DOMAIN Append(R, e) = 1 .. Len(R) + 1
    OBVIOUS
  <2>2. CASE i = Len(R) + 1
    BY <2>1, <2>2
  <2>3. CASE i # Len(R) + 1
    <3>1. i \in DOMAIN R /\ Append(R, e)[i] = R[i]
      BY <2>1, <2>3
    <3> QED BY <3>1 DEF Whole
  <2> QED BY <2>2, <2>3
<1> QED BY <1>1, <1>2 DEF Whole

(***************************************************************************)
(* Removing a device keeps a table whole.                                  *)
(***************************************************************************)
LEMMA RemoveWhole ==
  ASSUME NEW R \in Seq(Entries), NEW T, Whole(R, T), NEW i \in DOMAIN R
  PROVE  RemoveAt(R, i) \in Seq(Entries) /\ Whole(RemoveAt(R, i), T)
<1> DEFINE n == Len(R)
           Q == RemoveAt(R, i)
<1>1. n \in Nat /\ DOMAIN R = 1 .. n /\ i \in 1 .. n /\ n - 1 \in Nat
  OBVIOUS
<1>2. ASSUME NEW k \in 1 .. n - 1
      PROVE  (IF k < i THEN k ELSE k + 1) \in DOMAIN R
  BY <1>1
<1>3. \A k \in 1 .. n - 1 : Q[k] = R[IF k < i THEN k ELSE k + 1] /\ Q[k] \in Entries
  BY <1>2 DEF RemoveAt
<1>4. Q = [k \in 1 .. n - 1 |-> R[IF k < i THEN k ELSE k + 1]]
  BY DEF RemoveAt
<1>5. Q \in Seq(Entries) /\ DOMAIN Q = 1 .. n - 1
  BY <1>1, <1>3, <1>4
<1>6. Whole(Q, T)
  BY <1>2, <1>3, <1>5 DEF Whole
<1> QED BY <1>5, <1>6

(***************************************************************************)
(* Assigning a template that exists keeps a table whole.                   *)
(***************************************************************************)
LEMMA AssignWhole ==
  ASSUME NEW R \in Seq(Entries), NEW T, Whole(R, T), NEW i \in DOMAIN R,
         NEW id \in 0 .. IdWrap - 1, rna_template_table_find(T, id)
  PROVE  /\ AssignAt(R, i, id) \in Seq(Entries) /\ Whole(AssignAt(R, i, id), T)
         /\ Devices(AssignAt(R, i, id)) = Devices(R)
<1> DEFINE e == [R[i] EXCEPT !.template_id = id]
<1>1. /\ R[i] \in Entries /\ e \in Entries /\ e.template_id = id
      /\ e.mqtt_client_id = R[i].mqtt_client_id
  <2>1. R[i] \in Entries
    OBVIOUS
  <2> QED BY <2>1 DEF Entries
<1> HIDE DEF e
<1>2. /\ [R EXCEPT ![i] = e] \in Seq(Entries) /\ DOMAIN [R EXCEPT ![i] = e] = DOMAIN R
      /\ \A k \in DOMAIN R : [R EXCEPT ![i] = e][k] = IF k = i THEN e ELSE R[k]
  BY <1>1
<1>3. Whole([R EXCEPT ![i] = e], T)
  BY <1>1, <1>2 DEF Whole
<1>4. Devices([R EXCEPT ![i] = e]) = Devices(R)
  BY <1>1, <1>2 DEF Devices
<1> QED BY <1>2, <1>3, <1>4 DEF AssignAt, e

(***************************************************************************)
(* Changing secret and epoch of a device keeps a table whole.              *)
(***************************************************************************)
LEMMA RegenerateWhole ==
  ASSUME NEW R \in Seq(Entries), NEW T, Whole(R, T), NEW i \in DOMAIN R,
         NEW secret \in Secrets
  PROVE  /\ RegenerateAt(R, i, secret) \in Seq(Entries)
         /\ Whole(RegenerateAt(R, i, secret), T)
         /\ Devices(RegenerateAt(R, i, secret)) = Devices(R)
<1> DEFINE epoch == IF R[i].epoch = EpochMax THEN 1 ELSE R[i].epoch + 1
           e == [R[i] EXCEPT !.device_secret = secret, !.epoch = epoch]
<1>1. /\ R[i] \in Entries /\ e \in Entries /\ e.template_id = R[i].template_id
      /\ e.mqtt_client_id = R[i].mqtt_client_id
  <2>1. R[i] \in Entries
    OBVIOUS
  <2>2. R[i].epoch \in 0 .. EpochMax
    BY <2>1 DEF Entries
  <2>3. epoch \in 0 .. EpochMax
    BY <2>2, TablesAssumption DEF TablesAssumption
  <2> HIDE DEF epoch
  <2> QED BY <2>1, <2>3 DEF Entries
<1> HIDE DEF e
<1>2. /\ [R EXCEPT ![i] = e] \in Seq(Entries) /\ DOMAIN [R EXCEPT ![i] = e] = DOMAIN R
      /\ \A k \in DOMAIN R : [R EXCEPT ![i] = e][k] = IF k = i THEN e ELSE R[k]
  BY <1>1
<1>3. Whole([R EXCEPT ![i] = e], T)
  BY <1>1, <1>2 DEF Whole
<1>4. Devices([R EXCEPT ![i] = e]) = Devices(R)
  BY <1>1, <1>2 DEF Devices
<1>5. RegenerateAt(R, i, secret) = [R EXCEPT ![i] = e]
  BY DEF e, RegenerateAt
<1> QED BY <1>2, <1>3, <1>4, <1>5

(***************************************************************************)
(* An upsert saves a table that has every template of the old one and the  *)
(* new one (rna_template_table_upsert, rna_membrane_save).                 *)
(***************************************************************************)
LEMMA UpsertSaves ==
  ASSUME TypeOK, NEW t \in Templates, Upsert(t)
  PROVE  /\ rna' \in Seq(Templates) /\ RnaLoads'
         /\ TemplateIds(RnaTemplates) \subseteq TemplateIds(RnaTemplates')
         /\ rna_template_table_find(RnaTemplates', t.id)
<1> DEFINE T == RnaTemplates
<1>1. T \in Seq(Templates) /\ Len(T) \in Nat /\ DOMAIN T = 1 .. Len(T)
  BY LoadsTyped
<1>2. t.id # 0
  BY DEF Upsert, rna_template_table_takes, rna_template_validate
<1>3. CASE rna_membrane_save(Append(T, t))
  <2> DEFINE Q == Append(T, t)
  <2>1. /\ Q \in Seq(Templates) /\ DOMAIN Q = 1 .. Len(T) + 1 /\ Q[Len(T) + 1] = t
        /\ \A k \in 1 .. Len(T) : Q[k] = T[k]
    BY <1>1
  <2>2. RnaTemplates' = Q /\ rna' = Q /\ RnaLoads'
    BY <1>3, <2>1, SavedTemplates
  <2> HIDE DEF Q
  <2>3. TemplateIds(T) \subseteq TemplateIds(Q) /\ t.id \in TemplateIds(Q)
    BY <1>1, <2>1 DEF TemplateIds
  <2> QED BY <1>2, <2>1, <2>2, <2>3 DEF rna_template_table_find
<1>4. ASSUME NEW i \in DOMAIN T, TemplateAt(T, i, t.id), rna_membrane_save(ReplaceAt(T, i, t))
      PROVE  /\ rna' \in Seq(Templates) /\ RnaLoads'
             /\ TemplateIds(RnaTemplates) \subseteq TemplateIds(RnaTemplates')
             /\ rna_template_table_find(RnaTemplates', t.id)
  <2> DEFINE Q == ReplaceAt(T, i, t)
  <2>1. /\ Q \in Seq(Templates) /\ DOMAIN Q = DOMAIN T
        /\ \A k \in DOMAIN T : Q[k] = IF k = i THEN t ELSE T[k]
    BY <1>1 DEF ReplaceAt
  <2>2. RnaTemplates' = Q /\ rna' = Q /\ RnaLoads'
    BY <1>4, <2>1, SavedTemplates
  <2> HIDE DEF Q
  <2>3. T[i].id = t.id
    BY <1>4 DEF TemplateAt
  <2>4. TemplateIds(T) \subseteq TemplateIds(Q) /\ t.id \in TemplateIds(Q)
    BY <2>1, <2>3 DEF TemplateIds
  <2> QED BY <1>2, <2>1, <2>2, <2>4 DEF rna_template_table_find
<1> QED BY <1>3, <1>4 DEF Upsert

-----------------------------------------------------------------------------
(***************************************************************************)
(* A Guardian fresh from the factory.                                      *)
(***************************************************************************)
LEMMA InitIInv == Init => IInv
<1> SUFFICES ASSUME Init PROVE IInv
  OBVIOUS
<1>1. Ribosomes = << >> /\ RnaTemplates = Defaults
  BY DEF Init, Ribosomes, RnaTemplates
<1>2. Defaults \in Seq(Templates) /\ rna_blob_valid(Defaults) /\ MaxEntries \in Nat
  BY TablesAssumption DEF TablesAssumption
<1>3. /\ << >> \in Seq(Entries) /\ DOMAIN << >> = {}
      /\ ribosome_blob_valid(<< >>) /\ Whole(<< >>, Defaults)
  BY <1>2 DEF ribosome_blob_valid, Whole
<1>4. TypeOK
  BY <1>2, <1>3 DEF Init, TypeOK, Idle
<1>5. FlashLoads /\ FlashWhole
  BY <1>1, <1>2, <1>3 DEF FlashLoads, RibosomesLoad, RnaLoads, FlashWhole
<1>6. MembraneWhole
  <2>1. membrane.ribosomes = << >> /\ membrane.templates = Defaults
    BY DEF Init
  <2>2. membrane # NotFound
    <3>1. membrane \in [ribosomes : Seq(Entries), templates : Seq(Templates)]
      BY <1>2, <1>3 DEF Init
    <3> QED BY <3>1, TablesAssumption DEF TablesAssumption
  <2> QED BY <1>3, <2>1, <2>2 DEF MembraneWhole
<1>7. Pending
  BY DEF Init, Idle, Pending
<1> QED BY <1>4, <1>5, <1>6, <1>7 DEF IInv

(***************************************************************************)
(* Saving a whole ribosome table keeps the invariant.                      *)
(***************************************************************************)
LEMMA SaveIInv ==
  ASSUME IInv, NEW table \in Seq(Entries), ribosome_store_save(table),
         Whole(table, RnaTemplates), httpd' = Idle, UNCHANGED <<rna, membrane>>
  PROVE  IInv'
<1>1. ribosome' = table /\ Ribosomes' = table /\ RibosomesLoad'
  BY SavedRibosomes
<1>2. RnaTemplates' = RnaTemplates /\ RnaLoads'
  BY DEF IInv, FlashLoads, RnaLoads, RnaTemplates
<1>3. TypeOK'
  BY <1>1 DEF IInv, TypeOK, Idle
<1>4. FlashWhole' /\ FlashLoads'
  BY <1>1, <1>2 DEF FlashWhole, FlashLoads
<1>5. MembraneWhole'
  BY DEF IInv, MembraneWhole
<1>6. Pending'
  BY DEF Pending, Idle
<1> QED BY <1>3, <1>4, <1>5, <1>6 DEF IInv

(***************************************************************************)
(* Adding a device, by either form.                                        *)
(***************************************************************************)
LEMMA AddIInv ==
  ASSUME IInv, NEW e \in Entries, AddDevice(e)
  PROVE  IInv'
<1>1. Ribosomes \in Seq(Entries)
  BY LoadsTyped DEF IInv
<1>2. Append(Ribosomes, e) \in Seq(Entries) /\ Whole(Append(Ribosomes, e), RnaTemplates)
  BY <1>1, AppendWhole DEF AddDevice, IInv, FlashWhole
<1> QED BY <1>2, SaveIInv DEF AddDevice

(***************************************************************************)
(* Giving a device a new secret.                                           *)
(***************************************************************************)
LEMMA RegenerateIInv ==
  ASSUME IInv, NEW c \in Clients, ribosome_regenerate_post_handler(c)
  PROVE  IInv' /\ Devices(Ribosomes') = Devices(Ribosomes)
<1>1. Ribosomes \in Seq(Entries)
  BY LoadsTyped DEF IInv
<1>2. PICK i \in DOMAIN Ribosomes, secret \in Secrets :
        ribosome_store_save(RegenerateAt(Ribosomes, i, secret))
  BY DEF ribosome_regenerate_post_handler
<1> DEFINE Q == RegenerateAt(Ribosomes, i, secret)
<1>3. Q \in Seq(Entries) /\ Whole(Q, RnaTemplates) /\ Devices(Q) = Devices(Ribosomes)
  BY <1>1, RegenerateWhole DEF IInv, FlashWhole
<1> HIDE DEF Q
<1>4. IInv'
  BY <1>2, <1>3, SaveIInv DEF ribosome_regenerate_post_handler, Q
<1>5. Ribosomes' = Q
  BY <1>2, <1>3, SavedRibosomes DEF Q
<1> QED BY <1>3, <1>4, <1>5

(***************************************************************************)
(* Removing a device.                                                      *)
(***************************************************************************)
LEMMA RemoveIInv ==
  ASSUME IInv, NEW c \in Clients, ribosome_remove_post_handler(c)
  PROVE  IInv'
<1>1. Ribosomes \in Seq(Entries)
  BY LoadsTyped DEF IInv
<1>2. PICK i \in DOMAIN Ribosomes : ribosome_store_save(RemoveAt(Ribosomes, i))
  BY DEF ribosome_remove_post_handler
<1>3. RemoveAt(Ribosomes, i) \in Seq(Entries) /\ Whole(RemoveAt(Ribosomes, i), RnaTemplates)
  BY <1>1, RemoveWhole DEF IInv, FlashWhole
<1> QED BY <1>2, <1>3, SaveIInv DEF ribosome_remove_post_handler

(***************************************************************************)
(* A new or changed template, whether or not a device is to be assigned.   *)
(***************************************************************************)
LEMMA UpsertIInv ==
  ASSUME IInv, NEW t \in Templates, Upsert(t),
         UNCHANGED <<ribosome, membrane>>,
         \/ httpd' = Idle
         \/ \E i \in DOMAIN Ribosomes :
              httpd' = [pc |-> "save_device", table |-> AssignAt(Ribosomes, i, t.id)]
  PROVE  IInv'
<1>1. Ribosomes \in Seq(Entries) /\ Ribosomes' = Ribosomes
  BY LoadsTyped DEF IInv, Ribosomes
<1>2. /\ rna' \in Seq(Templates) /\ RnaLoads'
      /\ TemplateIds(RnaTemplates) \subseteq TemplateIds(RnaTemplates')
      /\ rna_template_table_find(RnaTemplates', t.id)
  BY UpsertSaves DEF IInv
<1>3. Whole(Ribosomes, RnaTemplates')
  BY <1>2, WholeMonotone DEF IInv, FlashWhole
<1>4. FlashWhole' /\ FlashLoads'
  BY <1>1, <1>2, <1>3 DEF IInv, FlashWhole, FlashLoads, RibosomesLoad
<1>5. MembraneWhole'
  BY DEF IInv, MembraneWhole
<1>6. CASE httpd' = Idle
  <2>1. TypeOK' /\ Pending'
    BY <1>2, <1>6 DEF IInv, TypeOK, Pending, Idle
  <2> QED BY <1>4, <1>5, <2>1 DEF IInv
<1>7. ASSUME NEW i \in DOMAIN Ribosomes,
             httpd' = [pc |-> "save_device", table |-> AssignAt(Ribosomes, i, t.id)]
      PROVE  IInv'
  <2>1. t.id \in 0 .. IdWrap - 1
    BY DEF Templates
  <2>2. /\ AssignAt(Ribosomes, i, t.id) \in Seq(Entries)
        /\ Whole(AssignAt(Ribosomes, i, t.id), RnaTemplates')
        /\ Devices(AssignAt(Ribosomes, i, t.id)) = Devices(Ribosomes)
    BY <1>1, <1>2, <1>3, <2>1, AssignWhole
  <2>3. TypeOK'
    BY <1>2, <1>7, <2>2 DEF IInv, TypeOK
  <2>4. Pending'
    BY <1>1, <1>7, <2>2 DEF Pending
  <2> QED BY <1>4, <1>5, <2>3, <2>4 DEF IInv
<1> QED BY <1>6, <1>7

(***************************************************************************)
(* The second write of device_membrane_set_post_handler.                   *)
(***************************************************************************)
LEMMA SaveDeviceIInv ==
  ASSUME IInv, device_membrane_set_save_device
  PROVE  IInv'
<1>1. httpd.table \in Seq(Entries)
  BY DEF device_membrane_set_save_device, IInv, TypeOK
<1>2. CASE ribosome_store_save(httpd.table)
  BY <1>1, <1>2, SaveIInv DEF device_membrane_set_save_device, IInv, Pending
<1>3. CASE UNCHANGED ribosome
  <2>1. Ribosomes' = Ribosomes /\ RnaTemplates' = RnaTemplates
    BY <1>3 DEF device_membrane_set_save_device, Ribosomes, RnaTemplates
  <2>2. TypeOK'
    BY <1>3 DEF device_membrane_set_save_device, IInv, TypeOK, Idle
  <2>3. FlashLoads' /\ FlashWhole' /\ MembraneWhole' /\ Pending'
    BY <2>1 DEF device_membrane_set_save_device, IInv, FlashLoads, RibosomesLoad, RnaLoads,
                FlashWhole, MembraneWhole, Pending, Idle
  <2> QED BY <2>2, <2>3 DEF IInv
<1> QED BY <1>2, <1>3 DEF device_membrane_set_save_device

(***************************************************************************)
(* A boot on flash that is whole.                                          *)
(***************************************************************************)
LEMMA BootIInv ==
  ASSUME Boot, FlashLoads', FlashWhole',
         ribosome' \in Seq(Entries) \cup {NotFound}, rna' \in Seq(Templates) \cup {NotFound}
  PROVE  IInv'
<1>1. Ribosomes' \in Seq(Entries) /\ RnaTemplates' \in Seq(Templates)
  BY TablesAssumption DEF Ribosomes, RnaTemplates, TablesAssumption
<1>2. membrane' = [ribosomes |-> Ribosomes', templates |-> RnaTemplates']
  BY DEF Boot, FlashLoads
<1>3. TypeOK' /\ Pending'
  BY <1>1, <1>2 DEF Boot, TypeOK, Idle, Pending
<1>4. MembraneWhole'
  <2>1. membrane' # NotFound
    <3>1. membrane' \in [ribosomes : Seq(Entries), templates : Seq(Templates)]
      BY <1>1, <1>2
    <3> QED BY <3>1, TablesAssumption DEF TablesAssumption
  <2>2. membrane'.ribosomes = Ribosomes' /\ membrane'.templates = RnaTemplates'
    BY <1>2
  <2> QED BY <2>1, <2>2 DEF MembraneWhole, FlashWhole
<1> QED BY <1>3, <1>4 DEF IInv

-----------------------------------------------------------------------------
(***************************************************************************)
(* Every step keeps the invariant.                                         *)
(***************************************************************************)
LEMMA NextIInv == IInv /\ [Next]_vars => IInv'
<1> SUFFICES ASSUME IInv, [Next]_vars PROVE IInv'
  OBVIOUS
<1>1. ASSUME NEW c \in Clients, NEW raw \in RawIds, NEW epoch \in Epochs,
             NEW secret \in Secrets, ribosome_add_post_handler(c, raw, epoch, secret)
      PROVE  IInv'
  <2>1. raw % IdWrap \in 0 .. IdWrap - 1 /\ epoch \in 0 .. EpochMax
    BY TablesAssumption, FormsAssumption DEF TablesAssumption, FormsAssumption
  <2>2. [mqtt_client_id |-> c, template_id |-> raw % IdWrap, epoch |-> epoch,
         device_secret |-> secret] \in Entries
    BY <2>1 DEF Entries
  <2> QED BY <1>1, <2>2, AddIInv DEF ribosome_add_post_handler
<1>2. ASSUME NEW c \in Clients, NEW raw \in RawIds, NEW epoch \in Epochs,
             ribosome_provision_post_handler(c, raw, epoch)
      PROVE  IInv'
  <2>1. raw \in 0 .. IdWrap - 1 /\ epoch \in 0 .. EpochMax
    BY <1>2, TablesAssumption, FormsAssumption
       DEF ribosome_provision_post_handler, TablesAssumption, FormsAssumption
  <2>2. PICK secret \in Secrets :
          AddDevice([mqtt_client_id |-> c, template_id |-> raw, epoch |-> epoch,
                     device_secret |-> secret])
    BY <1>2 DEF ribosome_provision_post_handler
  <2>3. [mqtt_client_id |-> c, template_id |-> raw, epoch |-> epoch,
         device_secret |-> secret] \in Entries
    BY <2>1 DEF Entries
  <2> QED BY <2>2, <2>3, AddIInv
<1>3. CASE \E c \in Clients : ribosome_regenerate_post_handler(c)
  BY <1>3, RegenerateIInv
<1>4. CASE \E c \in Clients : ribosome_remove_post_handler(c)
  BY <1>4, RemoveIInv
<1>5. ASSUME NEW c \in Clients, NEW t \in TemplateForms,
             device_membrane_set_post_handler(c, t)
      PROVE  IInv'
  <2>1. t \in Templates
    BY FormsAssumption DEF FormsAssumption
  <2> QED BY <1>5, <2>1, UpsertIInv DEF device_membrane_set_post_handler
<1>6. ASSUME NEW t \in TemplateForms, membrane_template_set_post_handler(t)
      PROVE  IInv'
  <2>1. t \in Templates
    BY FormsAssumption DEF FormsAssumption
  <2> QED BY <1>6, <2>1, UpsertIInv DEF membrane_template_set_post_handler
<1>7. CASE device_membrane_set_save_device
  BY <1>7, SaveDeviceIInv
<1>8. CASE Restart
  <2>1. FlashLoads' /\ FlashWhole'
    BY <1>8 DEF Restart, IInv, FlashLoads, FlashWhole, RibosomesLoad, RnaLoads, Ribosomes,
                RnaTemplates
  <2> QED BY <1>8, <2>1, BootIInv DEF Restart, IInv, TypeOK
<1>9. CASE EraseFlash
  <2>1. Ribosomes' = << >> /\ RnaTemplates' = Defaults
    BY <1>9 DEF EraseFlash, Ribosomes, RnaTemplates
  <2>2. ribosome_blob_valid(<< >>) /\ Whole(<< >>, Defaults) /\ rna_blob_valid(Defaults)
    BY TablesAssumption DEF TablesAssumption, ribosome_blob_valid, Whole
  <2>3. FlashLoads' /\ FlashWhole'
    BY <2>1, <2>2 DEF FlashLoads, FlashWhole, RibosomesLoad, RnaLoads
  <2> QED BY <1>9, <2>3, BootIInv DEF EraseFlash
<1>10. CASE UNCHANGED vars
  BY <1>10 DEF vars, IInv, TypeOK, FlashLoads, FlashWhole, RibosomesLoad, RnaLoads,
               Ribosomes, RnaTemplates, MembraneWhole, Pending
<1> QED BY <1>1, <1>2, <1>3, <1>4, <1>5, <1>6, <1>7, <1>8, <1>9, <1>10 DEF Next

(***************************************************************************)
(* The invariant holds in every reachable state.                           *)
(***************************************************************************)
LEMMA Invariant == Spec => []IInv
BY InitIInv, NextIInv, PTL DEF Spec

(***************************************************************************)
(* The membrane is type correct.                                           *)
(***************************************************************************)
THEOREM TypeCorrect == Spec => []TypeOK
<1>1. IInv => TypeOK
  BY DEF IInv
<1> QED BY <1>1, Invariant, PTL

(***************************************************************************)
(* The flash never holds a table that does not load.                       *)
(***************************************************************************)
THEOREM AlwaysLoads == Spec => []FlashLoads
<1>1. IInv => FlashLoads
  BY DEF IInv
<1> QED BY <1>1, Invariant, PTL

(***************************************************************************)
(* Every device in flash has its template, whenever the power fails.       *)
(***************************************************************************)
THEOREM NoOrphanInFlash == Spec => []FlashWhole
<1>1. IInv => FlashWhole
  BY DEF IInv
<1> QED BY <1>1, Invariant, PTL

(***************************************************************************)
(* The pipeline always works on a whole membrane.                          *)
(***************************************************************************)
THEOREM NoOrphanInRam == Spec => []MembraneWhole
<1>1. IInv => MembraneWhole
  BY DEF IInv
<1> QED BY <1>1, Invariant, PTL

-----------------------------------------------------------------------------
(***************************************************************************)
(* Adding a device loses none.                                             *)
(***************************************************************************)
LEMMA AppendDevices ==
  ASSUME NEW R \in Seq(Entries), NEW e \in Entries
  PROVE  Devices(R) \subseteq Devices(Append(R, e))
<1>1. \A k \in DOMAIN R : k \in DOMAIN Append(R, e) /\ Append(R, e)[k] = R[k]
  OBVIOUS
<1> QED BY <1>1 DEF Devices

(***************************************************************************)
(* Removing an entry leaves the devices of all the others.                 *)
(***************************************************************************)
LEMMA RemoveDevices ==
  ASSUME NEW R \in Seq(Entries), NEW i \in DOMAIN R, NEW c,
         c \in Devices(R) \ Devices(RemoveAt(R, i))
  PROVE  c = R[i].mqtt_client_id
<1> DEFINE n == Len(R)
           Q == RemoveAt(R, i)
<1>1. PICK k \in DOMAIN R : c = R[k].mqtt_client_id
  BY DEF Devices
<1>2. n \in Nat /\ i \in 1 .. n /\ k \in 1 .. n
  OBVIOUS
<1>3. DOMAIN Q = 1 .. n - 1 /\ \A j \in 1 .. n - 1 : Q[j] = R[IF j < i THEN j ELSE j + 1]
  BY DEF RemoveAt
<1> HIDE DEF Q
<1>4. ASSUME k # i
      PROVE  FALSE
  <2>1. CASE k < i
    <3>1. k \in 1 .. n - 1 /\ Q[k] = R[k]
      BY <1>2, <1>3, <2>1
    <3> QED BY <1>1, <1>3, <3>1 DEF Devices, Q
  <2>2. CASE k > i
    <3>1. k - 1 \in 1 .. n - 1 /\ Q[k - 1] = R[k]
      BY <1>2, <1>3, <2>2
    <3> QED BY <1>1, <1>3, <3>1 DEF Devices, Q
  <2> QED BY <1>2, <1>4, <2>1, <2>2
<1> QED BY <1>1, <1>4

(***************************************************************************)
(* No step loses a template, and only a removal loses a device.            *)
(***************************************************************************)
THEOREM KeepsAll == Spec => NothingLost
<1> DEFINE Kept ==
             /\ TemplateIds(RnaTemplates) \subseteq TemplateIds(RnaTemplates')
             /\ \A c \in Devices(Ribosomes) \ Devices(Ribosomes') :
                  ribosome_remove_post_handler(c)
<1>1. ASSUME IInv, Next, ~EraseFlash
      PROVE  Kept
  <2> USE <1>1
  <2>1. Ribosomes \in Seq(Entries) /\ TypeOK
    BY LoadsTyped DEF IInv
  <2>2. rna' = rna => RnaTemplates' = RnaTemplates
    BY DEF RnaTemplates
  <2>3. ribosome' = ribosome => Ribosomes' = Ribosomes
    BY DEF Ribosomes
  <2>4. ASSUME NEW e \in Entries, AddDevice(e)
        PROVE  Kept
    <3>1. Append(Ribosomes, e) \in Seq(Entries) /\ ribosome_store_save(Append(Ribosomes, e))
      BY <2>1, <2>4 DEF AddDevice
    <3>2. Ribosomes' = Append(Ribosomes, e)
      BY <3>1, SavedRibosomes
    <3>3. Devices(Ribosomes) \subseteq Devices(Ribosomes')
      BY <2>1, <3>2, AppendDevices
    <3> QED BY <2>2, <2>4, <3>3 DEF AddDevice
  <2>5. ASSUME NEW c \in Clients, NEW raw \in RawIds, NEW epoch \in Epochs,
               NEW secret \in Secrets, ribosome_add_post_handler(c, raw, epoch, secret)
        PROVE  Kept
    <3>1. raw % IdWrap \in 0 .. IdWrap - 1 /\ epoch \in 0 .. EpochMax
      BY TablesAssumption, FormsAssumption DEF TablesAssumption, FormsAssumption
    <3>2. [mqtt_client_id |-> c, template_id |-> raw % IdWrap, epoch |-> epoch,
           device_secret |-> secret] \in Entries
      BY <3>1 DEF Entries
    <3> QED BY <2>4, <2>5, <3>2 DEF ribosome_add_post_handler
  <2>6. ASSUME NEW c \in Clients, NEW raw \in RawIds, NEW epoch \in Epochs,
               ribosome_provision_post_handler(c, raw, epoch)
        PROVE  Kept
    <3>1. raw \in 0 .. IdWrap - 1 /\ epoch \in 0 .. EpochMax
      BY <2>6, TablesAssumption, FormsAssumption
         DEF ribosome_provision_post_handler, TablesAssumption, FormsAssumption
    <3>2. PICK secret \in Secrets :
            AddDevice([mqtt_client_id |-> c, template_id |-> raw, epoch |-> epoch,
                       device_secret |-> secret])
      BY <2>6 DEF ribosome_provision_post_handler
    <3>3. [mqtt_client_id |-> c, template_id |-> raw, epoch |-> epoch,
           device_secret |-> secret] \in Entries
      BY <3>1 DEF Entries
    <3> QED BY <2>4, <3>2, <3>3
  <2>7. ASSUME NEW c \in Clients, ribosome_regenerate_post_handler(c)
        PROVE  Kept
    BY <2>2, <2>7, RegenerateIInv DEF ribosome_regenerate_post_handler
  <2>8. ASSUME NEW c \in Clients, ribosome_remove_post_handler(c)
        PROVE  Kept
    <3>1. PICK i \in DOMAIN Ribosomes : /\ DeviceAt(Ribosomes, i, c)
                                        /\ ribosome_store_save(RemoveAt(Ribosomes, i))
      BY <2>8 DEF ribosome_remove_post_handler
    <3>2. RemoveAt(Ribosomes, i) \in Seq(Entries)
      BY <2>1, RemoveWhole DEF IInv, FlashWhole
    <3>3. Ribosomes' = RemoveAt(Ribosomes, i)
      BY <3>1, <3>2, SavedRibosomes
    <3>4. \A d \in Devices(Ribosomes) \ Devices(Ribosomes') : d = c
      BY <2>1, <3>1, <3>3, RemoveDevices DEF DeviceAt
    <3> QED BY <2>2, <2>8, <3>4 DEF ribosome_remove_post_handler
  <2>9. ASSUME NEW t \in TemplateForms, Upsert(t), UNCHANGED ribosome
        PROVE  Kept
    <3>1. t \in Templates
      BY FormsAssumption DEF FormsAssumption
    <3> QED BY <2>1, <2>3, <2>9, <3>1, UpsertSaves
  <2>10. CASE device_membrane_set_save_device
    <3>1. httpd.table \in Seq(Entries)
      BY <2>10 DEF device_membrane_set_save_device, IInv, TypeOK
    <3>2. Devices(Ribosomes') = Devices(Ribosomes)
      BY <2>3, <2>10, <3>1, SavedRibosomes
         DEF device_membrane_set_save_device, IInv, Pending
    <3> QED BY <2>2, <2>10, <3>2 DEF device_membrane_set_save_device
  <2>11. CASE Restart
    BY <2>2, <2>3, <2>11 DEF Restart
  <2> QED BY <2>5, <2>6, <2>7, <2>8, <2>9, <2>10, <2>11
          DEF Next, device_membrane_set_post_handler, membrane_template_set_post_handler
<1>2. IInv /\ [Next]_vars => [~EraseFlash => Kept]_vars
  BY <1>1
<1> QED BY <1>2, Invariant, PTL DEF Spec, NothingLost
=============================================================================
