---------------------------- MODULE MembraneStore ----------------------------
(***************************************************************************)
(* The membrane in flash and in RAM.  The handlers of the admin server     *)
(* load a table from flash, change it and save it; Membrane::init loads    *)
(* both tables at boot and the command pipeline works on that copy.  The   *)
(* handlers run one after the other in the task of the HTTP server; the    *)
(* power may fail between any two writes.  A blob is written whole or not  *)
(* at all.                                                                 *)
(*                                                                         *)
(* Every handler first checks that the admin window is open and unlocked.  *)
(* Here any form may come at any time.                                     *)
(***************************************************************************)
EXTENDS MembraneTables

CONSTANTS
  RawIds,         \* template ids as parsed from a form, 32 bits wide
  Epochs,         \* epochs that a form may hold
  TemplateForms   \* templates that a form may hold

ASSUME FormsAssumption ==
  /\ RawIds \subseteq Nat /\ Epochs \subseteq 0 .. EpochMax
  /\ TemplateForms \subseteq Templates

VARIABLES
  ribosome,  \* flash: the blob of the ribosome table
  rna,       \* flash: the blob of the RNA templates
  httpd,     \* the HTTP server's task: the table it still has to save
  membrane   \* RAM: MembraneState of the command pipeline

vars == <<ribosome, rna, httpd, membrane>>

Idle == [pc |-> "idle"]

\* ribosome_store_load_or_init and rna_membrane_load_or_init: a missing blob
\* stands for an empty table and for the default templates.
Ribosomes == IF ribosome = NotFound THEN << >> ELSE ribosome
RnaTemplates == IF rna = NotFound THEN Defaults ELSE rna

\* Faulty variant: the load refuses a full table.
RibosomesLoadBelowMax == ribosome_blob_valid(Ribosomes) /\ Len(Ribosomes) < MaxEntries

RibosomesLoad == ribosome_blob_valid(Ribosomes)

RnaLoads == rna_blob_valid(RnaTemplates)

ribosome_store_save(table) == ribosome_blob_valid(table) /\ ribosome' = table
rna_membrane_save(table) == rna_blob_valid(table) /\ rna' = table

Init ==
  /\ ribosome = NotFound
  /\ rna = NotFound
  /\ httpd = Idle
  /\ membrane = [ribosomes |-> << >>, templates |-> Defaults]

-----------------------------------------------------------------------------
(***************************************************************************)
(* The forms that change one table.  A save that fails leaves the blob as  *)
(* it was and is no step.                                                  *)
(***************************************************************************)
AddDevice(e) ==
  /\ httpd = Idle
  /\ RnaLoads /\ rna_template_table_find(RnaTemplates, e.template_id)
  /\ RibosomesLoad /\ ribosome_table_takes(Ribosomes, e)
  /\ ribosome_store_save(Append(Ribosomes, e))
  /\ UNCHANGED <<rna, httpd, membrane>>

\* The template id is cut to 16 bits before it is looked up.
ribosome_add_post_handler(c, raw, epoch, secret) ==
  AddDevice([mqtt_client_id |-> c, template_id |-> raw % IdWrap, epoch |-> epoch,
             device_secret |-> secret])

\* generate_device_secret never yields the zero secret.
ribosome_provision_post_handler(c, raw, epoch) ==
  /\ raw < IdWrap /\ epoch # 0
  /\ \E secret \in Secrets \ {ZeroSecret} :
       AddDevice([mqtt_client_id |-> c, template_id |-> raw, epoch |-> epoch,
                  device_secret |-> secret])

ribosome_regenerate_post_handler(c) ==
  /\ httpd = Idle
  /\ RibosomesLoad
  /\ \E i \in DOMAIN Ribosomes, secret \in Secrets \ {ZeroSecret} :
       /\ DeviceAt(Ribosomes, i, c)
       /\ ribosome_store_save(RegenerateAt(Ribosomes, i, secret))
  /\ UNCHANGED <<rna, httpd, membrane>>

ribosome_remove_post_handler(c) ==
  /\ httpd = Idle
  /\ RibosomesLoad
  /\ \E i \in DOMAIN Ribosomes :
       DeviceAt(Ribosomes, i, c) /\ ribosome_store_save(RemoveAt(Ribosomes, i))
  /\ UNCHANGED <<rna, httpd, membrane>>

\* rna_template_table_upsert, then rna_membrane_save
Upsert(t) ==
  \/ rna_template_table_takes(RnaTemplates, t) /\ rna_membrane_save(Append(RnaTemplates, t))
  \/ /\ rna_template_validate(t)
     /\ \E i \in DOMAIN RnaTemplates :
          /\ TemplateAt(RnaTemplates, i, t.id)
          /\ rna_membrane_save(ReplaceAt(RnaTemplates, i, t))

\* Faulty variant: a missing blob is taken for an empty table.
membrane_template_set_from_empty(t) ==
  /\ httpd = Idle
  /\ rna_template_validate(t)
  /\ IF rna = NotFound THEN rna_membrane_save(<<t>>) ELSE Upsert(t)
  /\ UNCHANGED <<ribosome, httpd, membrane>>

membrane_template_set_post_handler(t) ==
  /\ httpd = Idle
  /\ rna_template_validate(t)
  /\ RnaLoads
  /\ Upsert(t)
  /\ UNCHANGED <<ribosome, httpd, membrane>>

\* Faulty variant: the device is saved first, and the power fails.
device_membrane_set_device_first(c, t) ==
  /\ httpd = Idle
  /\ rna_template_validate(t)
  /\ RibosomesLoad /\ RnaLoads
  /\ \E i \in DOMAIN Ribosomes :
       DeviceAt(Ribosomes, i, c) /\ ribosome_store_save(AssignAt(Ribosomes, i, t.id))
  /\ UNCHANGED <<rna, httpd, membrane>>

(***************************************************************************)
(* The form that changes both tables saves the templates first.  When that *)
(* save reports an error, which it may do after the write, the device is   *)
(* not assigned.                                                           *)
(***************************************************************************)
device_membrane_set_post_handler(c, t) ==
  /\ httpd = Idle
  /\ rna_template_validate(t)
  /\ RibosomesLoad /\ RnaLoads
  /\ \E i \in DOMAIN Ribosomes :
       /\ DeviceAt(Ribosomes, i, c)
       /\ Upsert(t)
       /\ httpd' \in {Idle, [pc |-> "save_device", table |-> AssignAt(Ribosomes, i, t.id)]}
  /\ UNCHANGED <<ribosome, membrane>>

device_membrane_set_save_device ==
  /\ httpd.pc = "save_device"
  /\ ribosome_store_save(httpd.table) \/ UNCHANGED ribosome
  /\ httpd' = Idle
  /\ UNCHANGED <<rna, membrane>>

(***************************************************************************)
(* A restart, wanted or not.  If a table does not load, the boot ends with *)
(* an error and there is no pipeline.                                      *)
(***************************************************************************)
Boot ==
  /\ httpd' = Idle
  /\ membrane' = IF RibosomesLoad' /\ RnaLoads'
                 THEN [ribosomes |-> Ribosomes', templates |-> RnaTemplates']
                 ELSE NotFound

Restart == UNCHANGED <<ribosome, rna>> /\ Boot

\* config_store_init erases all of NVS when it has no free page or is of
\* another version.
EraseFlash == ribosome' = NotFound /\ rna' = NotFound /\ Boot

Next ==
  \/ \E c \in Clients :
       \/ \E raw \in RawIds, epoch \in Epochs :
            \/ \E secret \in Secrets : ribosome_add_post_handler(c, raw, epoch, secret)
            \/ ribosome_provision_post_handler(c, raw, epoch)
       \/ ribosome_regenerate_post_handler(c)
       \/ ribosome_remove_post_handler(c)
       \/ \E t \in TemplateForms : device_membrane_set_post_handler(c, t)
  \/ \E t \in TemplateForms : membrane_template_set_post_handler(t)
  \/ device_membrane_set_save_device
  \/ Restart
  \/ EraseFlash

Spec == Init /\ [][Next]_vars

-----------------------------------------------------------------------------
TypeOK ==
  /\ ribosome \in Seq(Entries) \cup {NotFound}
  /\ rna \in Seq(Templates) \cup {NotFound}
  /\ httpd \in [pc : {"idle"}] \cup [pc : {"save_device"}, table : Seq(Entries)]
  /\ membrane \in [ribosomes : Seq(Entries), templates : Seq(Templates)] \cup {NotFound}

(***************************************************************************)
(* What is in flash always loads again: the next boot gets a pipeline, and *)
(* the next form finds tables it can change (ribosome_store_load,          *)
(* rna_membrane_load, which refuse a whole blob for one bad entry).        *)
(***************************************************************************)
FlashLoads == RibosomesLoad /\ RnaLoads

(***************************************************************************)
(* Whenever the power fails, every device in flash has a template that is  *)
(* in flash (device_membrane_set_post_handler, which writes two blobs; the *)
(* other forms, which rely on no template ever being removed).             *)
(***************************************************************************)
FlashWhole == Whole(Ribosomes, RnaTemplates)

(***************************************************************************)
(* The command pipeline always has a membrane, and that one is whole.      *)
(***************************************************************************)
MembraneWhole ==
  membrane # NotFound /\ Whole(membrane.ribosomes, membrane.templates)

(***************************************************************************)
(* Unless the flash is erased, no template disappears, the defaults        *)
(* included: the first save writes them all (rna_membrane_load_or_init),   *)
(* and a device disappears only by ribosome_remove_post_handler.           *)
(***************************************************************************)
NothingLost ==
  [][~EraseFlash =>
       /\ TemplateIds(RnaTemplates) \subseteq TemplateIds(RnaTemplates')
       /\ \A c \in Devices(Ribosomes) \ Devices(Ribosomes') :
            ribosome_remove_post_handler(c)]_vars
=============================================================================
