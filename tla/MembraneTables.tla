--------------------------- MODULE MembraneTables ---------------------------
(***************************************************************************)
(* The two tables of the membrane: the ribosome table (the devices this    *)
(* Guardian answers for, with their secrets) and the RNA templates (what a *)
(* device may be told to do).  Each is an array with a count, here a       *)
(* sequence, and each has a blob of its own in flash.                      *)
(***************************************************************************)
EXTENDS Naturals, Sequences

CONSTANTS
  Clients,       \* valid MQTT client ids
  Secrets,       \* device secrets
  ZeroSecret,    \* the secret of zero bytes
  AminoIds,      \* what an amino id field may hold
  Aminos,        \* the amino acids the Guardian knows
  MaxEntries,    \* RIBOSOME_MAX_ENTRIES
  MaxTemplates,  \* RNA_MAX_TEMPLATES
  MaxAminos,     \* RNA_TEMPLATE_MAX_AMINOS
  IdWrap,        \* 2^16: template ids are counted modulo this
  EpochMax,      \* UINT32_MAX
  Defaults,      \* RNA_DEFAULT_TEMPLATES
  NotFound       \* a flash blob that does not exist

Entries ==
  [mqtt_client_id : Clients, template_id : 0 .. IdWrap - 1, epoch : 0 .. EpochMax,
   device_secret : Secrets]

Templates == [id : 0 .. IdWrap - 1, aminos : Seq(AminoIds)]

\* Template id 0 is RNA_TEMPLATE_ID_INVALID.
entry_valid(e) == e.template_id # 0 /\ e.device_secret # ZeroSecret

rna_template_validate(t) ==
  /\ t.id # 0
  /\ Len(t.aminos) \in 1 .. MaxAminos
  /\ \A i \in DOMAIN t.aminos :
       t.aminos[i] \in Aminos /\ \A j \in 1 .. i - 1 : t.aminos[j] # t.aminos[i]

(***************************************************************************)
(* table_to_blob and blob_to_table copy a table entry by entry, with all   *)
(* the checks of an addition: a table goes to flash, and comes back, only  *)
(* if every entry is valid and no key occurs twice.                        *)
(***************************************************************************)
ribosome_blob_valid(table) ==
  /\ Len(table) <= MaxEntries
  /\ \A i \in DOMAIN table :
       /\ entry_valid(table[i])
       /\ \A j \in 1 .. i - 1 : table[j].mqtt_client_id # table[i].mqtt_client_id

rna_blob_valid(table) ==
  /\ Len(table) \in 1 .. MaxTemplates
  /\ \A i \in DOMAIN table :
       /\ rna_template_validate(table[i])
       /\ \A j \in 1 .. i - 1 : table[j].id # table[i].id

ASSUME TablesAssumption ==
  /\ ZeroSecret \in Secrets /\ Aminos \subseteq AminoIds
  /\ MaxEntries \in Nat /\ MaxTemplates \in Nat /\ MaxAminos \in Nat
  /\ IdWrap \in Nat \ {0, 1} /\ EpochMax \in Nat \ {0}
  /\ Defaults \in Seq(Templates) /\ rna_blob_valid(Defaults)
  /\ NotFound \notin Seq(Entries) /\ NotFound \notin Seq(Templates)
  /\ NotFound \notin [ribosomes : Seq(Entries), templates : Seq(Templates)]

-----------------------------------------------------------------------------
\* The devices of a ribosome table; the ids of a template table.
Devices(table) == {table[i].mqtt_client_id : i \in DOMAIN table}
TemplateIds(table) == {table[i].id : i \in DOMAIN table}

\* The scans of a table stop at the first match.
DeviceAt(table, i, c) ==
  /\ table[i].mqtt_client_id = c
  /\ \A j \in 1 .. i - 1 : table[j].mqtt_client_id # c

TemplateAt(table, i, id) ==
  table[i].id = id /\ \A j \in 1 .. i - 1 : table[j].id # id

\* rna_template_table_find does not look for the invalid id.
rna_template_table_find(table, id) == id # 0 /\ id \in TemplateIds(table)

\* When ribosome_table_add_from_config and rna_template_table_add accept an entry.
ribosome_table_takes(table, e) ==
  Len(table) < MaxEntries /\ e.mqtt_client_id \notin Devices(table) /\ entry_valid(e)

rna_template_table_takes(table, t) ==
  Len(table) < MaxTemplates /\ rna_template_validate(t) /\ t.id \notin TemplateIds(table)

\* The entries behind the removed one move up.
RemoveAt(table, i) == [k \in 1 .. Len(table) - 1 |-> table[IF k < i THEN k ELSE k + 1]]

AssignAt(table, i, id) == [table EXCEPT ![i] = [table[i] EXCEPT !.template_id = id]]

\* The epoch after the last one is 1.
RegenerateAt(table, i, secret) ==
  LET old == table[i].epoch
      epoch == IF old = EpochMax THEN 1 ELSE old + 1
  IN  [table EXCEPT ![i] = [table[i] EXCEPT !.device_secret = secret, !.epoch = epoch]]

ReplaceAt(table, i, t) == [table EXCEPT ![i] = t]

(***************************************************************************)
(* Every device has a template that exists.  A device without one is a     *)
(* device whose every command Membrane::allows refuses.                    *)
(***************************************************************************)
Whole(ribosomes, templates) ==
  \A i \in DOMAIN ribosomes :
    rna_template_table_find(templates, ribosomes[i].template_id)
=============================================================================
