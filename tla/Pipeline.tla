------------------------------ MODULE Pipeline ------------------------------
(***************************************************************************)
(* What a Guardian does with an Action Pill that G2G handed on             *)
(* (ActionPipeline::process_action_pill): ask the capsule cache, validate  *)
(* the capsule, try the secrets of the known devices on the active         *)
(* substance, ask the membrane, publish the command by MQTT.               *)
(*                                                                         *)
(* The pipeline belongs to the G2G receive task.  Between its steps the    *)
(* clock goes on, the broker task may end and the Guardian may restart.    *)
(***************************************************************************)
EXTENDS Naturals, Sequences

CONSTANTS
  Digests, Zero, CacheSize, MaxAdmissions,  \* see CpCache
  Pills,        \* the pills that may be handed on
  Membranes,    \* the tables that Membrane::init may find in flash
  ClockWrap,    \* 2^32: now_ms counts milliseconds modulo this
  Faults,       \* the transient failures that may happen
  MaxBoots, MaxPublished   \* bounds on the histories

(***************************************************************************)
(* The amino acids a Guardian knows, with the type of their payload.       *)
(***************************************************************************)
ValueType ==
  [ON |-> "none", OFF |-> "none", OPEN |-> "none", CLOSE |-> "none",
   SET_SPEED |-> "int", SET_LEVEL |-> "int", READ_STATE |-> "none",
   TOGGLE |-> "none", LOCK |-> "none", UNLOCK |-> "none",
   SET_TEMPERATURE |-> "int", SET_MODE |-> "int"]

(***************************************************************************)
(* A pill is the outcome of the checks that depend on its bytes alone: the *)
(* formats of envelope and capsule, the issuer's key id, the hash of the   *)
(* active substance, the signature.  secret stands for the device secret   *)
(* and epoch that the command is sealed with.                              *)
(***************************************************************************)
PillRecords ==
  [digest : Digests, wellformed : BOOLEAN, expires_ms : Nat, issuer : BOOLEAN,
   active_matches : BOOLEAN, signed : BOOLEAN, supported : BOOLEAN, secret : STRING,
   device_id : STRING, amino : STRING, payload : {"none", "bool", "int"}]

Entries == [mqtt_client_id : STRING, secret : STRING, template_id : Nat]

ASSUME PipelineAssumption ==
  /\ Zero \in Digests /\ CacheSize \in Nat \ {0} /\ MaxAdmissions \in Nat
  /\ Pills \subseteq PillRecords
  /\ \A m \in Membranes :
       /\ m.ribosomes \in Seq(Entries)
       /\ \A t \in DOMAIN m.templates : m.templates[t] \subseteq DOMAIN ValueType
  /\ ClockWrap \in Nat \ {0} /\ MaxBoots \in Nat /\ MaxPublished \in Nat

VARIABLES
  cache, admitted,  \* Stomach::cp_cache and its history, see CpCache
  membrane,         \* Membrane::state: ribosome table and RNA templates
  now,              \* now_ms()
  broker,           \* mqtt_broker_is_running()
  rx,               \* the receive task: its place and what it holds
  boot,             \* history: number of restarts
  lapsed,           \* history: the pills whose time has passed
  published         \* history: the commands published

vars == <<cache, admitted, membrane, now, broker, rx, boot, lapsed, published>>

Stomach == INSTANCE CpCache

Idle == [pc |-> "idle"]

Boot ==
  /\ membrane' \in Membranes
  /\ now' = 0
  /\ broker' = TRUE
  /\ rx' = Idle

Init ==
  /\ Stomach!CacheInit
  /\ membrane \in Membranes
  /\ now = 0
  /\ broker = TRUE
  /\ rx = Idle
  /\ boot = 0
  /\ lapsed = {}
  /\ published = << >>

-----------------------------------------------------------------------------
Stay == UNCHANGED <<membrane, now, broker, boot, lapsed>>

Goto(pc) == rx' = [rx EXCEPT !.pc = pc]

\* Faulty variant: the digest is looked up and not entered.
seen_cp_without_add(p) ==
  /\ rx = Idle
  /\ ~Stomach!contains(p.digest)
  /\ Len(admitted) < MaxAdmissions
  /\ admitted' = Append(admitted, p.digest)
  /\ rx' = [pc |-> "validate", pill |-> p]
  /\ UNCHANGED <<cache, published>> /\ Stay

\* seen_or_add_cp.  A pill whose digest is in the cache ends here.
seen_or_add_cp(p) ==
  /\ rx = Idle
  /\ \/ /\ "hash" \in Faults \/ Stomach!contains(p.digest)
        /\ UNCHANGED <<cache, admitted, rx>>
     \/ /\ ~Stomach!contains(p.digest)
        /\ Stomach!seen_or_add(p.digest)
        /\ rx' = [pc |-> "validate", pill |-> p]
  /\ UNCHANGED published /\ Stay

\* Faulty variant: a pill expires a millisecond early.
FreshBefore(p) == now = 0 \/ now < p.expires_ms

\* A clock that shows 0 is taken for a clock that is not set.
Fresh(p) == now = 0 \/ now <= p.expires_ms

validate_basic(p) == p.wellformed /\ Fresh(p)
issuer_key_matches(p) == p.issuer
matches_active(p) == p.active_matches
verify_asymmetric(p) == p.signed

Authorized(p) ==
  validate_basic(p) /\ issuer_key_matches(p) /\ matches_active(p) /\ verify_asymmetric(p)

validate_authorized ==
  /\ rx.pc = "validate"
  /\ \/ Authorized(rx.pill) /\ Goto("digest")
     \/ (~Authorized(rx.pill) \/ "hash" \in Faults) /\ rx' = Idle
  /\ UNCHANGED <<cache, admitted, published>> /\ Stay

\* select_key_len: ChaCha20 passes the envelope check and is refused here.
select_key_len(p) == p.supported

decrypt_with_secret(entry, p) == entry.secret = p.secret

Openers(p) ==
  {i \in DOMAIN membrane.ribosomes : decrypt_with_secret(membrane.ribosomes[i], p)}

validate_command(p) ==
  p.amino \in DOMAIN ValueType /\ p.payload = ValueType[p.amino]

(***************************************************************************)
(* The entries are tried in order and the first that opens the active      *)
(* substance ends the search, whatever the command turns out to be.  A     *)
(* decryption that fails for want of memory passes for a wrong secret.     *)
(***************************************************************************)
digest_active_substance ==
  /\ rx.pc = "digest"
  /\ \/ /\ select_key_len(rx.pill) /\ validate_command(rx.pill)
        /\ \E i \in Openers(rx.pill) :
             /\ "psa" \in Faults \/ \A j \in Openers(rx.pill) : i <= j
             /\ rx' = [pc |-> "publish", pill |-> rx.pill,
                       device |-> membrane.ribosomes[i]]
     \/ /\ \/ ~select_key_len(rx.pill)
           \/ ~validate_command(rx.pill)
           \/ Openers(rx.pill) = {}
           \/ "psa" \in Faults
        /\ rx' = Idle
  /\ UNCHANGED <<cache, admitted, published>> /\ Stay

\* Membrane::allows
allows(device, p) ==
  /\ validate_command(p)
  /\ device.template_id \in DOMAIN membrane.templates
  /\ p.amino \in membrane.templates[device.template_id]

Command ==
  [pill |-> rx.pill, device |-> rx.device, boot |-> boot, place |-> Len(admitted),
   rna |-> IF rx.device.template_id \in DOMAIN membrane.templates
           THEN membrane.templates[rx.device.template_id] ELSE {}]

\* Faulty variant: the device named is not compared with the one that opened.
publish_to_any_device ==
  /\ rx.pc = "publish"
  /\ \/ /\ allows(rx.device, rx.pill)
        /\ broker
        /\ Len(published) < MaxPublished
        /\ published' = Append(published, Command)
     \/ (~allows(rx.device, rx.pill) \/ ~broker) /\ UNCHANGED published
  /\ rx' = Idle
  /\ UNCHANGED <<cache, admitted>> /\ Stay

publish_digested_command ==
  /\ rx.pc = "publish"
  /\ \/ /\ rx.pill.device_id = rx.device.mqtt_client_id
        /\ allows(rx.device, rx.pill)
        /\ broker
        /\ Len(published) < MaxPublished
        /\ published' = Append(published, Command)
     \/ /\ \/ rx.pill.device_id # rx.device.mqtt_client_id
           \/ ~allows(rx.device, rx.pill)
           \/ ~broker
           \/ "publish" \in Faults
        /\ UNCHANGED published
  /\ rx' = Idle
  /\ UNCHANGED <<cache, admitted>> /\ Stay

process_action_pill ==
  \/ \E p \in Pills : seen_or_add_cp(p)
  \/ validate_authorized
  \/ digest_active_substance
  \/ publish_digested_command

Tick ==
  /\ now' = (now + 1) % ClockWrap
  /\ lapsed' = lapsed \cup {p \in Pills : now' > p.expires_ms}
  /\ UNCHANGED <<cache, admitted, membrane, broker, rx, boot, published>>

\* mosq_broker_run returns: broker_task clears s_running and ends.
BrokerEnds ==
  /\ "broker" \in Faults /\ broker
  /\ broker' = FALSE
  /\ UNCHANGED <<cache, admitted, membrane, now, rx, boot, lapsed, published>>

Restart ==
  /\ boot < MaxBoots
  /\ boot' = boot + 1
  /\ Stomach!clear
  /\ Boot
  /\ UNCHANGED <<lapsed, published>>

Next == process_action_pill \/ Tick \/ BrokerEnds \/ Restart

Spec == Init /\ [][Next]_vars

-----------------------------------------------------------------------------
Places ==
  [pc : {"idle"}] \cup
  [pc : {"validate", "digest"}, pill : Pills] \cup
  [pc : {"publish"}, pill : Pills, device : Entries]

TypeOK ==
  /\ Stomach!CacheTypeOK
  /\ membrane \in Membranes
  /\ now \in 0 .. ClockWrap - 1
  /\ broker \in BOOLEAN
  /\ rx \in Places
  /\ boot \in Nat
  /\ lapsed \subseteq Pills
  /\ published \in Seq([pill : Pills, device : Entries, boot : Nat, place : Nat,
                        rna : SUBSET DOMAIN ValueType])

(***************************************************************************)
(* Only a genuine command is published: its capsule was signed by the      *)
(* configured issuer over this active substance, the device it names is    *)
(* the one whose secret opened it, and the RNA of that device contains its *)
(* amino acid (the whole of process_action_pill).                          *)
(***************************************************************************)
PublishedGenuine ==
  \A k \in DOMAIN published :
    LET c == published[k] IN
    /\ c.pill.signed /\ c.pill.issuer /\ c.pill.active_matches /\ c.pill.wellformed
    /\ c.device.secret = c.pill.secret
    /\ c.device.mqtt_client_id = c.pill.device_id
    /\ c.pill.amino \in c.rna

(***************************************************************************)
(* Between two publications of the same capsule without a restart, at      *)
(* least CacheSize other capsules were admitted (seen_or_add_cp before     *)
(* everything else in process_action_pill).                                *)
(***************************************************************************)
PublishedApart ==
  \A j \in DOMAIN published : \A i \in 1 .. j - 1 :
    LET a == published[i]  b == published[j] IN
    a.boot = b.boot /\ a.pill.digest = b.pill.digest => b.place - a.place > CacheSize

(***************************************************************************)
(* The claim that no command is published twice.                           *)
(***************************************************************************)
PublishedOnce ==
  \A i, j \in DOMAIN published :
    published[i].pill.digest = published[j].pill.digest => i = j

(***************************************************************************)
(* The claim that a pill whose time has passed is not let through any      *)
(* more by validate_authorized.                                            *)
(***************************************************************************)
LapsedIsRefused ==
  [][rx.pc = "validate" /\ rx'.pc = "digest" => rx.pill \notin lapsed]_vars

-----------------------------------------------------------------------------
(***************************************************************************)
(* The receive task is scheduled as long as it has something to do: its    *)
(* priority (G2G_RX_TASK_PRIO) is above that of the broker and the other   *)
(* tasks of this firmware's services, and nothing it calls waits for ever. *)
(***************************************************************************)
LiveSpec ==
  /\ Spec
  /\ WF_vars(validate_authorized)
  /\ WF_vars(digest_active_substance)
  /\ WF_vars(publish_digested_command)

Addressed(p) ==
  /\ p.wellformed /\ p.issuer /\ p.active_matches /\ p.signed /\ p.supported
  /\ validate_command(p)
  /\ Openers(p) # {}
  /\ \A i \in Openers(p) :
       /\ membrane.ribosomes[i].mqtt_client_id = p.device_id
       /\ allows(membrane.ribosomes[i], p)

(***************************************************************************)
(* Where nothing fails, a genuine pill for a device of this Guardian that  *)
(* the Stomach admits is published, unless its time passes or the Guardian *)
(* restarts on the way.                                                    *)
(***************************************************************************)
AdmittedIsPublished ==
  \A p \in Pills :
    rx.pc = "validate" /\ rx.pill = p /\ Addressed(p) ~>
      \/ \E k \in DOMAIN published : published[k].pill = p
      \/ p \in lapsed
      \/ rx = Idle /\ admitted = << >>
=============================================================================
