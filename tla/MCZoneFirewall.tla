--------------------------- MODULE MCZoneFirewall ---------------------------
(***************************************************************************)
(* The zone firewall and, by itself, the device registry.  A behaviour is  *)
(* about one of them (part); the other stays as it is initially.           *)
(*                                                                         *)
(* Firewall: two tasks, two flows of two sources, one slot in every table, *)
(* rules that deny, sentence, redirect and log.                            *)
(***************************************************************************)
EXTENDS ZoneFirewall

MCKeys == {[src |-> "s1", port |-> 80], [src |-> "s2", port |-> 53]}

Shape(ports, action) ==
  [match |-> [src |-> {"s1", "s2"}, port |-> ports], priority |-> 1, action |-> action,
   expires_at_ms |-> 0]

MCShapes ==
  {Shape({80}, "DENY"), Shape({53, 80}, "QUARANTINE"), Shape({53}, "REDIRECT"),
   Shape({53}, "LOG_ONLY")}

MCDefault == [window_ms |-> 2, max_packets |-> 1, max_bytes |-> 0]

MCRate ==
  [slots |-> 1 :> [rule_id |-> 1, match |-> [src |-> {"s1"}, port |-> {53, 80}], priority |-> 1,
                   params |-> MCDefault, suggest_quarantine |-> TRUE],
   active_rules |-> 1, next_rule_id |-> 2]

MCReady == SUBSET {"policy", "quarantine"}

Symmetry == Permutations(Tasks)

-----------------------------------------------------------------------------
(***************************************************************************)
(* The device registry: two tasks, three MACs of which two have the same   *)
(* id, two addresses, two slots; a bus with one place and one listener.    *)
(***************************************************************************)
VARIABLES devices, d_stats, pending, lost, added,
  initialized, queue, listeners, dispatcher, accepted, heard

Registry == INSTANCE DeviceRegistry WITH
  stats <- d_stats, ClockMod <- 2, MaxTime <- 0, MaxWait <- 0,
  Events <- {"JOINED", "QUARANTINED"} \X {1, 2}, Callbacks <- {"cb"}, QueueLen <- 1,
  MaxListeners <- 1, MaxAccepted <- 2, Tasks <- {"t1", "t2"}, Macs <- {"m1", "m2", "m3"},
  Ips <- {"ip1", "ip2"}, IdOf <- [m \in {"m1", "m2", "m3"} |-> IF m = "m1" THEN 1 ELSE 2],
  States <- {"UNKNOWN", "QUARANTINED"}, MaxDevices <- 2, MaxAdded <- 3

ASSUME Registry!RegistryAssumption /\ Registry!BusAssumption

-----------------------------------------------------------------------------
VARIABLE part   \* what the behaviour is about

registry == <<devices, d_stats, pending, lost, added,
              initialized, queue, listeners, dispatcher, accepted, heard>>
allvars == <<vars, registry, part>>

MCInit ==
  /\ Init /\ Registry!Init
  /\ part \in {"firewall", "registry"}
  /\ part = "registry" => ready = {}

MCNext ==
  /\ UNCHANGED part
  /\ \/ part = "firewall" /\ Next /\ UNCHANGED registry
     \/ part = "registry" /\ Registry!RegistryNext /\ UNCHANGED vars

MCSpec == MCInit /\ [][MCNext]_allvars

-----------------------------------------------------------------------------
(***************************************************************************)
(* The counters of the firewall add up to its evaluations, and those of    *)
(* the registry to its records, of which a MAC has one, also when devices  *)
(* exchange addresses; everything keeps its type (ZoneFirewall,            *)
(* DeviceRegistry).                                                        *)
(***************************************************************************)
CountersAddUp ==
  IF part = "firewall" THEN TypeOK /\ VerdictsAddUp
  ELSE Registry!RegistryTypeOK /\ Registry!OneRecordPerMac

(***************************************************************************)
(* DeviceRegistry: for every record made there is one JOINED event, and    *)
(* for every device in quarantine its event: accepted by the bus, still    *)
(* with the task, or refused by a full bus (device_registry_upsert_mac_ip, *)
(* device_registry_set_state_by_ip and _by_id).                            *)
(***************************************************************************)
RecordsReported == Registry!JoinsReported /\ Registry!QuarantineReported
=============================================================================
