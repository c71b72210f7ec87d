--------------------------- MODULE DeviceRegistry ---------------------------
(***************************************************************************)
(* The registry of devices (device_registry.c) in front of the event bus.  *)
(* Every operation changes the table under a spin lock; the event that     *)
(* tells of the change is published after the lock is given back, so that  *)
(* other tasks may come between.                                           *)
(***************************************************************************)
EXTENDS SlotTable, EventBus

CONSTANTS
  Tasks,        \* the tasks that call the registry
  Macs,         \* MAC addresses that mac_valid admits
  Ips,          \* addresses other than 0
  IdOf,         \* device_registry_make_id_from_mac: a 32-bit hash
  States,       \* device_state_t
  MaxDevices,   \* DEVICE_REGISTRY_MAX_DEVICES
  MaxAdded      \* bound on the number of records made

RegistryAssumption ==
  /\ IdOf \in [Macs -> Nat \ {0}] /\ MaxDevices \in Nat \ {0} /\ MaxAdded \in Nat
  /\ {"UNKNOWN", "QUARANTINED"} \subseteq States

NoEvent == <<>>

JoinedEvent(id) == <<"JOINED", id>>

QuarantinedEvent(id) == <<"QUARANTINED", id>>

VARIABLES
  devices,   \* s_devices
  stats,     \* active_devices, added, removed of s_stats
  pending,   \* for each task the event it is about to publish
  lost,      \* history: the events that the bus refused
  added      \* history: the ids of the records ever made, in order

vars == <<busvars, devices, stats, pending, lost, added>>

Init ==
  /\ BusInit /\ devices = EmptyTable
  /\ stats = [active_devices |-> 0, added |-> 0, removed |-> 0]
  /\ pending = [t \in Tasks |-> NoEvent]
  /\ lost = <<>> /\ added = <<>>

find_by_ip(ip) == FirstOf({i \in DOMAIN devices : devices[i].ip = ip})

find_by_mac(mac) == FirstOf({i \in DOMAIN devices : devices[i].mac = mac})

find_by_id(id) == FirstOf({i \in DOMAIN devices : devices[i].device_id = id})

\* Faulty variant: the search goes by IP only.
find_record_by_ip(mac, ip) == find_by_ip(ip)

\* The record that an address pair means: by MAC, else by IP, else none.
find_record(mac, ip) == IF find_by_mac(mac) # 0 THEN find_by_mac(mac) ELSE find_by_ip(ip)

NewRecord(mac, ip) == [device_id |-> IdOf[mac], mac |-> mac, ip |-> ip, state |-> "UNKNOWN"]

create_record(t, i, mac, ip) ==
  /\ devices' = put_slot(devices, i, NewRecord(mac, ip))
  /\ stats' = [stats EXCEPT !.active_devices = @ + 1, !.added = @ + 1]
  /\ pending' = [pending EXCEPT ![t] = JoinedEvent(IdOf[mac])]
  /\ added' = Append(added, IdOf[mac])

\* Faulty variant: the event is published for every change of address.
upsert_announcing(t, mac, ip) ==
  LET i == find_record(mac, ip)
      e == find_empty_slot(devices, MaxDevices)
  IN /\ pending[t] = NoEvent
     /\ \/ /\ i # 0
           /\ devices' = [devices EXCEPT ![i].ip = ip]
           /\ pending' = [pending EXCEPT ![t] = JoinedEvent(devices[i].device_id)]
           /\ UNCHANGED <<stats, added>>
        \/ i = 0 /\ e # 0 /\ Len(added) < MaxAdded /\ create_record(t, e, mac, ip)
     /\ UNCHANGED <<busvars, lost>>

\* Found: the address is written and nothing else.  With no slot left nothing happens.
device_registry_upsert_mac_ip(t, mac, ip) ==
  LET i == find_record(mac, ip)
      e == find_empty_slot(devices, MaxDevices)
  IN /\ pending[t] = NoEvent
     /\ \/ /\ i # 0
           /\ devices' = [devices EXCEPT ![i].ip = ip]
           /\ UNCHANGED <<stats, pending, added>>
        \/ i = 0 /\ e # 0 /\ Len(added) < MaxAdded /\ create_record(t, e, mac, ip)
     /\ UNCHANGED <<busvars, lost>>

set_state(t, i, state) ==
  /\ pending[t] = NoEvent /\ i # 0
  /\ devices' = [devices EXCEPT ![i].state = state]
  /\ pending' = [pending EXCEPT ![t] = IF state = "QUARANTINED"
                                       THEN QuarantinedEvent(devices[i].device_id)
                                       ELSE NoEvent]
  /\ UNCHANGED <<busvars, stats, lost, added>>

device_registry_set_state_by_ip(t, ip, state) == set_state(t, find_by_ip(ip), state)

device_registry_set_state_by_id(t, id, state) == set_state(t, find_by_id(id), state)

device_registry_remove_by_ip(ip) ==
  /\ find_by_ip(ip) # 0
  /\ devices' = clear_slot(devices, find_by_ip(ip))
  /\ stats' = [stats EXCEPT !.active_devices = IF @ > 0 THEN @ - 1 ELSE 0, !.removed = @ + 1]
  /\ UNCHANGED <<busvars, pending, lost, added>>

device_registry_reset ==
  /\ devices' = EmptyTable
  /\ stats' = [active_devices |-> 0, added |-> 0, removed |-> 0]
  /\ UNCHANGED <<busvars, pending, lost, added>>

\* The publication after the lock: the task has done its call when it comes back.
publish_pending(t) ==
  /\ pending[t] # NoEvent /\ Len(accepted) + Len(lost) < MaxAccepted
  /\ event_bus_publish(pending[t])
  /\ lost' = IF Room THEN lost ELSE Append(lost, pending[t])
  /\ pending' = [pending EXCEPT ![t] = NoEvent]
  /\ UNCHANGED <<devices, stats, added>>

\* Steps of the bus alone.
Bus ==
  /\ event_bus_init \/ dispatch_task \/ \E cb \in Callbacks : event_bus_subscribe(cb)
  /\ UNCHANGED <<devices, stats, pending, lost, added>>

RegistryNext ==
  \/ Bus \/ device_registry_reset
  \/ \E ip \in Ips : device_registry_remove_by_ip(ip)
  \/ \E t \in Tasks :
       \/ publish_pending(t)
       \/ \E mac \in Macs, ip \in Ips : device_registry_upsert_mac_ip(t, mac, ip)
       \/ \E ip \in Ips, state \in States : device_registry_set_state_by_ip(t, ip, state)
       \/ \E id \in Range(IdOf), state \in States : device_registry_set_state_by_id(t, id, state)

RegistrySpec == Init /\ [][RegistryNext]_vars

-----------------------------------------------------------------------------
RegistryTypeOK ==
  /\ DOMAIN devices \subseteq 1 .. MaxDevices
  /\ \A i \in DOMAIN devices :
       devices[i] \in [device_id : Range(IdOf), mac : Macs, ip : Ips, state : States]
  /\ \A t \in Tasks : pending[t] \in Events \cup {NoEvent}

(***************************************************************************)
(* A MAC has one record and the counters tell the number of records, also  *)
(* when devices exchange addresses.  An IP address may have several: a     *)
(* device found by its MAC takes an address that another record still      *)
(* holds (device_registry.c:143-171).                                      *)
(***************************************************************************)
OneRecordPerMac ==
  /\ Cardinality({devices[i].mac : i \in DOMAIN devices}) = Cardinality(DOMAIN devices)
  /\ stats.active_devices = Cardinality(DOMAIN devices)
  /\ stats.added = stats.active_devices + stats.removed

Copies(s, e) == Len(SelectSeq(s, LAMBDA x : x = e))

(***************************************************************************)
(* For every record made there is one JOINED event: accepted by the bus,   *)
(* still with the task that made the record, or refused because the bus    *)
(* was full or not started (device_registry_upsert_mac_ip).                *)
(***************************************************************************)
JoinsReported ==
  \A id \in Range(IdOf) :
    Copies(added, id) = Copies(accepted, JoinedEvent(id)) + Copies(lost, JoinedEvent(id))
                          + Cardinality({t \in Tasks : pending[t] = JoinedEvent(id)})

(***************************************************************************)
(* A device in quarantine was reported, unless the bus refused the event:  *)
(* its record was set by a task whose event is on its way                  *)
(* (device_registry_set_state_by_ip and _by_id).                           *)
(***************************************************************************)
QuarantineReported ==
  \A i \in DOMAIN devices :
    devices[i].state = "QUARANTINED" =>
      LET e == QuarantinedEvent(devices[i].device_id)
      IN e \in Range(accepted) \cup Range(lost) \cup Range(pending)
=============================================================================
