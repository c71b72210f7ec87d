----------------------------- MODULE MqttBroker -----------------------------
(***************************************************************************)
(* The MQTT broker (MQTT_broker.c): Mosquitto in a task of its own, the    *)
(* handlers it calls, and the publication of a command, which is made by a *)
(* local MQTT client over a socket.  Every client that is accepted, the    *)
(* local one included, is noted for the admin pages                        *)
(* (admin_server_note_mqtt_client).                                        *)
(***************************************************************************)
EXTENDS SlotTable, SequencesExt

CONSTANTS
  Clients,           \* the client ids of devices
  Local,             \* MQTT_LOCAL_PUBLISH_CLIENT_ID
  MaxSeen,           \* ADMIN_SEEN_CLIENTS_MAX
  allow_anonymous,   \* s_config.allow_anonymous; the local client has no user name
  MaxStarts,         \* bound on the broker tasks created
  MaxConnects,       \* bound on the connections of devices
  MaxPublishes       \* bound on the commands published

ASSUME BrokerAssumption ==
  /\ Local \notin Clients /\ allow_anonymous \in BOOLEAN
  /\ MaxSeen \in Nat \ {0} /\ MaxPublishes \in Nat

VARIABLES
  running,    \* s_running
  tasks,      \* for each broker task: none, starting, serving, ending
  stop_set,   \* external: mosq_broker_stop was called, and Mosquitto has not ended since
  inbox,      \* external: packets on their way to Mosquitto, in the order they came
  cut,        \* external: the last command that was begun when Mosquitto ended
  acks,       \* external: for each publication, the CONNACK in its socket
  publish,    \* the publishing task: the number of its command, and what it does next
  results,    \* what publish_to_client returned for each command
  seen,       \* s_seen_clients
  connects,   \* number of connections of devices
  handled,    \* history: the commands that handle_mosq_message was called with
  latest,     \* history: the clients accepted, each once, the latest first
  wanted      \* history: the last start answered ESP_OK, and no stop or failure came
              \* since; "late" when the broker was ending at that start

vars == <<running, tasks, stop_set, cut, inbox, acks, publish, results, seen, connects,
          handled, latest, wanted>>
brokervars == <<running, tasks, stop_set, cut, wanted>>
publishvars == <<publish, results>>

TaskIds == 1 .. MaxStarts
Commands == 1 .. MaxPublishes
Alive == {t \in TaskIds : tasks[t] # "none"}
Serving == {t \in TaskIds : tasks[t] = "serving"}
Packets == [kind : {"CONNECT"}, from : Clients] \cup [kind : {"CONNECT", "PUBLISH"}, from : Commands]

Init ==
  /\ running = FALSE /\ tasks = [t \in TaskIds |-> "none"] /\ stop_set = FALSE /\ cut = 0 /\ wanted = "no"
  /\ inbox = <<>> /\ acks = [n \in Commands |-> "none"]
  /\ publish = [n |-> 0, pc |-> "idle"] /\ results = [n \in Commands |-> "none"]
  /\ seen = EmptyTable /\ connects = 0 /\ handled = {} /\ latest = <<>>

-----------------------------------------------------------------------------
\* A broker that runs, or is ending, answers ESP_OK without a further task.
mqtt_broker_start(made) ==
  /\ \/ /\ running
        /\ wanted' = IF \E t \in Alive : stop_set \/ tasks[t] = "ending" THEN "late" ELSE "yes"
        /\ UNCHANGED <<running, tasks>>
     \/ /\ ~running /\ made
        /\ \E t \in TaskIds \ Alive : tasks' = [tasks EXCEPT ![t] = "starting"]
        /\ running' = TRUE /\ wanted' = "yes"
     \/ ~running /\ ~made /\ wanted' = "no" /\ UNCHANGED <<running, tasks>>
  /\ UNCHANGED <<stop_set, cut, inbox, acks, publishvars, seen, connects, handled, latest>>

\* Faulty variant: the stop clears s_running at once.
mqtt_broker_stop_clears ==
  /\ running
  /\ stop_set' = TRUE /\ running' = FALSE /\ wanted' = "no"
  /\ UNCHANGED <<tasks, cut, inbox, acks, publishvars, seen, connects, handled, latest>>

\* The stop does not wait for the end of Mosquitto.
mqtt_broker_stop ==
  /\ running
  /\ stop_set' = TRUE /\ wanted' = "no"
  /\ UNCHANGED <<running, tasks, cut, inbox, acks, publishvars, seen, connects, handled, latest>>

\* mosq_broker_run: a stop that came before it started to serve may be lost; it may also fail.
mosq_broker_run(t) ==
  /\ \/ tasks[t] = "starting" /\ tasks' = [tasks EXCEPT ![t] = "serving"]
        /\ stop_set' \in {stop_set, FALSE} /\ UNCHANGED <<inbox, cut, wanted>>
     \/ /\ tasks[t] = "starting" \/ (tasks[t] = "serving" /\ stop_set)
        /\ tasks' = [tasks EXCEPT ![t] = "ending"]
        /\ stop_set' = FALSE /\ inbox' = <<>> /\ cut' = publish.n /\ wanted' = "no"
  /\ UNCHANGED <<running, acks, publishvars, seen, connects, handled, latest>>

broker_task_end(t) ==
  /\ tasks[t] = "ending"
  /\ tasks' = [tasks EXCEPT ![t] = "none"]
  /\ running' = FALSE
  /\ UNCHANGED <<wanted, stop_set, cut, inbox, acks, publishvars, seen, connects, handled, latest>>

broker_task(t) == mosq_broker_run(t) \/ broker_task_end(t)

-----------------------------------------------------------------------------
IdOf(packet) == IF packet.from \in Clients THEN packet.from ELSE Local

\* A client that is new takes an empty slot, or that of the client seen longest ago.
admin_server_note_mqtt_client(s, id, now) ==
  LET known == FirstOf({i \in DOMAIN s : s[i].client_id = id})
      oldest == FirstOf({i \in DOMAIN s : \A j \in DOMAIN s : s[i].last_seen <= s[j].last_seen})
      empty == find_empty_slot(s, MaxSeen)
      slot == IF known # 0 THEN known ELSE IF empty # 0 THEN empty ELSE oldest
  IN put_slot(s, slot, [client_id |-> id, last_seen |-> now])

\* Devices have user names.
Accepted(packet) == allow_anonymous \/ packet.from \in Clients

\* esp_timer_get_time: later than at any client noted before
Now == 1 + Max({0} \cup {seen[i].last_seen : i \in DOMAIN seen})

handle_mosq_connect ==
  /\ Serving # {} /\ inbox # <<>> /\ Head(inbox).kind = "CONNECT"
  /\ LET packet == Head(inbox)
         id == IdOf(packet)
     IN /\ acks' = IF packet.from \in Commands
                   THEN [acks EXCEPT ![packet.from] = IF Accepted(packet) THEN "ok" ELSE "refused"]
                   ELSE acks
        /\ IF Accepted(packet)
           THEN /\ seen' = admin_server_note_mqtt_client(seen, id, Now)
                /\ latest' = <<id>> \o SelectSeq(latest, LAMBDA c : c # id)
           ELSE UNCHANGED <<seen, latest>>
  /\ inbox' = Tail(inbox)
  /\ UNCHANGED <<brokervars, publishvars, connects, handled>>

\* The conscience's message callback does nothing.
handle_mosq_message ==
  /\ Serving # {} /\ inbox # <<>> /\ Head(inbox).kind = "PUBLISH"
  /\ handled' = handled \cup {Head(inbox).from}
  /\ inbox' = Tail(inbox)
  /\ UNCHANGED <<brokervars, publishvars, acks, seen, connects, latest>>

\* external: a device connects
DeviceConnects(c) ==
  /\ Serving # {} /\ connects < MaxConnects
  /\ connects' = connects + 1
  /\ inbox' = Append(inbox, [kind |-> "CONNECT", from |-> c])
  /\ UNCHANGED <<brokervars, publishvars, acks, seen, handled, latest>>

-----------------------------------------------------------------------------
Return(result) ==
  /\ results' = [results EXCEPT ![publish.n] = result]
  /\ publish' = [publish EXCEPT !.pc = "idle"]

broker_publish_internal ==
  /\ publish.pc = "idle" /\ publish.n < MaxPublishes
  /\ IF running THEN publish' = [n |-> publish.n + 1, pc |-> "connect"] /\ UNCHANGED results
     ELSE /\ publish' = [n |-> publish.n + 1, pc |-> "idle"]
          /\ results' = [results EXCEPT ![publish.n + 1] = "error"]
  /\ UNCHANGED <<brokervars, inbox, acks, seen, connects, handled, latest>>

\* Faulty variant: the command is sent without waiting for the CONNACK.
send_connect_hasty ==
  /\ publish.pc = "connect"
  /\ \/ /\ Serving # {}
        /\ inbox' = inbox \o <<[kind |-> "CONNECT", from |-> publish.n],
                               [kind |-> "PUBLISH", from |-> publish.n]>>
        /\ publish' = [publish EXCEPT !.pc = "connack"] /\ UNCHANGED results
     \/ Return("error") /\ UNCHANGED inbox
  /\ UNCHANGED <<brokervars, acks, seen, connects, handled, latest>>

\* socket, connect and the CONNECT packet; any of them may fail.
local_mqtt_send_connect ==
  /\ publish.pc = "connect"
  /\ \/ /\ Serving # {}
        /\ inbox' = Append(inbox, [kind |-> "CONNECT", from |-> publish.n])
        /\ publish' = [publish EXCEPT !.pc = "connack"] /\ UNCHANGED results
     \/ Return("error") /\ UNCHANGED inbox
  /\ UNCHANGED <<brokervars, acks, seen, connects, handled, latest>>

\* Waits up to SO_RCVTIMEO; the end of the broker resets the connection.
recv_connack ==
  /\ publish.pc = "connack"
  /\ \/ /\ acks[publish.n] = "ok"
        /\ publish' = [publish EXCEPT !.pc = "send"] /\ UNCHANGED results
     \/ (acks[publish.n] # "ok" \/ cut = publish.n) /\ Return("error")
  /\ UNCHANGED <<brokervars, inbox, acks, seen, connects, handled, latest>>

\* The PUBLISH and DISCONNECT packets.  After the end of the broker they are lost.
send_publish ==
  /\ publish.pc = "send"
  /\ \/ /\ inbox' = IF cut = publish.n THEN inbox
                    ELSE Append(inbox, [kind |-> "PUBLISH", from |-> publish.n])
        /\ Return("ok")
     \/ Return("error") /\ UNCHANGED inbox
  /\ UNCHANGED <<brokervars, acks, seen, connects, handled, latest>>

local_mqtt_publish == local_mqtt_send_connect \/ recv_connack \/ send_publish

Handlers == handle_mosq_connect \/ handle_mosq_message

Next ==
  \/ \E made \in BOOLEAN : mqtt_broker_start(made)
  \/ mqtt_broker_stop
  \/ \E t \in TaskIds : broker_task(t)
  \/ Handlers
  \/ \E c \in Clients : DeviceConnects(c)
  \/ broker_publish_internal \/ local_mqtt_publish

Spec == Init /\ [][Next]_vars

(***************************************************************************)
(* The broker's task and the publishing task get to run, sockets have time *)
(* limits, and Mosquitto reads what came.                                  *)
(***************************************************************************)
FairSpec ==
  /\ Spec
  /\ \A t \in TaskIds : WF_vars(broker_task(t))
  /\ WF_vars(Handlers) /\ WF_vars(local_mqtt_publish)

-----------------------------------------------------------------------------
TypeOK ==
  /\ running \in BOOLEAN /\ stop_set \in BOOLEAN /\ cut \in 0 .. MaxPublishes
  /\ tasks \in [TaskIds -> {"none", "starting", "serving", "ending"}]
  /\ inbox \in Seq(Packets) /\ handled \subseteq Commands
  /\ acks \in [Commands -> {"none", "ok", "refused"}]
  /\ publish \in [n : 0 .. MaxPublishes, pc : {"idle", "connect", "connack", "send"}]
  /\ results \in [Commands -> {"none", "ok", "error"}]
  /\ DOMAIN seen \subseteq 1 .. MaxSeen
  /\ \A i \in DOMAIN seen : seen[i].client_id \in Clients \cup {Local}

(***************************************************************************)
(* s_running tells whether a broker task lives, and there is never a       *)
(* second one, for which the port would be taken: not even when a start    *)
(* overtakes the end of the broker that was stopped (mqtt_broker_start,    *)
(* broker_task).                                                           *)
(***************************************************************************)
RunningIsTrue == Cardinality(Alive) = IF running THEN 1 ELSE 0

(***************************************************************************)
(* After a start that answered ESP_OK the broker is there until a stop or  *)
(* a failure of its own, unless the start came while it was ending: that   *)
(* start is answered by the broker that is about to go.                    *)
(***************************************************************************)
WantedRuns == wanted = "yes" => Alive # {}

(***************************************************************************)
(* A command whose publication returned an error was not and will not be   *)
(* handled by the broker, however late the CONNACK or the broker was: the  *)
(* command may be tried again (local_mqtt_publish).                        *)
(***************************************************************************)
FailedIsNotHandled == \A n \in handled : results[n] # "error"

(***************************************************************************)
(* A command that was published without error is handled, unless Mosquitto *)
(* ended after its publication began (local_mqtt_publish, QoS 0).          *)
(***************************************************************************)
PublishedIsHandled ==
  []<>(\A n \in Commands : results[n] = "ok" => n \in handled \/ n <= cut)

(***************************************************************************)
(* The admin pages' list has the clients that connected last, as many as   *)
(* it has room for, across stops and starts of the broker.                 *)
(***************************************************************************)
SeenAreLatest ==
  {seen[i].client_id : i \in DOMAIN seen} =
    {latest[i] : i \in {j \in DOMAIN latest : j <= MaxSeen}}

(***************************************************************************)
(* What is known of the broker is true: whether it runs, whether a start   *)
(* left one, and which clients came last; and everything keeps its type    *)
(* (RunningIsTrue, WantedRuns, SeenAreLatest).                             *)
(***************************************************************************)
BrokerIsKnown == TypeOK /\ RunningIsTrue /\ WantedRuns /\ SeenAreLatest
=============================================================================
