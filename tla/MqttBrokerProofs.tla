-------------------------- MODULE MqttBrokerProofs --------------------------
(***************************************************************************)
(* That a command whose publication failed is never handled by the broker, *)
(* for any number of commands, devices and broker tasks.                   *)
(***************************************************************************)
EXTENDS MqttBroker, SequenceTheorems, TLAPS

Results == {"none", "ok", "error"}

(***************************************************************************)
(* The strengthening: a command on its way to the broker, or handled, was  *)
(* published without error; the one being published has no result yet.     *)
(***************************************************************************)
CommandsInv ==
  /\ publish \in [n : 0 .. MaxPublishes, pc : {"idle", "connect", "connack", "send"}]
  /\ results \in [Commands -> Results]
  /\ inbox \in Seq(Packets)
  /\ \A i \in 1 .. Len(inbox) :
       inbox[i].kind = "PUBLISH" => inbox[i].from \in Commands /\ results[inbox[i].from] = "ok"
  /\ handled \subseteq Commands
  /\ \A n \in handled : results[n] = "ok"
  /\ publish.pc # "idle" => publish.n \in Commands /\ results[publish.n] = "none"
  /\ \A n \in Commands : n > publish.n => results[n] = "none"

\* The invariant holds at the start.
LEMMA CommandsInit == Init => CommandsInv
BY BrokerAssumption, EmptySeq DEF Init, CommandsInv, Commands, Results, BrokerAssumption

\* What the broker leaves unread is a part of what it had.
LEMMA TailKeeps ==
  ASSUME CommandsInv, inbox # <<>>, inbox' = Tail(inbox), UNCHANGED <<publish, results>>,
         handled' \subseteq Commands, \A n \in handled' : results[n] = "ok"
  PROVE  CommandsInv'
<1>1. /\ Tail(inbox) \in Seq(Packets)
      /\ Len(Tail(inbox)) = Len(inbox) - 1 /\ Len(inbox) \in Nat \ {0}
      /\ \A i \in 1 .. Len(inbox) - 1 : Tail(inbox)[i] = inbox[i + 1]
  BY HeadTailProperties, LenProperties, EmptySeq DEF CommandsInv
<1>2. \A i \in 1 .. Len(inbox') : i + 1 \in 1 .. Len(inbox) /\ inbox'[i] = inbox[i + 1]
  BY <1>1
<1> QED BY <1>1, <1>2 DEF CommandsInv, Commands, Results

\* A packet that is not a command may come at any time.
LEMMA AppendKeeps ==
  ASSUME CommandsInv, NEW p \in Packets, inbox' = Append(inbox, p), handled' = handled,
         p.kind = "PUBLISH" => p.from \in Commands /\ results'[p.from] = "ok",
         publish' \in [n : 0 .. MaxPublishes, pc : {"idle", "connect", "connack", "send"}],
         results' \in [Commands -> Results],
         \A n \in Commands : results[n] = "ok" => results'[n] = "ok",
         publish'.pc # "idle" => publish'.n \in Commands /\ results'[publish'.n] = "none",
         \A n \in Commands : n > publish'.n => results'[n] = "none"
  PROVE  CommandsInv'
<1>1. /\ Append(inbox, p) \in Seq(Packets)
      /\ Len(Append(inbox, p)) = Len(inbox) + 1 /\ Len(inbox) \in Nat
      /\ \A i \in 1 .. Len(inbox) : Append(inbox, p)[i] = inbox[i]
      /\ Append(inbox, p)[Len(inbox) + 1] = p
  BY AppendProperties, LenProperties DEF CommandsInv
<1>2. \A i \in 1 .. Len(inbox') :
        inbox'[i].kind = "PUBLISH" => inbox'[i].from \in Commands /\ results'[inbox'[i].from] = "ok"
  <2> SUFFICES ASSUME NEW i \in 1 .. Len(inbox'), inbox'[i].kind = "PUBLISH"
               PROVE  inbox'[i].from \in Commands /\ results'[inbox'[i].from] = "ok"
    OBVIOUS
  <2>1. CASE i \in 1 .. Len(inbox)
    BY <1>1, <2>1 DEF CommandsInv
  <2>2. CASE i = Len(inbox) + 1
    BY <1>1, <2>2
  <2> QED BY <1>1, <2>1, <2>2
<1> QED BY <1>1, <1>2 DEF CommandsInv

\* The publishing task returns while nothing is sent.
LEMMA ReturnKeeps ==
  ASSUME CommandsInv, publish.pc # "idle", NEW r \in {"ok", "error"}, Return(r),
         UNCHANGED <<inbox, handled>>
  PROVE  CommandsInv'
<1>1. publish' = [n |-> publish.n, pc |-> "idle"]
  BY DEF Return, CommandsInv
<1>2. results' = [results EXCEPT ![publish.n] = r]
  BY DEF Return
<1> QED BY <1>1, <1>2 DEF CommandsInv, Commands, Results

\* A step that leaves the commands alone.
LEMMA IdleKeeps ==
  ASSUME CommandsInv, UNCHANGED <<publish, results, inbox, handled>>
  PROVE  CommandsInv'
BY DEF CommandsInv

\* Every step keeps the invariant.
LEMMA CommandsStep == CommandsInv /\ [Next]_vars => CommandsInv'
<1> SUFFICES ASSUME CommandsInv, [Next]_vars PROVE CommandsInv'
  OBVIOUS
<1>1. ASSUME NEW made \in BOOLEAN, mqtt_broker_start(made) PROVE CommandsInv'
  BY <1>1, IdleKeeps DEF mqtt_broker_start, publishvars
<1>2. CASE mqtt_broker_stop
  BY <1>2, IdleKeeps DEF mqtt_broker_stop, publishvars
<1>3. ASSUME NEW t \in TaskIds, broker_task(t) PROVE CommandsInv'
  <2>1. CASE broker_task_end(t)
    BY <2>1, IdleKeeps DEF broker_task_end, publishvars
  <2>2. CASE mosq_broker_run(t)
    <3>1. CASE inbox' = inbox
      BY <2>2, <3>1, IdleKeeps DEF mosq_broker_run, publishvars
    <3>2. CASE inbox' = <<>>
      <4>1. inbox' \in Seq(Packets) /\ Len(inbox') = 0
        BY <3>2, EmptySeq
      <4>2. UNCHANGED <<publish, results, handled>>
        BY <2>2 DEF mosq_broker_run, publishvars
      <4> QED BY <4>1, <4>2 DEF CommandsInv
    <3> QED BY <2>2, <3>1, <3>2 DEF mosq_broker_run
  <2> QED BY <1>3, <2>1, <2>2 DEF broker_task
<1>4. CASE handle_mosq_connect
  BY <1>4, TailKeeps DEF handle_mosq_connect, publishvars, CommandsInv
<1>5. CASE handle_mosq_message
  <2>1. inbox # <<>> /\ inbox' = Tail(inbox) /\ UNCHANGED <<publish, results>>
    BY <1>5 DEF handle_mosq_message, publishvars
  <2>2. Len(inbox) \in Nat \ {0} /\ Head(inbox) = inbox[1]
    BY <2>1, LenProperties, EmptySeq, HeadTailProperties DEF CommandsInv
  <2>3. Head(inbox).from \in Commands /\ results[Head(inbox).from] = "ok"
    BY <1>5, <2>2 DEF handle_mosq_message, CommandsInv
  <2>4. handled' = handled \cup {Head(inbox).from}
    BY <1>5 DEF handle_mosq_message
  <2>5. handled' \subseteq Commands /\ \A n \in handled' : results[n] = "ok"
    BY <2>3, <2>4 DEF CommandsInv
  <2> QED BY <2>1, <2>5, TailKeeps
<1>6. ASSUME NEW c \in Clients, DeviceConnects(c) PROVE CommandsInv'
  <2> DEFINE p == [kind |-> "CONNECT", from |-> c]
  <2>1. p \in Packets /\ p.kind # "PUBLISH"
    BY DEF Packets
  <2>2. inbox' = Append(inbox, p) /\ UNCHANGED <<publish, results, handled>>
    BY <1>6 DEF DeviceConnects, publishvars
  <2> HIDE DEF p
  <2> QED BY <2>1, <2>2, AppendKeeps DEF CommandsInv
<1>7. CASE broker_publish_internal
  <2>1. publish.pc = "idle" /\ publish.n \in 0 .. MaxPublishes - 1 /\ publish.n + 1 \in Commands
    BY <1>7, BrokerAssumption DEF broker_publish_internal, CommandsInv, Commands, BrokerAssumption
  <2>2. UNCHANGED <<inbox, handled>>
    BY <1>7 DEF broker_publish_internal
  <2>3. results[publish.n + 1] = "none"
    BY <2>1 DEF CommandsInv, Commands
  <2>4. CASE running
    <3>1. publish' = [n |-> publish.n + 1, pc |-> "connect"] /\ results' = results
      BY <1>7, <2>4 DEF broker_publish_internal
    <3> QED BY <2>1, <2>2, <2>3, <3>1 DEF CommandsInv, Commands
  <2>5. CASE ~running
    <3>1. /\ publish' = [n |-> publish.n + 1, pc |-> "idle"]
          /\ results' = [results EXCEPT ![publish.n + 1] = "error"]
      BY <1>7, <2>5 DEF broker_publish_internal
    <3> QED BY <2>1, <2>2, <2>3, <3>1 DEF CommandsInv, Commands, Results
  <2> QED BY <2>4, <2>5
<1>8. CASE local_mqtt_send_connect
  <2>1. publish.pc = "connect" /\ handled' = handled
    BY <1>8 DEF local_mqtt_send_connect
  <2>2. CASE Return("error") /\ UNCHANGED inbox
    BY <2>1, <2>2, ReturnKeeps
  <2>3. CASE /\ inbox' = Append(inbox, [kind |-> "CONNECT", from |-> publish.n])
             /\ publish' = [publish EXCEPT !.pc = "connack"] /\ UNCHANGED results
    <3> DEFINE p == [kind |-> "CONNECT", from |-> publish.n]
    <3>1. p \in Packets /\ p.kind # "PUBLISH"
      BY <2>1 DEF Packets, CommandsInv
    <3>2. inbox' = Append(inbox, p)
      BY <2>3
    <3>3. publish' = [n |-> publish.n, pc |-> "connack"]
      BY <2>3 DEF CommandsInv
    <3> HIDE DEF p
    <3> QED BY <2>1, <2>3, <3>1, <3>2, <3>3, AppendKeeps DEF CommandsInv
  <2> QED BY <1>8, <2>2, <2>3 DEF local_mqtt_send_connect
<1>9. CASE recv_connack
  <2>1. publish.pc = "connack" /\ UNCHANGED <<inbox, handled>>
    BY <1>9 DEF recv_connack
  <2>2. CASE Return("error")
    BY <2>1, <2>2, ReturnKeeps
  <2>3. CASE publish' = [publish EXCEPT !.pc = "send"] /\ UNCHANGED results
    <3>1. publish' = [n |-> publish.n, pc |-> "send"]
      BY <2>3 DEF CommandsInv
    <3> QED BY <2>1, <2>3, <3>1 DEF CommandsInv
  <2> QED BY <1>9, <2>2, <2>3 DEF recv_connack
<1>10. CASE send_publish
  <2>1. publish.pc = "send" /\ handled' = handled
    BY <1>10 DEF send_publish
  <2>2. CASE UNCHANGED inbox
    BY <1>10, <2>1, <2>2, ReturnKeeps DEF send_publish
  <2>3. CASE inbox' = Append(inbox, [kind |-> "PUBLISH", from |-> publish.n]) /\ Return("ok")
    <3> DEFINE p == [kind |-> "PUBLISH", from |-> publish.n]
    <3>1. p \in Packets /\ p.from = publish.n /\ publish.n \in Commands
      BY <2>1 DEF Packets, CommandsInv
    <3>2. inbox' = Append(inbox, p)
      BY <2>3
    <3>3. publish' = [n |-> publish.n, pc |-> "idle"] /\ results' = [results EXCEPT ![publish.n] = "ok"]
      BY <2>3 DEF Return, CommandsInv
    <3>4. results' \in [Commands -> Results] /\ results'[p.from] = "ok"
      BY <3>1, <3>3 DEF CommandsInv, Results
    <3>5. /\ \A n \in Commands : results[n] = "ok" => results'[n] = "ok"
          /\ \A n \in Commands : n > publish'.n => results'[n] = "none"
      BY <3>1, <3>3 DEF CommandsInv, Commands
    <3>6. publish' \in [n : 0 .. MaxPublishes, pc : {"idle", "connect", "connack", "send"}]
      BY <3>3 DEF CommandsInv
    <3> HIDE DEF p
    <3> QED BY <2>1, <3>1, <3>2, <3>3, <3>4, <3>5, <3>6, AppendKeeps
  <2> QED BY <1>10, <2>2, <2>3 DEF send_publish
<1>11. CASE UNCHANGED vars
  BY <1>11, IdleKeeps DEF vars
<1> QED BY <1>1, <1>2, <1>3, <1>4, <1>5, <1>6, <1>7, <1>8, <1>9, <1>10, <1>11
        DEF Next, Handlers, local_mqtt_publish

(***************************************************************************)
(* A command whose publication returned an error was not and will not be   *)
(* handled, whatever the order of the broker, the devices and the stops    *)
(* (local_mqtt_publish, handle_mosq_message).                              *)
(***************************************************************************)
THEOREM ErrorsAreNotHandled == Spec => []FailedIsNotHandled
<1>1. CommandsInv => FailedIsNotHandled
  BY DEF CommandsInv, FailedIsNotHandled
<1> QED BY <1>1, CommandsInit, CommandsStep, PTL DEF Spec
=============================================================================
