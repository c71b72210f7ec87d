---------------------------- MODULE G2gBleProofs ----------------------------
(***************************************************************************)
(* The BLE transport, for all sets of peers and handles, all limits and    *)
(* every interleaving of the sending task, the NimBLE host and the stop.   *)
(***************************************************************************)
EXTENDS G2gBle, TLAPS

(***************************************************************************)
(* The inductive invariant, in parts.  First the types, of the task by its *)
(* place.                                                                  *)
(***************************************************************************)
Trying == {"take", "write", "sent", "failed"}

TaskStates ==
  [pc : {"loop", "resume", "advertise"}] \cup [pc : {"scan"}, ok : BOOLEAN]
  \cup [pc : {"peer"}, to : SUBSET Peers, sent : BOOLEAN]
  \cup [pc : SendPcs, to : SUBSET Peers, peer : Peers, attempt : Nat, sent : BOOLEAN]

TxStates == [active : BOOLEAN, ok : BOOLEAN, conn : Handles \cup {NONE}, chr : BOOLEAN]
LinkStates ==
  [h : Handles, peer : Peers \cup {NONE}, out : BOOLEAN, late : BOOLEAN, ending : BOOLEAN]

FlagsTyped ==
  /\ {running, synced, advertising, scanning, resume, done, deleted, adv, scan} \subseteq BOOLEAN
  /\ {resetting, mistook, strayed, sending} \subseteq BOOLEAN
StaticsTyped == rx \in Handles \cup {NONE} /\ tx \in TxStates
HostTyped ==
  /\ connecting \in [peer : Peers, late : BOOLEAN] \cup {NONE}
  /\ event \in Events \cup {NONE} /\ limit \in Limits
LinksTyped == links \subseteq LinkStates
TaskTyped == task \in TaskStates
Typed == FlagsTyped /\ StaticsTyped /\ HostTyped /\ LinksTyped /\ TaskTyped

\* After the stop NimBLE is quiet.
Stopped ==
  ~running => links = {} /\ connecting = NONE /\ event = NONE /\ ~adv /\ ~scan

\* What a pending event says of the links and of the scan.
Reported ==
  event # NONE =>
    /\ event.type = "CONNECT" => HasLink(event.h)
    /\ event.type = "DISCONNECT" => ~HasLink(event.h)
    /\ event.type = "DISC_COMPLETE" => ~scan /\ resetting

\* A link that the attempt under way has made.
Current(l) == l.out /\ ~l.late

(***************************************************************************)
(* There is at most one link for a handle, and at most one connection, or  *)
(* attempt to connect, for the attempt under way: to the peer of the task. *)
(***************************************************************************)
OneAttempt ==
  /\ \A l, k \in links : l.h = k.h => l = k
  /\ \A l, k \in links : Current(l) /\ Current(k) => l = k
  /\ \A l \in links : Current(l) => task.pc \in Trying /\ l.peer = task.peer
  /\ connecting # NONE /\ ~connecting.late =>
       /\ task.pc \in Trying /\ connecting.peer = task.peer
       /\ \A l \in links : ~Current(l)

(***************************************************************************)
(* s_tx is in use from the end of stop_presence to the end of the attempt; *)
(* its handle is the one of a link, or of one whose end is to be reported, *)
(* and, unless a connection was taken for another, the attempt's own.      *)
(***************************************************************************)
OwnHandle ==
  /\ tx.active <=> task.pc \in Trying \cup {"connect"}
  /\ ~tx.active => tx.conn = NONE
  /\ running /\ tx.conn # NONE =>
       HasLink(tx.conn) \/ event = [type |-> "DISCONNECT", h |-> tx.conn]
  /\ ~mistook => \A l \in links : l.h = tx.conn => Current(l)

Flags == (scan => scanning) /\ (~synced => ~adv /\ ~scan)

BleInv ==
  /\ Typed /\ Stopped /\ Reported /\ OneAttempt /\ OwnHandle /\ Flags
  /\ OutboundIsEnded /\ ReceiverReleased /\ FlagsHeal /\ WrittenToPeer

\* The types say no less than the type invariant.
LEMMA TypedIsTypeOK == Typed => TypeOK
  BY DEF Typed, FlagsTyped, StaticsTyped, HostTyped, LinksTyped, TaskTyped, TypeOK, TxStates,
         LinkStates, TaskStates, SendPcs

\* The invariant holds at the start.
LEMMA BleInit == Init => BleInv
<1> SUFFICES ASSUME Init PROVE BleInv
  OBVIOUS
<1> USE BleAssumption DEF Init
<1>1. Typed
  BY Zenon DEF Typed, FlagsTyped, StaticsTyped, HostTyped, LinksTyped, TaskTyped, TxStates, TaskStates,
         NoTx, Idle
<1>2. Stopped /\ Reported /\ Flags /\ FlagsHeal /\ WrittenToPeer /\ ReceiverReleased
  BY DEF Stopped, Reported, Flags, FlagsHeal, WrittenToPeer, ReceiverReleased
<1>3. OneAttempt /\ OwnHandle /\ OutboundIsEnded
  BY DEF OneAttempt, OwnHandle, OutboundIsEnded, Trying, NoTx, Idle
<1> QED BY <1>1, <1>2, <1>3 DEF BleInv

\* What a completed procedure makes of s_tx (tx_complete).
LEMMA Completes ==
  ASSUME tx \in TxStates, NEW ok \in BOOLEAN, tx_complete(ok), done \in BOOLEAN
  PROVE  tx' \in TxStates /\ done' \in BOOLEAN /\ tx'.conn = tx.conn /\ tx'.active = tx.active
  BY Zenon DEF TxStates, tx_complete

\* The procedures of a link change neither its handle nor the use of s_tx.
LEMMA Discovers ==
  ASSUME tx \in TxStates, done \in BOOLEAN, Discoveries
  PROVE  tx' \in TxStates /\ done' \in BOOLEAN /\ tx'.conn = tx.conn /\ tx'.active = tx.active
<1>1. PICK h \in Handles : mtu_cb(h) \/ svc_disc_cb(h) \/ chr_disc_cb(h)
  BY DEF Discoveries
<1>2. CASE UNCHANGED <<tx, done>>
  BY <1>2
<1>3. CASE tx_complete(FALSE)
  BY <1>3, Completes, Zenon
<1>4. CASE tx' = [tx EXCEPT !.chr = TRUE, !.ok = TRUE] /\ done' = TRUE
  BY <1>4, Zenon DEF TxStates
<1> QED BY <1>1, <1>2, <1>3, <1>4, Zenon DEF mtu_cb, svc_disc_cb, chr_disc_cb

\* What the end of a link, a failed connection and a disconnection make of it.
LEMMA Ends ==
  ASSUME tx \in TxStates, done \in BOOLEAN, link_ends \/ connect_failed
  PROVE  tx' \in TxStates /\ done' \in BOOLEAN /\ tx'.conn = tx.conn /\ tx'.active = tx.active
<1>1. UNCHANGED <<tx, done>> \/ tx_complete(FALSE)
  BY Zenon DEF link_ends, connect_failed
<1> QED BY <1>1, Completes, Zenon

\* A pending event, by its type.
LEMMA EventTyped ==
  ASSUME event \in Events \cup {NONE}
  PROVE  /\ \A type : Event(type) => event \in Events /\ event.type = type /\ event' = NONE
         /\ event # NONE /\ event.type \in {"CONNECT", "DISCONNECT"} => event.h \in Handles
  BY DEF Events, Event

\* An event about a handle is told apart from none.
LEMMA EventIsNotNone ==
  ASSUME NEW type \in {"CONNECT", "DISCONNECT"}, NEW h \in Handles
  PROVE  [type |-> type, h |-> h] # NONE
  BY BleAssumption DEF Events

\* What is known of the task while it is with a peer, and after an attempt.
LEMMA TaskWithPeer ==
  ASSUME task \in TaskStates, task.pc \in SendPcs
  PROVE  task \in [pc : SendPcs, to : SUBSET Peers, peer : Peers, attempt : Nat, sent : BOOLEAN]
  BY DEF TaskStates, SendPcs

\* After an attempt the task waits for the next one, or goes on to the next peer.
LEMMA AfterAttempt ==
  ASSUME task \in TaskStates, task.pc \in SendPcs
  PROVE  Retry.pc \in {"wait", "peer"} /\ \A sent : NextPeer(sent).pc = "peer"
<1>1. \A sent : NextPeer(sent).pc = "peer"
  BY DEF NextPeer
<1>2. [task EXCEPT !.pc = "wait", !.attempt = @ + 1].pc = "wait"
  BY TaskWithPeer
<1> QED BY <1>1, <1>2 DEF Retry

\* The types, one part at a time: the flags,
LEMMA FlagsTypedStep == BleInv /\ [Next]_vars => FlagsTyped'
<1> SUFFICES ASSUME BleInv, [Next]_vars PROVE FlagsTyped'
  OBVIOUS
<1> USE DEF BleInv, Typed, FlagsTyped, nimble, statics, counted, history
<1>1. CASE Nimble
  <2>1. UNCHANGED <<statics, deleted, history>>
    BY <1>1 DEF Nimble
  <2>2. {adv', scan', resetting'} \subseteq BOOLEAN
    BY <1>1, Zenon DEF Nimble, connection_in, connection_out, nimble_reset
  <2> QED BY <2>1, <2>2
<1>2. CASE link_ends \/ Discoveries
  <2>1. done' \in BOOLEAN
    BY <1>2, Ends, Discovers DEF StaticsTyped
  <2> QED BY <1>2, <2>1, Zenon DEF link_ends, Discoveries
<1>3. CASE gap_event
  <2>1. done' \in BOOLEAN
    <3>1. CASE connect_failed
      BY <3>1, Ends DEF StaticsTyped
    <3>2. CASE ~connect_failed
      BY <1>3, <3>2, Zenon DEF gap_event, connect_outbound, connect_inbound, disconnect, adv_complete,
                        disc_complete
    <3> QED BY <3>1, <3>2
  <2>2. {advertising', scanning', resume', scan', mistook'} \subseteq BOOLEAN
    BY <1>3, Zenon DEF gap_event, connect_outbound, connect_inbound, connect_failed, disconnect,
                adv_complete, disc_complete, Scheduled
  <2> QED BY <1>3, <2>1, <2>2 DEF gap_event
<1>4. CASE on_reset \/ on_sync
  BY <1>4, Zenon DEF on_reset, on_sync, Scheduled
<1>5. CASE maybe_resume_presence \/ resume_presence_now \/ start_advertising \/ start_scanning
  BY <1>5, Zenon DEF maybe_resume_presence, resume_presence_now, start_advertising, start_scanning, Scheduled
<1>6. CASE tx_task_receive \/ tx_task_peer \/ wait_for_rx \/ take \/ write
  BY <1>6, Zenon DEF tx_task_receive, tx_task_peer, wait_for_rx, take, write
<1>7. CASE stop_presence \/ connect \/ end_attempt
  BY <1>7, Zenon DEF stop_presence, connect, end_attempt, Scheduled
<1>8. CASE g2g_ble_stop
  <2>1. sending' \in BOOLEAN
    BY <1>8 DEF g2g_ble_stop
  <2> QED BY <1>8, <2>1, Zenon DEF g2g_ble_stop
<1>9. CASE stop_delete \/ UNCHANGED vars
  BY <1>9, Zenon DEF stop_delete, vars
<1> QED BY <1>1, <1>2, <1>3, <1>4, <1>5, <1>6, <1>7, <1>8, <1>9 DEF Next, tx_task

\* the handles in use (s_rx_conn, s_tx),
LEMMA StaticsTypedStep == BleInv /\ [Next]_vars => StaticsTyped'
<1> SUFFICES ASSUME BleInv, [Next]_vars PROVE StaticsTyped'
  OBVIOUS
<1> USE DEF BleInv, Typed, StaticsTyped, nimble, statics, counted, history
<1>1. CASE Nimble \/ on_reset \/ on_sync
  BY <1>1 DEF Nimble, on_reset, on_sync
<1>2. CASE link_ends \/ Discoveries
  <2>1. tx' \in TxStates
    BY <1>2, Ends, Discovers DEF FlagsTyped
  <2> QED BY <1>2, <2>1, Zenon DEF link_ends, Discoveries
<1>3. CASE gap_event
  <2>1. CASE connect_outbound \/ connect_inbound
    BY <2>1, EventTyped, Zenon DEF connect_outbound, connect_inbound, HostTyped, Event, TxStates
  <2>2. CASE connect_failed
    BY <2>2, Ends, Zenon DEF FlagsTyped, connect_failed
  <2>3. CASE disconnect
    BY <2>3, Zenon DEF disconnect, TxStates
  <2>4. CASE adv_complete \/ disc_complete
    BY <2>4 DEF adv_complete, disc_complete
  <2> QED BY <1>3, <2>1, <2>2, <2>3, <2>4 DEF gap_event
<1>4. CASE tx_task
  <2>1. rx' = rx
    BY <1>4, Zenon DEF tx_task, maybe_resume_presence, resume_presence_now, start_advertising, start_scanning,
                tx_task_peer, wait_for_rx, stop_presence, connect, take, write, end_attempt
  <2>2. NoTx \in TxStates /\ [NoTx EXCEPT !.active = TRUE] \in TxStates
    BY Zenon DEF NoTx, TxStates
  <2>3. tx' \in {tx, NoTx, [NoTx EXCEPT !.active = TRUE]}
    BY <1>4, Zenon DEF tx_task, maybe_resume_presence, resume_presence_now, start_advertising, start_scanning,
                tx_task_peer, wait_for_rx, stop_presence, connect, take, write, end_attempt
  <2> QED BY <2>1, <2>2, <2>3, Zenon
<1>5. CASE tx_task_receive \/ g2g_ble_stop \/ stop_delete \/ UNCHANGED vars
  BY <1>5 DEF tx_task_receive, g2g_ble_stop, stop_delete, vars
<1> QED BY <1>1, <1>2, <1>3, <1>4, <1>5 DEF Next

\* what NimBLE has under way,
LEMMA HostTypedStep == BleInv /\ [Next]_vars => HostTyped'
<1> SUFFICES ASSUME BleInv, [Next]_vars PROVE HostTyped'
  OBVIOUS
<1> USE DEF BleInv, Typed, HostTyped, nimble, statics, counted, history
<1>1. CASE Nimble
  BY <1>1 DEF Nimble, connection_in, connection_out, nimble_reset, Events
<1>2. CASE link_ends
  <2>1. PICK l \in links : event' = [type |-> "DISCONNECT", h |-> l.h]
    BY <1>2 DEF link_ends
  <2>2. l.h \in Handles
    BY DEF LinksTyped, LinkStates
  <2>3. event' \in Events
    BY <2>1, <2>2 DEF Events
  <2> QED BY <1>2, <2>3 DEF link_ends
<1>3. CASE gap_event
  BY <1>3, Zenon DEF gap_event, connect_outbound, connect_inbound, connect_failed, disconnect, adv_complete,
              disc_complete, Event
<1>4. CASE connect
  <2>1. task.peer \in Peers
    BY <1>4, TaskWithPeer DEF connect, SendPcs, TaskTyped
  <2>2. connecting' \in {connecting, [peer |-> task.peer, late |-> FALSE]}
    BY <1>4 DEF connect
  <2>3. UNCHANGED <<event, limit>>
    BY <1>4 DEF connect
  <2>4. [peer |-> task.peer, late |-> FALSE] \in [peer : Peers, late : BOOLEAN]
    BY <2>1
  <2> QED BY <2>2, <2>3, <2>4, Zenon
<1>5. CASE end_attempt
  <2>1. connecting # NONE => [connecting EXCEPT !.late = TRUE] \in [peer : Peers, late : BOOLEAN]
    BY Zenon
  <2> QED BY <1>5, <2>1, Zenon DEF end_attempt
<1>6. CASE tx_task /\ ~connect /\ ~end_attempt
  BY <1>6, Zenon DEF tx_task, maybe_resume_presence, resume_presence_now, start_advertising, start_scanning,
              tx_task_peer, wait_for_rx, stop_presence, take, write
<1>7. CASE Discoveries \/ on_reset \/ on_sync
  BY <1>7 DEF Discoveries, on_reset, on_sync
<1>8. CASE tx_task_receive \/ g2g_ble_stop \/ stop_delete \/ UNCHANGED vars
  BY <1>8 DEF tx_task_receive, g2g_ble_stop, stop_delete, vars
<1> QED BY <1>1, <1>2, <1>3, <1>4, <1>5, <1>6, <1>7, <1>8 DEF Next

\* the links,
LEMMA LinksTypedStep == BleInv /\ [Next]_vars => LinksTyped'
<1> SUFFICES ASSUME BleInv, [Next]_vars PROVE LinksTyped'
  OBVIOUS
<1> USE DEF BleInv, Typed, LinksTyped, nimble, statics, counted, history
<1>1. CASE connection_in
  <2>1. \A h \in Handles : [h |-> h, peer |-> NONE, out |-> FALSE, late |-> FALSE, ending |-> FALSE]
                              \in LinkStates
    BY DEF LinkStates
  <2> QED BY <1>1, <2>1 DEF connection_in
<1>2. CASE connection_out
  <2>1. connecting.peer \in Peers /\ connecting.late \in BOOLEAN
    BY <1>2 DEF connection_out, HostTyped
  <2>2. \A h \in Handles : [h |-> h, peer |-> connecting.peer, out |-> TRUE, late |-> connecting.late,
                            ending |-> FALSE] \in LinkStates
    BY <2>1 DEF LinkStates
  <2> QED BY <1>2, <2>2 DEF connection_out
<1>3. CASE end_attempt
  <2>1. \A l \in links : [l EXCEPT !.ending = @ \/ l.h = tx.conn, !.late = l.out] \in LinkStates
    BY Zenon DEF LinkStates
  <2> QED BY <1>3, <2>1, Zenon DEF end_attempt
<1>4. CASE tx_task /\ ~end_attempt
  BY <1>4, Zenon DEF tx_task, maybe_resume_presence, resume_presence_now, start_advertising, start_scanning,
              tx_task_peer, wait_for_rx, stop_presence, connect, take, write
<1>5. CASE nimble_reset \/ link_ends \/ Discoveries \/ gap_event \/ on_reset \/ on_sync
  BY <1>5, Zenon DEF nimble_reset, link_ends, Discoveries, gap_event, on_reset, on_sync
<1>6. CASE tx_task_receive \/ g2g_ble_stop \/ stop_delete \/ UNCHANGED vars
  BY <1>6 DEF tx_task_receive, g2g_ble_stop, stop_delete, vars
<1> QED BY <1>1, <1>2, <1>3, <1>4, <1>5, <1>6 DEF Next, Nimble

\* and the task.
LEMMA TaskTypedStep == BleInv /\ [Next]_vars => TaskTyped'
<1> SUFFICES ASSUME BleInv, [Next]_vars PROVE TaskTyped'
  OBVIOUS
<1> USE DEF BleInv, Typed, TaskTyped
<1> DEFINE WithPeer == [pc : SendPcs, to : SUBSET Peers, peer : Peers, attempt : Nat, sent : BOOLEAN]
<1>1. CASE UNCHANGED task
  BY <1>1
<1>2. CASE maybe_resume_presence \/ resume_presence_now \/ start_advertising \/ start_scanning
  <2>1. task' \in {Idle, [pc |-> "resume"], [pc |-> "advertise"], [pc |-> "scan", ok |-> TRUE],
                   [pc |-> "scan", ok |-> FALSE]}
    BY <1>2 DEF maybe_resume_presence, resume_presence_now, start_advertising, start_scanning
  <2>2. Idle \in TaskStates /\ [pc |-> "resume"] \in TaskStates /\ [pc |-> "advertise"] \in TaskStates
    BY DEF TaskStates, Idle
  <2>3. \A ok \in BOOLEAN : [pc |-> "scan", ok |-> ok] \in TaskStates
    BY DEF TaskStates
  <2> QED BY <2>1, <2>2, <2>3, Zenon
<1>3. CASE tx_task_receive
  <2>1. limit.peers \in SUBSET Peers
    BY BleAssumption DEF HostTyped
  <2> QED BY <1>3, <2>1 DEF tx_task_receive, TaskStates
<1>4. CASE tx_task_peer
  <2>1. task \in [pc : {"peer"}, to : SUBSET Peers, sent : BOOLEAN]
    BY <1>4 DEF tx_task_peer, TaskStates, SendPcs
  <2>2. CASE task' = Idle
    BY <2>2 DEF Idle, TaskStates
  <2>3. ASSUME NEW p \in task.to, task' = [pc |-> "wait", to |-> task.to \ {p}, peer |-> p,
                                           attempt |-> 1, sent |-> task.sent]
        PROVE  task' \in WithPeer
    BY <2>1, <2>3 DEF SendPcs
  <2> QED BY <1>4, <2>2, <2>3 DEF tx_task_peer, TaskStates
<1>5. CASE wait_for_rx \/ stop_presence \/ connect \/ take \/ write \/ end_attempt
  <2>1. task.pc \in SendPcs
    BY <1>5, Zenon DEF wait_for_rx, stop_presence, connect, take, write, end_attempt, SendPcs
  <2>2. task \in WithPeer
    BY <2>1, TaskWithPeer
  <2>3. \A pc \in SendPcs : [task EXCEPT !.pc = pc] \in WithPeer
    BY <2>2
  <2>4. \A sent \in BOOLEAN : NextPeer(sent) \in [pc : {"peer"}, to : SUBSET Peers, sent : BOOLEAN]
    BY <2>2 DEF NextPeer
  <2>5. Retry \in WithPeer \cup [pc : {"peer"}, to : SUBSET Peers, sent : BOOLEAN]
    <3>1. [task EXCEPT !.pc = "wait", !.attempt = @ + 1] \in WithPeer
      <4>1. task.attempt + 1 \in Nat /\ "wait" \in SendPcs
        BY <2>2 DEF SendPcs
      <4> QED BY <2>2, <4>1, Zenon
    <3> QED BY <2>2, <2>4, <3>1 DEF Retry
  <2>6. \/ \E pc \in SendPcs : Goto(pc)
        \/ task' = Retry \/ task' = NextPeer(task.sent) \/ task' = NextPeer(TRUE)
    BY <1>5, Zenon DEF wait_for_rx, stop_presence, connect, take, write, end_attempt, SendPcs
  <2> QED BY <2>2, <2>3, <2>4, <2>5, <2>6, Zenon DEF Goto, TaskStates
<1>6. CASE Nimble \/ link_ends \/ Discoveries \/ gap_event \/ on_reset \/ on_sync
  BY <1>6, <1>1, Zenon DEF Nimble, link_ends, Discoveries, gap_event, on_reset, on_sync
<1>7. CASE g2g_ble_stop \/ stop_delete \/ UNCHANGED vars
  BY <1>7, <1>1 DEF g2g_ble_stop, stop_delete, vars
<1> QED BY <1>2, <1>3, <1>4, <1>5, <1>6, <1>7 DEF Next, tx_task

-----------------------------------------------------------------------------
\* The link of a handle is the only one.
LEMMA LinkOf ==
  ASSUME OneAttempt, NEW l \in links
  PROVE  HasLink(l.h) /\ Link(l.h) = l
<1>1. HasLink(l.h)
  BY DEF HasLink
<1>2. Link(l.h) \in links /\ Link(l.h).h = l.h
  BY <1>1 DEF HasLink, Link
<1> QED BY <1>1, <1>2 DEF OneAttempt

\* A handle in use has its link.
LEMMA LinkFound ==
  ASSUME NEW h, HasLink(h)
  PROVE  Link(h) \in links /\ Link(h).h = h
  BY DEF HasLink, Link

\* A connection comes about with a handle that is not in use, or it fails.
LEMMA Connects ==
  ASSUME connection_in \/ connection_out
  PROVE  \/ UNCHANGED links /\ event' = [type |-> "CONNECT_FAILED"]
         \/ \E k : /\ links' = links \cup {k} /\ k.h \in Handles /\ ~HasLink(k.h)
                   /\ event' = [type |-> "CONNECT", h |-> k.h]
                   /\ k.out => /\ connecting # NONE /\ connecting' = NONE
                               /\ k.peer = connecting.peer /\ k.late = connecting.late
<1>1. CASE connection_in
  <2>1. PICK h \in Handles :
          /\ ~HasLink(h)
          /\ links' = links \cup {[h |-> h, peer |-> NONE, out |-> FALSE, late |-> FALSE,
                                   ending |-> FALSE]}
          /\ event' = [type |-> "CONNECT", h |-> h]
    BY <1>1 DEF connection_in
  <2> DEFINE k == [h |-> h, peer |-> NONE, out |-> FALSE, late |-> FALSE, ending |-> FALSE]
  <2>2. k.h = h /\ ~k.out /\ links' = links \cup {k}
    BY <2>1
  <2> HIDE DEF k
  <2> QED BY <2>1, <2>2
<1>2. CASE connection_out
  <2>1. CASE UNCHANGED links /\ event' = [type |-> "CONNECT_FAILED"]
    BY <2>1
  <2>2. ASSUME NEW h \in Handles, ~HasLink(h),
               links' = links \cup {[h |-> h, peer |-> connecting.peer, out |-> TRUE,
                                     late |-> connecting.late, ending |-> FALSE]},
               event' = [type |-> "CONNECT", h |-> h]
        PROVE  \E k : /\ links' = links \cup {k} /\ k.h \in Handles /\ ~HasLink(k.h)
                      /\ event' = [type |-> "CONNECT", h |-> k.h]
                      /\ k.out => /\ connecting # NONE /\ connecting' = NONE
                                  /\ k.peer = connecting.peer /\ k.late = connecting.late
    <3> DEFINE k == [h |-> h, peer |-> connecting.peer, out |-> TRUE, late |-> connecting.late,
                     ending |-> FALSE]
    <3>1. k.h = h /\ k.peer = connecting.peer /\ k.late = connecting.late /\ links' = links \cup {k}
      BY <2>2
    <3>2. connecting # NONE /\ connecting' = NONE
      BY <1>2 DEF connection_out
    <3> HIDE DEF k
    <3> QED BY <2>2, <3>1, <3>2
  <2> QED BY <1>2, <2>1, <2>2 DEF connection_out
<1> QED BY <1>1, <1>2

\* The end of an attempt leaves the links as they are, but marked.
LEMMA EndsAttempt ==
  ASSUME LinksTyped, OneAttempt, end_attempt
  PROVE  /\ \A k \in links' : ~Current(k)
         /\ \A k \in links' : \E l \in links :
              k.h = l.h /\ k.out = l.out /\ (l.ending \/ l.h = tx.conn => k.ending)
         /\ \A h : HasLink(h)' <=> HasLink(h)
         /\ \A k, m \in links' : k.h = m.h => k = m
<1> DEFINE Ended(l) == [l EXCEPT !.ending = @ \/ l.h = tx.conn, !.late = l.out]
<1>1. links' = {Ended(l) : l \in links}
  BY Zenon DEF end_attempt
<1>2. \A l \in links : /\ Ended(l).h = l.h /\ Ended(l).out = l.out /\ Ended(l).late = l.out
                       /\ l.ending \/ l.h = tx.conn => Ended(l).ending
  BY Zenon DEF LinksTyped, LinkStates
<1> HIDE DEF Ended
<1>3. \A k \in links' : ~Current(k)
  BY <1>1, <1>2 DEF Current
<1>4. \A k, m \in links' : k.h = m.h => k = m
  BY <1>1, <1>2 DEF OneAttempt
<1>5. \A h : HasLink(h)' <=> HasLink(h)
  BY <1>1, <1>2 DEF HasLink
<1> QED BY <1>1, <1>2, <1>3, <1>4, <1>5

\* Nothing starts once g2g_ble_stop has cleared s_running.
LEMMA StoppedStep == BleInv /\ [Next]_vars => Stopped'
<1> SUFFICES ASSUME BleInv, [Next]_vars PROVE Stopped'
  OBVIOUS
<1> USE DEF BleInv, Stopped, nimble, statics
<1>1. CASE Nimble \/ link_ends \/ Discoveries
  BY <1>1, Zenon DEF Nimble, connection_in, connection_out, nimble_reset, link_ends, Discoveries, HostIdle
<1>2. CASE gap_event
  BY <1>2 DEF gap_event, connect_outbound, connect_inbound, connect_failed, disconnect, adv_complete,
              disc_complete, Event
<1>3. CASE on_reset \/ on_sync
  BY <1>3 DEF on_reset, on_sync
<1>4. CASE maybe_resume_presence \/ resume_presence_now \/ start_advertising \/ start_scanning
  BY <1>4 DEF maybe_resume_presence, resume_presence_now, start_advertising, start_scanning, CallWorks
<1>5. CASE tx_task_receive \/ tx_task_peer \/ wait_for_rx \/ take \/ write
  BY <1>5, Zenon DEF tx_task_receive, tx_task_peer, wait_for_rx, take, write
<1>6. CASE stop_presence \/ connect \/ end_attempt
  BY <1>6, Zenon DEF stop_presence, connect, end_attempt, CallWorks
<1>7. CASE g2g_ble_stop \/ stop_delete \/ UNCHANGED vars
  BY <1>7 DEF g2g_ble_stop, stop_delete, vars
<1> QED BY <1>1, <1>2, <1>3, <1>4, <1>5, <1>6, <1>7 DEF Next, tx_task

\* A pending event stays true of the links: one event is pending at a time.
LEMMA ReportedStep == BleInv /\ [Next]_vars => Reported'
<1> SUFFICES ASSUME BleInv, [Next]_vars PROVE Reported'
  OBVIOUS
<1> USE DEF BleInv, Reported, nimble
<1>1. CASE Nimble
  <2>1. CASE connection_in \/ connection_out
    BY <2>1, Connects DEF HasLink
  <2>2. CASE nimble_reset
    BY <2>2 DEF nimble_reset, HostIdle
  <2> QED BY <1>1, <2>1, <2>2 DEF Nimble
<1>2. CASE link_ends
  <2>1. PICK l \in links : links' = links \ {l} /\ event' = [type |-> "DISCONNECT", h |-> l.h]
    BY <1>2 DEF link_ends
  <2>2. ~HasLink(l.h)'
    BY <2>1 DEF HasLink, OneAttempt
  <2> QED BY <2>1, <2>2
<1>3. CASE gap_event \/ g2g_ble_stop
  BY <1>3, Zenon DEF gap_event, connect_outbound, connect_inbound, connect_failed, disconnect, adv_complete,
              disc_complete, Event, g2g_ble_stop
<1>4. CASE on_reset \/ on_sync
  BY <1>4 DEF on_reset, on_sync, HostIdle
<1>5. CASE start_advertising \/ start_scanning \/ connect
  BY <1>5 DEF start_advertising, start_scanning, connect, CallWorks, HasLink
<1>6. CASE stop_presence
  BY <1>6 DEF stop_presence, HasLink
<1>7. CASE end_attempt
  <2>1. UNCHANGED <<event, scan, resetting>>
    BY <1>7, Zenon DEF end_attempt
  <2> QED BY <1>7, <2>1, EndsAttempt, Zenon DEF Typed
<1>8. CASE UNCHANGED <<event, scan, resetting, links>>
  BY <1>8 DEF HasLink
<1> QED BY <1>1, <1>2, <1>3, <1>4, <1>5, <1>6, <1>7, <1>8, Zenon
        DEF Next, tx_task, Discoveries, maybe_resume_presence, resume_presence_now, tx_task_receive,
            tx_task_peer, wait_for_rx, take, write, stop_delete, vars

\* An attempt ends, or its connection is late, before the next one begins.
LEMMA OneAttemptStep == BleInv /\ [Next]_vars => OneAttempt'
<1> SUFFICES ASSUME BleInv, [Next]_vars PROVE OneAttempt'
  OBVIOUS
<1> USE DEF BleInv, OneAttempt, nimble
<1>1. CASE Nimble
  <2>1. task' = task
    BY <1>1 DEF Nimble
  <2>2. connecting' \in {connecting, NONE}
    BY <1>1 DEF Nimble, connection_in, connection_out, nimble_reset
  <2>3. CASE UNCHANGED links
    BY <2>1, <2>2, <2>3 DEF Current
  <2>4. ASSUME NEW k, links' = links \cup {k}, ~HasLink(k.h),
               k.out => /\ connecting # NONE /\ connecting' = NONE
                        /\ k.peer = connecting.peer /\ k.late = connecting.late
        PROVE  OneAttempt'
    <3>1. \A l \in links : l.h # k.h
      BY <2>4 DEF HasLink
    <3>2. Current(k) => /\ connecting' = NONE /\ task.pc \in Trying /\ k.peer = task.peer
                        /\ \A l \in links : ~Current(l)
      BY <2>4 DEF Current
    <3>3. \A l, m \in links' : l.h = m.h => l = m
      BY <2>4, <3>1
    <3>4. \A l, m \in links' : Current(l) /\ Current(m) => l = m
      BY <2>4, <3>2
    <3>5. \A l \in links' : Current(l) => task.pc \in Trying /\ l.peer = task.peer
      BY <2>4, <3>2
    <3>6. connecting' # NONE /\ ~connecting'.late =>
            task.pc \in Trying /\ connecting'.peer = task.peer /\ \A l \in links' : ~Current(l)
      BY <2>2, <2>4, <3>2
    <3> QED BY <2>1, <3>3, <3>4, <3>5, <3>6 DEF Current
  <2>5. CASE nimble_reset
    BY <2>3, <2>5, Zenon DEF nimble_reset
  <2> QED BY <1>1, <2>3, <2>4, <2>5, Connects, Zenon DEF Nimble
<1>2. CASE link_ends
  BY <1>2, Zenon DEF link_ends, Current
<1>3. CASE connect /\ connecting' # connecting
  <2>1. UNCHANGED links /\ \A l \in links : ~Current(l)
    BY <1>3, Zenon DEF connect, Trying
  <2>2. connecting' = [peer |-> task.peer, late |-> FALSE] /\ Goto("take")
    BY <1>3 DEF connect
  <2>3. task.pc \in SendPcs
    BY <1>3 DEF connect, SendPcs
  <2>4. task'.pc = "take" /\ task'.peer = task.peer
    BY <2>2, <2>3, TaskWithPeer DEF Goto, Typed, TaskTyped
  <2>5. connecting'.peer = task.peer
    BY <2>2
  <2> QED BY <2>1, <2>4, <2>5 DEF Current, Trying
<1>4. CASE end_attempt
  <2>1. connecting' # NONE => connecting'.late
    BY <1>4, Zenon DEF end_attempt, Typed, HostTyped
  <2> QED BY <1>4, <2>1, EndsAttempt, Zenon DEF Typed, Current
<1>5. CASE take \/ write
  <2>1. \E pc \in Trying : Goto(pc)
    BY <1>5, Zenon DEF take, write, Trying
  <2>2. task.pc \in SendPcs /\ task.pc \in Trying
    BY <1>5 DEF take, write, SendPcs, Trying
  <2>3. task'.pc \in Trying /\ task'.peer = task.peer
    BY <2>1, <2>2, TaskWithPeer DEF Goto, Typed, TaskTyped
  <2>4. UNCHANGED <<links, connecting>>
    BY <1>5 DEF take, write
  <2> QED BY <2>3, <2>4 DEF Current
<1>6. CASE g2g_ble_stop
  BY <1>6, Zenon DEF g2g_ble_stop
<1>7. CASE UNCHANGED <<links, connecting>> /\ (task.pc \notin Trying \/ UNCHANGED task)
  BY <1>7 DEF Current
<1>8. CASE Discoveries \/ gap_event \/ on_reset \/ on_sync \/ stop_delete \/ UNCHANGED vars
  BY <1>7, <1>8, Zenon DEF Discoveries, gap_event, on_reset, on_sync, stop_delete, vars
<1>9. CASE \/ maybe_resume_presence \/ resume_presence_now \/ start_advertising \/ start_scanning
           \/ tx_task_receive \/ tx_task_peer \/ wait_for_rx \/ stop_presence
           \/ (connect /\ connecting' = connecting)
  <2>1. UNCHANGED <<links, connecting>>
    BY <1>9, Zenon DEF maybe_resume_presence, resume_presence_now, start_advertising, start_scanning,
                tx_task_receive, tx_task_peer, wait_for_rx, stop_presence, connect
  <2>2. task.pc \notin Trying
    BY <1>9, Zenon DEF maybe_resume_presence, resume_presence_now, start_advertising, start_scanning,
                tx_task_receive, tx_task_peer, wait_for_rx, stop_presence, connect, Trying
  <2> QED BY <1>7, <2>1, <2>2, Zenon
<1> QED BY <1>1, <1>2, <1>3, <1>4, <1>5, <1>6, <1>8, <1>9, Zenon DEF Next, tx_task

\* The attempt takes over its own connection, and gives up its handle with it.
LEMMA OwnHandleStep == BleInv /\ [Next]_vars => OwnHandle'
<1> SUFFICES ASSUME BleInv, [Next]_vars PROVE OwnHandle'
  OBVIOUS
<1> USE DEF BleInv, OwnHandle, nimble, statics, history
<1>1. CASE Nimble
  <2>1. UNCHANGED <<task, tx, running, mistook>>
    BY <1>1, Zenon DEF Nimble
  <2>2. event = NONE
    BY <1>1, Zenon DEF Nimble, connection_in, connection_out, nimble_reset, HostIdle
  <2>3. running /\ tx.conn # NONE => HasLink(tx.conn)
    BY <2>2, EventIsNotNone DEF Typed, StaticsTyped, TxStates
  <2>4. CASE UNCHANGED links
    BY <2>1, <2>3, <2>4 DEF HasLink, Current
  <2>5. ASSUME NEW k, links' = links \cup {k}, k.h \in Handles, ~HasLink(k.h)
        PROVE  OwnHandle'
    <3>1. running /\ k.h # NONE
      BY <1>1, <2>5, BleAssumption, Zenon DEF Nimble, connection_in, connection_out, nimble_reset, HostIdle
    <3>2. running /\ tx.conn # NONE => HasLink(tx.conn)'
      BY <2>1, <2>3, <2>5, Zenon DEF HasLink
    <3>3. k.h # tx.conn
      BY <2>3, <2>5, <3>1
    <3>4. ~mistook => \A l \in links' : l.h = tx.conn => Current(l)
      BY <2>5, <3>3
    <3> QED BY <2>1, <3>2, <3>4 DEF Current
  <2>6. CASE nimble_reset
    BY <2>4, <2>6, Zenon DEF nimble_reset
  <2> QED BY <1>1, <2>4, <2>5, <2>6, Connects, Zenon DEF Nimble
<1>2. CASE link_ends
  <2>1. PICK l \in links : links' = links \ {l} /\ event' = [type |-> "DISCONNECT", h |-> l.h]
    BY <1>2, Zenon DEF link_ends
  <2>2. tx'.conn = tx.conn /\ tx'.active = tx.active
    BY <1>2, Ends, Zenon DEF Typed, FlagsTyped, StaticsTyped
  <2>3. UNCHANGED <<task, running, mistook>>
    BY <1>2, Zenon DEF link_ends
  <2>4. running /\ tx.conn # NONE => HasLink(tx.conn)
    BY <1>2, EventIsNotNone, Zenon DEF link_ends, HostIdle, Typed, StaticsTyped, TxStates
  <2>5. running /\ tx.conn # NONE => HasLink(tx.conn)' \/ event' = [type |-> "DISCONNECT", h |-> tx.conn]
    BY <2>1, <2>2, <2>4 DEF HasLink
  <2> QED BY <2>1, <2>2, <2>3, <2>5, Zenon DEF Current
<1>3. CASE Discoveries
  <2>1. tx'.conn = tx.conn /\ tx'.active = tx.active
    BY <1>3, Discovers DEF Typed, FlagsTyped, StaticsTyped
  <2>2. UNCHANGED <<task, running, mistook, links, event>>
    BY <1>3, Zenon DEF Discoveries
  <2> QED BY <2>1, <2>2 DEF HasLink, Current
<1>4. CASE gap_event
  <2>1. UNCHANGED <<task, running, links>>
    BY <1>4, Zenon DEF gap_event
  <2>2. CASE connect_outbound
    <3>1. tx'.conn = event.h /\ tx'.active = tx.active
      BY <2>2, Zenon DEF connect_outbound, Typed, StaticsTyped, TxStates
    <3>2. HasLink(event.h)
      BY <2>2 DEF connect_outbound, Event, Reported
    <3>3. ~mistook' => Current(Link(event.h))
      BY <2>2, Zenon DEF connect_outbound, Current, Typed, FlagsTyped
    <3>4. ~mistook' => \A l \in links : l.h = event.h => Current(l)
      BY <3>3, LinkOf, Zenon
    <3>5. tx.active
      BY <2>2 DEF connect_outbound
    <3> QED BY <2>1, <3>1, <3>2, <3>4, <3>5 DEF HasLink, Current
  <2>3. CASE connect_inbound \/ adv_complete \/ disc_complete
    <3>1. UNCHANGED tx
      BY <2>3, Zenon DEF connect_inbound, adv_complete, disc_complete
    <3>2. mistook => mistook'
      BY <2>3, Zenon DEF connect_inbound, adv_complete, disc_complete
    <3>3. event # NONE /\ event.type # "DISCONNECT"
      BY <2>3, Zenon DEF connect_inbound, adv_complete, disc_complete, Event
    <3>4. running /\ tx.conn # NONE => HasLink(tx.conn)
      BY <3>3
    <3> QED BY <2>1, <3>1, <3>2, <3>4 DEF HasLink, Current
  <2>4. CASE connect_failed
    <3>1. tx'.conn = tx.conn /\ tx'.active = tx.active /\ UNCHANGED mistook
      BY <2>4, Ends, Zenon DEF connect_failed, Typed, FlagsTyped, StaticsTyped
    <3>2. event # NONE /\ event.type # "DISCONNECT"
      BY <2>4, Zenon DEF connect_failed, Event
    <3>3. running /\ tx.conn # NONE => HasLink(tx.conn)
      BY <3>2
    <3> QED BY <2>1, <3>1, <3>3, Zenon DEF HasLink, Current
  <2>5. CASE disconnect
    <3>1. CASE tx.active /\ tx.conn = event.h
      <4>1. tx'.conn = NONE /\ tx'.active = tx.active /\ tx.active
        BY <2>5, <3>1, Zenon DEF disconnect, Typed, StaticsTyped, TxStates
      <4>2. \A l \in links : l.h # NONE
        BY BleAssumption DEF Typed, LinksTyped, LinkStates
      <4> QED BY <2>1, <4>1, <4>2, Zenon
    <3>2. CASE ~(tx.active /\ tx.conn = event.h)
      <4>1. UNCHANGED <<tx, mistook>>
        BY <2>5, <3>2 DEF disconnect
      <4>2. running /\ tx.conn # NONE => HasLink(tx.conn)
        BY <3>2
      <4> QED BY <2>1, <4>1, <4>2 DEF HasLink, Current
    <3> QED BY <3>1, <3>2, Zenon
  <2> QED BY <1>4, <2>2, <2>3, <2>4, <2>5, Zenon DEF gap_event
<1>5. CASE /\ UNCHANGED <<tx, links, event, running, mistook>>
           /\ task'.pc \in Trying \cup {"connect"} <=> task.pc \in Trying \cup {"connect"}
  BY <1>5 DEF HasLink, Current
<1>6. CASE on_reset \/ on_sync \/ stop_delete \/ UNCHANGED vars
  BY <1>5, <1>6, Zenon DEF on_reset, on_sync, stop_delete, vars
<1>7. CASE \/ maybe_resume_presence \/ resume_presence_now \/ start_advertising \/ start_scanning
           \/ tx_task_receive \/ tx_task_peer \/ wait_for_rx
  <2>1. UNCHANGED <<tx, links, event, running, mistook>>
    BY <1>7, Zenon DEF maybe_resume_presence, resume_presence_now, start_advertising, start_scanning,
                tx_task_receive, tx_task_peer, wait_for_rx
  <2>2. task.pc \in {"loop", "resume", "advertise", "scan", "peer", "wait"}
    BY <1>7, Zenon DEF maybe_resume_presence, resume_presence_now, start_advertising, start_scanning,
                tx_task_receive, tx_task_peer, wait_for_rx
  <2>3. task'.pc \in {"loop", "resume", "advertise", "scan", "peer", "wait", "prepare"}
    <3>1. CASE wait_for_rx
      <4>1. task.pc \in SendPcs
        BY <3>1, Zenon DEF wait_for_rx, SendPcs
      <4>2. [task EXCEPT !.pc = "prepare"].pc = "prepare"
        BY <4>1, TaskWithPeer DEF Typed, TaskTyped
      <4> QED BY <3>1, <4>1, <4>2, AfterAttempt, Zenon DEF wait_for_rx, Goto, Typed, TaskTyped
    <3>2. CASE maybe_resume_presence \/ resume_presence_now \/ start_advertising \/ start_scanning
      <4>1. task' \in {Idle, [pc |-> "resume"], [pc |-> "advertise"], [pc |-> "scan", ok |-> TRUE],
                       [pc |-> "scan", ok |-> FALSE]}
        BY <3>2, Zenon DEF maybe_resume_presence, resume_presence_now, start_advertising, start_scanning
      <4> QED BY <4>1 DEF Idle
    <3>3. CASE tx_task_receive
      <4>1. PICK to : task' = [pc |-> "peer", to |-> to, sent |-> FALSE]
        BY <3>3, Zenon DEF tx_task_receive
      <4> QED BY <4>1, Zenon
    <3>4. CASE tx_task_peer
      <4>1. \/ task' = Idle
            \/ \E p : task' = [pc |-> "wait", to |-> task.to \ {p}, peer |-> p, attempt |-> 1,
                               sent |-> task.sent]
        BY <3>4, Zenon DEF tx_task_peer
      <4> QED BY <4>1 DEF Idle
    <3> QED BY <1>7, <3>1, <3>2, <3>3, <3>4
  <2> QED BY <1>5, <2>1, <2>2, <2>3, Zenon DEF Trying
<1>8. CASE take \/ write
  <2>1. UNCHANGED <<tx, links, event, running, mistook>>
    BY <1>8, Zenon DEF take, write
  <2>2. task.pc \in SendPcs /\ task.pc \in Trying
    BY <1>8 DEF take, write, SendPcs, Trying
  <2>3. \E pc \in Trying : Goto(pc)
    BY <1>8 DEF take, write, Trying
  <2>4. task'.pc \in Trying
    BY <2>2, <2>3, TaskWithPeer DEF Goto, Typed, TaskTyped
  <2> QED BY <1>5, <2>1, <2>2, <2>4, Zenon
<1>9. CASE stop_presence \/ connect \/ end_attempt
  <2>1. UNCHANGED <<event, running, mistook>>
    BY <1>9, Zenon DEF stop_presence, connect, end_attempt
  <2>2. task.pc \in SendPcs
    BY <1>9, Zenon DEF stop_presence, connect, end_attempt, SendPcs
  <2>3. \A l \in links' : l.h # NONE
    BY LinksTypedStep, BleAssumption, Zenon DEF LinksTyped, LinkStates
  <2>4. \A pc : Goto(pc) => task'.pc = pc
    BY <2>2, TaskWithPeer DEF Goto, Typed, TaskTyped
  <2>5. CASE stop_presence
    <3>1. tx'.active /\ tx'.conn = NONE
      BY <2>5 DEF stop_presence, NoTx
    <3>2. task'.pc = "connect"
      BY <2>4, <2>5 DEF stop_presence
    <3> QED BY <2>3, <3>1, <3>2, Zenon
  <2>6. CASE connect /\ Goto("take") /\ UNCHANGED tx
    BY <1>5, <2>1, <2>4, <2>6, Zenon DEF connect, Trying
  <2>7. CASE tx' = NoTx /\ (task' = Retry \/ task' = NextPeer(TRUE))
    <3>1. ~tx'.active /\ tx'.conn = NONE
      BY <2>7, Zenon DEF NoTx
    <3>2. task'.pc \in {"wait", "peer"}
      BY <2>2, <2>7, AfterAttempt, Zenon DEF Typed, TaskTyped
    <3> QED BY <2>3, <3>1, <3>2, Zenon DEF Trying
  <2> QED BY <1>9, <2>5, <2>6, <2>7, Zenon DEF connect, end_attempt
<1>10. CASE g2g_ble_stop
  BY <1>10, Zenon DEF g2g_ble_stop
<1> QED BY <1>1, <1>2, <1>3, <1>4, <1>6, <1>7, <1>8, <1>9, <1>10, Zenon DEF Next, tx_task

\* A scan that runs is flagged, and an unsynced host neither scans nor advertises.
LEMMA FlagsStep == BleInv /\ [Next]_vars => Flags'
<1> SUFFICES ASSUME BleInv, [Next]_vars PROVE Flags'
  OBVIOUS
<1> USE DEF BleInv, Flags, nimble, statics
<1>1. CASE Nimble \/ link_ends \/ Discoveries
  <2>1. UNCHANGED <<synced, scanning>>
    BY <1>1, Zenon DEF Nimble, link_ends, Discoveries
  <2>2. (adv' => adv) /\ (scan' => scan)
    <3>1. CASE connection_in \/ connection_out
      <4>1. (adv' = adv \/ adv' = FALSE) /\ scan' = scan
        BY <3>1 DEF connection_in, connection_out
      <4> QED BY <4>1
    <3>2. CASE nimble_reset
      BY <3>2 DEF nimble_reset
    <3>3. CASE link_ends \/ Discoveries
      <4>1. adv' = adv /\ scan' = scan
        BY <3>3, Zenon DEF link_ends, Discoveries
      <4> QED BY <4>1
    <3> QED BY <1>1, <3>1, <3>2, <3>3 DEF Nimble
  <2> QED BY <2>1, <2>2
<1>2. CASE gap_event
  <2>1. UNCHANGED <<synced, adv>>
    BY <1>2 DEF gap_event
  <2>2. CASE connect_outbound \/ connect_failed \/ disconnect \/ adv_complete
    <3>1. UNCHANGED <<scan, scanning>>
      BY <2>2, Zenon DEF connect_outbound, connect_failed, disconnect, adv_complete
    <3> QED BY <2>1, <3>1
  <2>3. CASE connect_inbound
    <3>1. ~scanning' /\ ~scan'
      BY <2>3 DEF connect_inbound
    <3> QED BY <2>1, <3>1
  <2>4. CASE disc_complete
    <3>1. ~scan /\ UNCHANGED scan
      BY <2>4 DEF disc_complete, Event, Reported
    <3> QED BY <2>1, <3>1
  <2> QED BY <1>2, <2>2, <2>3, <2>4 DEF gap_event
<1>3. CASE on_reset \/ on_sync
  BY <1>3 DEF on_reset, on_sync, HostIdle
<1>4. CASE start_advertising
  <2>1. UNCHANGED <<synced, scanning, scan>>
    BY <1>4 DEF start_advertising
  <2>2. ~synced => UNCHANGED adv
    BY <1>4 DEF start_advertising
  <2> QED BY <2>1, <2>2
<1>5. CASE start_scanning
  <2>1. UNCHANGED <<synced, adv>>
    BY <1>5 DEF start_scanning
  <2>2. UNCHANGED <<scan, scanning>> \/ (synced /\ scanning')
    BY <1>5 DEF start_scanning
  <2> QED BY <2>1, <2>2
<1>6. CASE stop_presence
  <2>1. UNCHANGED synced /\ ~scan' /\ (adv' => adv)
    BY <1>6 DEF stop_presence
  <2> QED BY <2>1
<1>7. CASE UNCHANGED <<synced, adv, scan, scanning>>
  BY <1>7
<1>8. CASE \/ maybe_resume_presence \/ resume_presence_now \/ tx_task_receive \/ tx_task_peer
           \/ wait_for_rx \/ connect \/ take \/ write \/ end_attempt
  BY <1>7, <1>8, Zenon DEF maybe_resume_presence, resume_presence_now, tx_task_receive, tx_task_peer,
                    wait_for_rx, connect, take, write, end_attempt
<1>9. CASE stop_delete \/ UNCHANGED vars
  BY <1>7, <1>9 DEF stop_delete, vars
<1>10. CASE g2g_ble_stop
  <2>1. ~adv' /\ ~scan'
    BY <1>10 DEF g2g_ble_stop
  <2> QED BY <2>1
<1> QED BY <1>1, <1>2, <1>3, <1>4, <1>5, <1>6, <1>8, <1>9, <1>10 DEF Next, tx_task

\* Every exit of send_batch_to_peer ends the link it has made, or leaves it to gap_event.
LEMMA OutboundIsEndedStep == BleInv /\ [Next]_vars => OutboundIsEnded'
<1> SUFFICES ASSUME BleInv, [Next]_vars, ~mistook'
             PROVE  (\A l \in links : l.out => Unreported(l) \/ l.ending \/ (tx.active /\ l.h = tx.conn))'
  BY DEF OutboundIsEnded
<1> USE DEF BleInv, OutboundIsEnded, Unreported, nimble, statics, history
<1>1. CASE Nimble
  <2>1. UNCHANGED <<tx, mistook>>
    BY <1>1, Zenon DEF Nimble
  <2>2. event = NONE
    BY <1>1, Zenon DEF Nimble, connection_in, connection_out, nimble_reset, HostIdle
  <2>3. CASE UNCHANGED links
    BY <2>1, <2>2, <2>3
  <2>4. ASSUME NEW k, links' = links \cup {k}, k.h \in Handles, event' = [type |-> "CONNECT", h |-> k.h]
        PROVE  (\A l \in links : l.out => Unreported(l) \/ l.ending \/ (tx.active /\ l.h = tx.conn))'
    <3>1. event' # NONE /\ event'.type = "CONNECT" /\ event'.h = k.h
      BY <2>4, EventIsNotNone
    <3> QED BY <2>1, <2>2, <2>4, <3>1, Zenon
  <2>5. CASE nimble_reset
    BY <2>3, <2>5 DEF nimble_reset
  <2> QED BY <1>1, <2>3, <2>4, <2>5, Connects, Zenon DEF Nimble
<1>2. CASE link_ends \/ Discoveries
  <2>1. tx'.conn = tx.conn /\ tx'.active = tx.active
    BY <1>2, Ends, Discovers DEF Typed, FlagsTyped, StaticsTyped
  <2>2. event = NONE /\ UNCHANGED mistook /\ links' \subseteq links
    BY <1>2, Zenon DEF link_ends, Discoveries, HostIdle
  <2> QED BY <2>1, <2>2
<1>3. CASE gap_event
  <2>1. UNCHANGED links
    BY <1>3, Zenon DEF gap_event
  <2>2. CASE connect_outbound
    <3>1. tx'.conn = event.h /\ tx'.active
      BY <2>2 DEF connect_outbound, Typed, StaticsTyped, TxStates
    <3>2. HasLink(event.h)
      BY <2>2 DEF connect_outbound, Event, Reported
    <3>3. ~mistook /\ Current(Link(event.h))
      BY <2>2, Zenon DEF connect_outbound, Current
    <3>4. \A l \in links : l.h = tx.conn => l = Link(event.h)
      BY <3>2, <3>3, LinkFound, Zenon DEF OwnHandle, OneAttempt
    <3>5. Link(event.h).h = event.h
      BY <3>2, LinkFound
    <3> QED BY <2>1, <3>1, <3>3, <3>4, <3>5
  <2>3. CASE connect_inbound
    <3>1. UNCHANGED tx /\ ~tx.active
      BY <2>3 DEF connect_inbound
    <3>2. ~mistook /\ ~Link(event.h).out
      BY <2>3, Zenon DEF connect_inbound
    <3>3. \A l \in links : l.h = event.h => ~l.out
      BY <3>2, LinkOf
    <3> QED BY <2>1, <3>1, <3>2, <3>3
  <2>4. CASE connect_failed \/ adv_complete \/ disc_complete
    <3>1. tx'.conn = tx.conn /\ tx'.active = tx.active
      BY <2>4, Ends DEF adv_complete, disc_complete, Typed, FlagsTyped, StaticsTyped
    <3>2. event.type # "CONNECT" /\ UNCHANGED mistook
      BY <2>4, Zenon DEF connect_failed, adv_complete, disc_complete, Event
    <3> QED BY <2>1, <3>1, <3>2
  <2>5. CASE disconnect
    <3>1. event.type # "CONNECT" /\ UNCHANGED mistook /\ ~HasLink(event.h)
      BY <2>5 DEF disconnect, Event, Reported
    <3>2. UNCHANGED tx \/ tx.conn = event.h
      BY <2>5 DEF disconnect
    <3> QED BY <2>1, <3>1, <3>2, Zenon DEF HasLink
  <2> QED BY <1>3, <2>2, <2>3, <2>4, <2>5, Zenon DEF gap_event
<1>4. CASE stop_presence \/ connect
  <2>1. UNCHANGED <<links, event, mistook>>
    BY <1>4, Zenon DEF stop_presence, connect
  <2>2. task.pc \notin Trying
    BY <1>4, Zenon DEF stop_presence, connect, Trying
  <2>3. ~mistook => \A l \in links : l.out => ~(tx.active /\ l.h = tx.conn)
    BY <2>2, Zenon DEF OwnHandle, OneAttempt
  <2> QED BY <2>1, <2>3
<1>5. CASE end_attempt
  <2>1. UNCHANGED <<event, mistook>>
    BY <1>5, Zenon DEF end_attempt
  <2>2. \A k \in links' : \E l \in links :
          k.h = l.h /\ k.out = l.out /\ (l.ending \/ l.h = tx.conn => k.ending)
    BY <1>5, EndsAttempt DEF Typed
  <2>3. \A k \in links' : k.out => Unreported(k) \/ k.ending
    BY <2>1, <2>2
  <2> QED BY <2>1, <2>3
<1>6. CASE UNCHANGED <<links, event, mistook, tx>>
  BY <1>6
<1>7. CASE \/ maybe_resume_presence \/ resume_presence_now \/ start_advertising \/ start_scanning
           \/ tx_task_receive \/ tx_task_peer \/ wait_for_rx \/ take \/ write
  BY <1>6, <1>7, Zenon DEF maybe_resume_presence, resume_presence_now, start_advertising, start_scanning,
                    tx_task_receive, tx_task_peer, wait_for_rx, take, write
<1>8. CASE on_reset \/ on_sync \/ g2g_ble_stop \/ stop_delete \/ UNCHANGED vars
  BY <1>6, <1>8, Zenon DEF on_reset, on_sync, g2g_ble_stop, stop_delete, vars
<1> QED BY <1>1, <1>2, <1>3, <1>4, <1>5, <1>7, <1>8, Zenon DEF Next, tx_task

\* The receiving side is given up when its link ends.
LEMMA ReceiverReleasedStep == BleInv /\ [Next]_vars => ReceiverReleased'
<1> SUFFICES ASSUME BleInv, [Next]_vars PROVE ReceiverReleased'
  OBVIOUS
<1> USE DEF BleInv, ReceiverReleased, nimble, statics
<1>1. CASE Nimble \/ link_ends
  <2>1. UNCHANGED rx /\ event = NONE
    BY <1>1, Zenon DEF Nimble, connection_in, connection_out, nimble_reset, link_ends, HostIdle
  <2>2. rx # NONE => HasLink(rx)
    BY <2>1, EventIsNotNone, Zenon DEF Typed, StaticsTyped
  <2>3. \/ links \subseteq links'
        \/ \E l \in links : links' = links \ {l} /\ event' = [type |-> "DISCONNECT", h |-> l.h]
    BY <1>1, Zenon DEF Nimble, connection_in, connection_out, nimble_reset, link_ends
  <2> QED BY <2>1, <2>2, <2>3, Zenon DEF HasLink
<1>2. CASE gap_event
  <2>1. UNCHANGED links
    BY <1>2 DEF gap_event
  <2>2. CASE connect_inbound
    BY <2>1, <2>2 DEF connect_inbound, Event, Reported, HasLink
  <2>3. CASE connect_outbound \/ connect_failed \/ adv_complete \/ disc_complete
    <3>1. UNCHANGED rx /\ event # NONE /\ event.type # "DISCONNECT"
      BY <2>3, Zenon DEF connect_outbound, connect_failed, adv_complete, disc_complete, Event
    <3> QED BY <2>1, <3>1 DEF HasLink
  <2>4. CASE disconnect
    <3>1. rx' = NONE \/ (rx' = rx /\ rx # event.h)
      BY <2>4 DEF disconnect
    <3> QED BY <2>1, <3>1 DEF HasLink
  <2> QED BY <1>2, <2>2, <2>3, <2>4 DEF gap_event
<1>3. CASE end_attempt
  <2>1. UNCHANGED <<rx, event>>
    BY <1>3, Zenon DEF end_attempt
  <2>2. HasLink(rx)' <=> HasLink(rx)
    BY <1>3, <2>1, EndsAttempt, Zenon DEF Typed, HasLink
  <2> QED BY <2>1, <2>2
<1>4. CASE UNCHANGED <<rx, links, event>> \/ rx' = NONE
  BY <1>4 DEF HasLink
<1>5. CASE \/ maybe_resume_presence \/ resume_presence_now \/ start_advertising \/ start_scanning
           \/ tx_task_receive \/ tx_task_peer \/ wait_for_rx \/ stop_presence \/ connect \/ take \/ write
  BY <1>4, <1>5, Zenon DEF maybe_resume_presence, resume_presence_now, start_advertising, start_scanning,
                    tx_task_receive, tx_task_peer, wait_for_rx, stop_presence, connect, take, write
<1>6. CASE Discoveries \/ on_reset \/ on_sync \/ g2g_ble_stop \/ stop_delete \/ UNCHANGED vars
  BY <1>4, <1>6, Zenon DEF Discoveries, on_reset, on_sync, g2g_ble_stop, stop_delete, vars
<1> QED BY <1>1, <1>2, <1>3, <1>5, <1>6 DEF Next, tx_task

\* A step that makes a presence flag wrong leaves the resuming of presence due.
LEMMA FlagsHealStep == BleInv /\ [Next]_vars => FlagsHeal'
<1> SUFFICES ASSUME BleInv, [Next]_vars PROVE FlagsHeal'
  OBVIOUS
<1> USE DEF BleInv, FlagsHeal, PresenceDue, nimble, statics
<1>1. CASE Nimble
  <2>1. UNCHANGED <<advertising, scanning, resume, task>> /\ (scan => scanning)
    BY <1>1 DEF Nimble, Flags
  <2>2. CASE connection_in \/ connection_out
    <3>1. event' # NONE
      <4>1. [type |-> "CONNECT_FAILED"] # NONE
        BY BleAssumption DEF Events
      <4> QED BY <2>2, <4>1, Connects, EventIsNotNone
    <3> QED BY <3>1
  <2>3. CASE nimble_reset
    <3>1. [type |-> "ADV_COMPLETE"] # NONE /\ [type |-> "DISC_COMPLETE"] # NONE
      BY BleAssumption DEF Events
    <3>2. event' # NONE \/ UNCHANGED <<adv, scan, event, links>>
      BY <2>3, <3>1 DEF nimble_reset
    <3> QED BY <2>1, <3>2
  <2> QED BY <1>1, <2>2, <2>3 DEF Nimble
<1>2. CASE link_ends
  <2>1. PICK l \in links : event' = [type |-> "DISCONNECT", h |-> l.h]
    BY <1>2 DEF link_ends
  <2>2. l.h \in Handles
    BY DEF Typed, LinksTyped, LinkStates
  <2> QED BY <2>1, <2>2, EventIsNotNone
<1>3. CASE gap_event
  <2>1. running
    BY <1>3, Zenon DEF gap_event, connect_outbound, connect_inbound, connect_failed, disconnect, adv_complete,
                disc_complete, Event, Stopped
  <2>2. CASE connect_outbound \/ connect_inbound
    <3>1. links # {} /\ UNCHANGED links
      BY <1>3, <2>2, Zenon DEF gap_event, connect_outbound, connect_inbound, Event, Reported, HasLink
    <3> QED BY <3>1
  <2>3. CASE connect_failed \/ disconnect \/ adv_complete \/ disc_complete
    <3>1. resume'
      BY <2>1, <2>3, Zenon DEF connect_failed, disconnect, adv_complete, disc_complete, Scheduled
    <3> QED BY <3>1
  <2> QED BY <1>3, <2>2, <2>3 DEF gap_event
<1>4. CASE maybe_resume_presence
  BY <1>4 DEF maybe_resume_presence
<1>5. CASE resume_presence_now
  <2>1. UNCHANGED <<adv, advertising, scan, scanning>>
    BY <1>5 DEF resume_presence_now
  <2>2. CASE resume' = Scheduled
    <3>1. adv \/ scan => resume'
      BY <2>2, Zenon DEF Scheduled, Stopped
    <3> QED BY <2>1, <3>1
  <2>3. CASE task' = [pc |-> "advertise"]
    BY <2>3
  <2> QED BY <1>5, <2>2, <2>3 DEF resume_presence_now
<1>6. CASE start_advertising
  <2>1. UNCHANGED <<scan, scanning, links, event, resume>>
    BY <1>6 DEF start_advertising
  <2>2. scan => scanning
    BY DEF Flags
  <2>3. CASE ~synced \/ advertising
    <3>1. UNCHANGED <<advertising, adv>>
      BY <1>6, <2>3 DEF start_advertising
    <3>2. adv => advertising
      BY <2>3 DEF Flags
    <3> QED BY <2>1, <2>2, <3>1, <3>2
  <2>4. CASE synced /\ ~advertising
    <3>1. advertising' \/ task' = [pc |-> "scan", ok |-> FALSE]
      BY <1>6, <2>4 DEF start_advertising
    <3>2. task' = [pc |-> "scan", ok |-> FALSE] => task'.pc = "scan" /\ ~task'.ok
      OBVIOUS
    <3> QED BY <2>1, <2>2, <3>1, <3>2
  <2> QED BY <2>3, <2>4 DEF Typed, FlagsTyped
<1>7. CASE start_scanning
  BY <1>7, Zenon DEF start_scanning, Scheduled, Flags, Stopped, Typed, TaskTyped
<1>8. CASE stop_presence
  <2>1. ~scan' /\ (adv' => adv /\ ~advertising)
    BY <1>8 DEF stop_presence, Flags
  <2>2. UNCHANGED <<links, event, resume>>
    BY <1>8 DEF stop_presence
  <2>3. task.pc = "prepare"
    BY <1>8 DEF stop_presence
  <2> QED BY <2>1, <2>2, <2>3
<1>9. CASE connect \/ end_attempt
  <2>1. UNCHANGED <<adv, scan, advertising, scanning, event>>
    BY <1>9, Zenon DEF connect, end_attempt
  <2>2. adv \/ scan => running
    BY DEF Stopped
  <2>3. CASE resume' = Scheduled
    BY <2>1, <2>2, <2>3, Zenon DEF Scheduled
  <2>4. CASE UNCHANGED <<resume, links>> /\ task.pc = "connect"
    BY <2>1, <2>4
  <2> QED BY <1>9, <2>3, <2>4, Zenon DEF connect, end_attempt
<1>10. CASE tx_task_receive \/ tx_task_peer \/ wait_for_rx \/ take \/ write
  <2>1. UNCHANGED <<adv, scan, advertising, scanning, event, links>> /\ (resume => resume')
    BY <1>10, Zenon DEF tx_task_receive, tx_task_peer, wait_for_rx, take, write
  <2>2. task.pc \notin {"resume", "advertise", "scan"}
    BY <1>10, Zenon DEF tx_task_receive, tx_task_peer, wait_for_rx, take, write
  <2> QED BY <2>1, <2>2
<1>11. CASE Discoveries \/ on_reset \/ on_sync \/ g2g_ble_stop \/ stop_delete \/ UNCHANGED vars
  BY <1>11, Zenon DEF Discoveries, on_reset, on_sync, Scheduled, g2g_ble_stop, stop_delete, vars
<1> QED BY <1>1, <1>2, <1>3, <1>4, <1>5, <1>6, <1>7, <1>8, <1>9, <1>10, <1>11, Zenon DEF Next, tx_task

\* A batch is written with the handle of the attempt.
LEMMA WrittenToPeerStep == BleInv /\ [Next]_vars => WrittenToPeer'
<1> SUFFICES ASSUME BleInv, [Next]_vars PROVE WrittenToPeer'
  OBVIOUS
<1> USE DEF BleInv, WrittenToPeer, history
<1>1. CASE write
  <2>1. UNCHANGED mistook
    BY <1>1 DEF write
  <2>2. ASSUME ~mistook, HasLink(tx.conn)
        PROVE  Link(tx.conn).peer = task.peer
    <3>1. Current(Link(tx.conn))
      BY <2>2, LinkFound, Zenon DEF OwnHandle
    <3> QED BY <2>2, <3>1, LinkFound, Zenon DEF OneAttempt
  <2>3. strayed' => strayed \/ (HasLink(tx.conn) /\ Link(tx.conn).peer # task.peer)
    BY <1>1, Zenon DEF write
  <2> QED BY <2>1, <2>2, <2>3
<1>2. CASE gap_event
  <2>1. UNCHANGED strayed
    BY <1>2 DEF gap_event
  <2>2. mistook => mistook'
    <3>1. CASE connect_outbound \/ connect_inbound
      BY <3>1, Zenon DEF connect_outbound, connect_inbound
    <3>2. CASE connect_failed \/ disconnect \/ adv_complete \/ disc_complete
      BY <3>2, Zenon DEF connect_failed, disconnect, adv_complete, disc_complete
    <3> QED BY <1>2, <3>1, <3>2 DEF gap_event
  <2> QED BY <2>1, <2>2
<1>3. CASE \/ maybe_resume_presence \/ resume_presence_now \/ start_advertising \/ start_scanning
           \/ tx_task_peer \/ wait_for_rx \/ stop_presence \/ connect \/ take \/ end_attempt
  <2>1. UNCHANGED history
    BY <1>3, Zenon DEF maybe_resume_presence, resume_presence_now, start_advertising, start_scanning,
                tx_task_peer, wait_for_rx, stop_presence, connect, take, end_attempt
  <2> QED BY <2>1
<1>4. CASE Nimble \/ link_ends \/ Discoveries \/ on_reset \/ on_sync
  BY <1>4, Zenon DEF Nimble, link_ends, Discoveries, on_reset, on_sync
<1>5. CASE tx_task_receive \/ g2g_ble_stop \/ stop_delete \/ UNCHANGED vars
  BY <1>5, Zenon DEF tx_task_receive, g2g_ble_stop, stop_delete, vars
<1> QED BY <1>1, <1>2, <1>3, <1>4, <1>5 DEF Next, tx_task

\* Every step keeps the invariant.
LEMMA BleStep == BleInv /\ [Next]_vars => BleInv'
  BY FlagsTypedStep, StaticsTypedStep, HostTypedStep, LinksTypedStep, TaskTypedStep, StoppedStep,
     ReportedStep, OneAttemptStep, OwnHandleStep, FlagsStep, OutboundIsEndedStep,
     ReceiverReleasedStep, FlagsHealStep, WrittenToPeerStep
  DEF BleInv, Typed

(***************************************************************************)
(* However the sending task, the host task and the stop of g2g_ble.c       *)
(* interleave, whatever fails and however often the host is reset, no      *)
(* outbound link is forgotten by send_batch_to_peer and gap_event, the     *)
(* receiving side is held only by a link, and a presence flag is wrong     *)
(* only while presence is due.                                             *)
(***************************************************************************)
THEOREM NothingIsHeldForGood == Spec => []NothingStaysHeld
<1>1. BleInv => NothingStaysHeld
  BY TypedIsTypeOK DEF BleInv, NothingStaysHeld
<1> QED BY <1>1, BleInit, BleStep, PTL DEF Spec

(***************************************************************************)
(* send_batch_to_peer writes a batch on a link to the peer that the batch  *)
(* is for, unless gap_event took a connection for another one.             *)
(***************************************************************************)
THEOREM BatchesReachTheirPeer == Spec => []WrittenToPeer
<1>1. BleInv => WrittenToPeer
  BY DEF BleInv
<1> QED BY <1>1, BleInit, BleStep, PTL DEF Spec

\* The queues are deleted after s_running is cleared.
DeletedInv == (deleted => ~running) /\ DeletedWhenUnused

\* The task begins no round once s_running is cleared.
LEMMA DeletedStep == DeletedInv /\ [Next]_vars => DeletedInv'
<1> SUFFICES ASSUME DeletedInv, [Next]_vars PROVE DeletedInv'
  OBVIOUS
<1> USE DEF DeletedInv, DeletedWhenUnused, statics, history
<1>1. CASE UNCHANGED <<running, deleted, sending>> /\ (UNCHANGED task \/ task.pc # "loop" \/ running)
  BY <1>1
<1>2. CASE tx_task
  <2>1. UNCHANGED <<running, deleted, sending>>
    BY <1>2, Zenon DEF tx_task, maybe_resume_presence, resume_presence_now, start_advertising, start_scanning,
                tx_task_peer, wait_for_rx, stop_presence, connect, take, write, end_attempt
  <2>2. task.pc # "loop" \/ running
    BY <1>2, Zenon DEF tx_task, maybe_resume_presence, resume_presence_now, start_advertising, start_scanning,
                tx_task_peer, wait_for_rx, stop_presence, connect, take, write, end_attempt
  <2> QED BY <1>1, <2>1, <2>2
<1>3. CASE Nimble \/ link_ends \/ Discoveries \/ gap_event \/ on_reset \/ on_sync
  BY <1>1, <1>3, Zenon DEF Nimble, link_ends, Discoveries, gap_event, on_reset, on_sync
<1>4. CASE tx_task_receive \/ UNCHANGED vars
  BY <1>1, <1>4, Zenon DEF tx_task_receive, vars
<1>5. CASE g2g_ble_stop \/ stop_delete
  BY <1>5 DEF g2g_ble_stop, stop_delete
<1> QED BY <1>2, <1>3, <1>4, <1>5 DEF Next

(***************************************************************************)
(* After g2g_ble_stop has deleted the queues and the semaphore, tx_task is *)
(* still under way only if it was with a peer when the stop began.         *)
(***************************************************************************)
THEOREM QueuesOutliveTheirUse == Spec => []DeletedWhenUnused
<1>1. Init => DeletedInv
  BY DEF Init, DeletedInv, DeletedWhenUnused
<1>2. DeletedInv => DeletedWhenUnused
  BY DEF DeletedInv
<1> QED BY <1>1, <1>2, DeletedStep, PTL DEF Spec
=============================================================================
