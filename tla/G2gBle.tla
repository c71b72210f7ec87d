------------------------------- MODULE G2gBle -------------------------------
(***************************************************************************)
(* The BLE transport between guardians (g2g_ble.c): the sending task, the  *)
(* callbacks in the task of the NimBLE host, and the stop.  They share     *)
(* statics without a lock.  A guardian advertises and scans ("presence")   *)
(* while it has nothing to do; to send it stops both, connects, looks the  *)
(* service up and writes.                                                  *)
(*                                                                         *)
(* NimBLE is external.  Its host task makes a change of its own state and  *)
(* then calls back; the sending task may run in between.                   *)
(***************************************************************************)
EXTENDS Naturals, FiniteSets

CONSTANTS
  Peers,        \* guardians that remember_peer keeps
  Handles,      \* connection handles
  NONE,         \* BLE_HS_CONN_HANDLE_NONE, also: no peer, no callback under way
  MaxBatches,   \* bound on the batches sent
  MaxInbound,   \* bound on the connections from peers
  Limits        \* the limits that a behaviour may have, see limit

\* What a behaviour is limited to: the peers that are discovered; G2G_TX_RETRY_MAX; resets of the
\* NimBLE host; calls of NimBLE that fail without a reason the model knows.

\* The GAP events that NimBLE reports.
Events == [type : {"CONNECT", "DISCONNECT"}, h : Handles]
            \cup [type : {"CONNECT_FAILED", "ADV_COMPLETE", "DISC_COMPLETE"}]

ASSUME BleAssumption ==
  /\ NONE \notin Peers \cup Handles
  /\ NONE \notin Events \cup [peer : Peers, late : BOOLEAN]
  /\ Limits \subseteq [peers : SUBSET Peers, retries : Nat \ {0}, resets : Nat, fails : Nat]

VARIABLES
  running, synced, advertising, scanning,   \* s_running, s_synced, s_advertising, s_scanning
  rx,          \* s_rx_conn_handle, NONE unless s_rx_active
  resume,      \* s_resume_pending
  tx,          \* s_tx: active, ok, conn_handle, chr_handle # 0
  done,        \* s_tx_done
  task,        \* the sending task: pc, the peers still to serve, the attempt, whether it sent
  deleted,     \* whether g2g_ble_stop has deleted the queues and the semaphore
  adv, scan,   \* NimBLE: whether it advertises, scans
  connecting,  \* NimBLE: the peer that it connects to, and whether the attempt is over (history)
  links,       \* NimBLE: the connections
  procs,       \* NimBLE: GATT procedures under way
  event,       \* NimBLE: the GAP event that the host task is about to report
  resetting,   \* NimBLE: the host is being reset
  batches, inbound, resets, fails,   \* counters for the bounds
  limit,       \* the limits of this behaviour, which never change
  mistook,     \* history: a connection was taken for another one than it is
  strayed,     \* history: a batch was written on a link to another peer than its own
  sending      \* history: the sending task was with a peer when the stop began

nimble == <<adv, scan, connecting, links, procs, event, resetting, inbound, resets, fails>>
statics == <<running, synced, advertising, scanning, rx, resume, tx, done>>
history == <<mistook, strayed, sending>>
counted == <<batches, limit>>
vars == <<statics, nimble, task, deleted, counted, history>>

Idle == [pc |-> "loop"]
NoTx == [active |-> FALSE, ok |-> FALSE, conn |-> NONE, chr |-> FALSE]

\* s_tx is all zero after the start; its handle is not looked at before a batch.
Init ==
  /\ running = TRUE /\ synced = FALSE /\ advertising = FALSE /\ scanning = FALSE
  /\ rx = NONE /\ resume = FALSE /\ tx = NoTx /\ done = FALSE
  /\ task = Idle /\ deleted = FALSE
  /\ adv = FALSE /\ scan = FALSE /\ connecting = NONE /\ links = {} /\ procs = {}
  /\ event = NONE /\ resetting = FALSE /\ batches = 0 /\ inbound = 0 /\ resets = 0 /\ fails = 0
  /\ mistook = FALSE /\ strayed = FALSE /\ sending = FALSE
  /\ limit \in Limits

Link(h) == CHOOSE l \in links : l.h = h
HasLink(h) == \E l \in links : l.h = h

\* schedule_presence_resume, for the statement resume' = ...
Scheduled == resume \/ running

-----------------------------------------------------------------------------
(***************************************************************************)
(* NimBLE's host task.                                                     *)
(***************************************************************************)
HostIdle == event = NONE /\ running

\* Who connects makes no difference to the code below.
connection_in ==
  /\ HostIdle /\ adv /\ inbound < MaxInbound
  /\ inbound' = inbound + 1
  /\ \E h \in Handles :
       /\ ~HasLink(h)
       /\ links' = links \cup {[h |-> h, peer |-> NONE, out |-> FALSE, late |-> FALSE,
                                ending |-> FALSE]}
       /\ event' = [type |-> "CONNECT", h |-> h]
  /\ adv' = FALSE
  /\ UNCHANGED <<scan, connecting, procs, resetting, resets, fails>>

connection_out ==
  /\ HostIdle /\ connecting # NONE
  /\ \/ \E h \in Handles :
          /\ ~HasLink(h) /\ ~resetting
          /\ links' = links \cup {[h |-> h, peer |-> connecting.peer, out |-> TRUE,
                                   late |-> connecting.late, ending |-> FALSE]}
          /\ event' = [type |-> "CONNECT", h |-> h]
     \/ event' = [type |-> "CONNECT_FAILED"] /\ UNCHANGED links
  /\ connecting' = NONE
  /\ UNCHANGED <<adv, scan, procs, resetting, inbound, resets, fails>>

nimble_reset ==
  /\ HostIdle
  /\ \/ synced /\ ~resetting /\ resets < limit.resets /\ resetting' = TRUE /\ resets' = resets + 1
        /\ UNCHANGED <<adv, scan, event>>
     \/ resetting /\ adv /\ adv' = FALSE /\ event' = [type |-> "ADV_COMPLETE"]
        /\ UNCHANGED <<scan, resetting, resets>>
     \/ resetting /\ scan /\ scan' = FALSE /\ event' = [type |-> "DISC_COMPLETE"]
        /\ UNCHANGED <<adv, resetting, resets>>
  /\ UNCHANGED <<connecting, links, procs, inbound, fails>>

\* A call fails; faults are bounded.
Fails == fails < limit.fails /\ fails' = fails + 1

Nimble ==
  /\ connection_in \/ connection_out \/ nimble_reset
  /\ UNCHANGED <<statics, task, deleted, counted, history>>

\* Without s_tx.active what a callback leaves behind is reset before it is read.
tx_complete(ok) ==
  IF tx.active THEN tx' = [tx EXCEPT !.ok = ok] /\ done' = TRUE ELSE UNCHANGED <<tx, done>>

(***************************************************************************)
(* A link ends: the peer, either side's ble_gap_terminate, or the radio.   *)
(* Procedures end first; only mtu_cb does something then, it starts the    *)
(* next procedure, which fails.                                            *)
(***************************************************************************)
link_ends ==
  /\ HostIdle
  /\ \E l \in links :
       /\ links' = links \ {l}
       /\ event' = [type |-> "DISCONNECT", h |-> l.h]
       /\ procs' = {q \in procs : q.h # l.h}
       /\ IF [h |-> l.h, kind |-> "mtu"] \in procs THEN tx_complete(FALSE)
          ELSE UNCHANGED <<tx, done>>
  /\ UNCHANGED <<adv, scan, connecting, resetting, inbound, resets, fails, running, synced, advertising, scanning,
                 rx, resume, task, deleted, counted, history>>

\* The three discoveries.  The handle that a callback belongs to is not looked at.
Discovery(h, kind) == [h |-> h, kind |-> kind] \in procs
Replace(h, kind, new) == (procs \ {[h |-> h, kind |-> kind]}) \cup {[h |-> h, kind |-> k] : k \in new}

mtu_cb(h) ==
  /\ Discovery(h, "mtu")
  /\ \/ procs' = Replace(h, "mtu", {"svc"}) /\ UNCHANGED <<tx, done, fails>>
     \/ Fails /\ procs' = Replace(h, "mtu", {}) /\ tx_complete(FALSE)

\* The end of the service discovery is reported after the service.
svc_disc_cb(h) ==
  \/ /\ Discovery(h, "svc")
     /\ \/ procs' = Replace(h, "svc", {"svc_end", "chr"}) /\ UNCHANGED <<tx, done, fails>>
        \/ Fails /\ procs' = Replace(h, "svc", {"svc_end"}) /\ tx_complete(FALSE)
  \/ /\ Discovery(h, "svc_end")
     /\ procs' = Replace(h, "svc_end", {}) /\ tx_complete(FALSE) /\ UNCHANGED fails

chr_disc_cb(h) ==
  /\ UNCHANGED fails
  /\ \/ /\ Discovery(h, "chr")
        /\ procs' = Replace(h, "chr", {"chr_end"})
        /\ IF tx.active THEN tx' = [tx EXCEPT !.chr = TRUE, !.ok = TRUE] /\ done' = TRUE
           ELSE UNCHANGED <<tx, done>>
     \/ /\ Discovery(h, "chr_end")
        /\ procs' = Replace(h, "chr_end", {})
        /\ IF tx.chr THEN UNCHANGED <<tx, done>> ELSE tx_complete(FALSE)

Discoveries ==
  /\ HostIdle
  /\ \E h \in Handles : mtu_cb(h) \/ svc_disc_cb(h) \/ chr_disc_cb(h)
  /\ UNCHANGED <<adv, scan, connecting, links, event, resetting, inbound, resets, running, synced,
                 advertising, scanning, rx, resume, task, deleted, counted, history>>

-----------------------------------------------------------------------------
(***************************************************************************)
(* gap_event, one action for each kind of event.                           *)
(***************************************************************************)
Event(type) == event # NONE /\ event.type = type /\ event' = NONE

\* With s_tx.active any connection counts as the one asked for.
connect_outbound ==
  /\ tx.active /\ Event("CONNECT")
  /\ advertising' = FALSE
  /\ tx' = [tx EXCEPT !.conn = event.h]
  /\ procs' = procs \cup {[h |-> event.h, kind |-> "mtu"]}
  /\ mistook' = (mistook \/ ~Link(event.h).out \/ Link(event.h).late)
  /\ UNCHANGED <<scanning, rx, resume, done, scan>>

connect_inbound ==
  /\ ~tx.active /\ Event("CONNECT")
  /\ advertising' = FALSE
  /\ rx' = event.h
  /\ scanning' = FALSE /\ scan' = IF scanning THEN FALSE ELSE scan
  /\ mistook' = (mistook \/ Link(event.h).out)
  /\ UNCHANGED <<resume, tx, done, procs>>

connect_failed ==
  /\ Event("CONNECT_FAILED")
  /\ tx_complete(FALSE)
  /\ resume' = Scheduled
  /\ UNCHANGED <<advertising, scanning, rx, scan, procs, mistook>>

\* Faulty variant: the receiving side is not released.
disconnect_keeps_rx ==
  /\ Event("DISCONNECT")
  /\ IF tx.active /\ tx.conn = event.h
     THEN tx' = [tx EXCEPT !.conn = NONE, !.ok = FALSE] /\ done' = TRUE
     ELSE UNCHANGED <<tx, done>>
  /\ advertising' = FALSE /\ resume' = Scheduled
  /\ UNCHANGED <<scanning, rx, scan, procs, mistook>>

disconnect ==
  /\ Event("DISCONNECT")
  /\ IF tx.active /\ tx.conn = event.h
     THEN tx' = [tx EXCEPT !.conn = NONE, !.ok = FALSE] /\ done' = TRUE
     ELSE UNCHANGED <<tx, done>>
  /\ rx' = IF rx = event.h THEN NONE ELSE rx
  /\ advertising' = FALSE /\ resume' = Scheduled
  /\ UNCHANGED <<scanning, scan, procs, mistook>>

adv_complete ==
  /\ Event("ADV_COMPLETE")
  /\ advertising' = FALSE /\ resume' = Scheduled
  /\ UNCHANGED <<scanning, rx, tx, done, scan, procs, mistook>>

disc_complete ==
  /\ Event("DISC_COMPLETE")
  /\ scanning' = FALSE /\ resume' = Scheduled
  /\ UNCHANGED <<advertising, rx, tx, done, scan, procs, mistook>>

gap_event ==
  /\ \/ connect_outbound \/ connect_inbound \/ connect_failed \/ disconnect
     \/ adv_complete \/ disc_complete
  /\ UNCHANGED <<running, synced, adv, connecting, links, resetting, inbound, resets, fails, task, deleted, counted,
                 strayed, sending>>

\* The reset is reported when everything has ended; the sync follows.
on_reset ==
  /\ HostIdle /\ resetting /\ synced
  /\ ~adv /\ ~scan /\ connecting = NONE /\ links = {}
  /\ synced' = FALSE
  /\ UNCHANGED <<running, advertising, scanning, rx, resume, tx, done, nimble, task, deleted,
                 counted, history>>

on_sync ==
  /\ HostIdle /\ ~synced
  /\ synced' = TRUE /\ resetting' = FALSE /\ resume' = Scheduled
  /\ UNCHANGED <<running, advertising, scanning, rx, tx, done, adv, scan, connecting, links, procs,
                 event, inbound, resets, fails, task, deleted, counted, history>>

-----------------------------------------------------------------------------
(***************************************************************************)
(* The sending task.  NimBLE refuses calls during a reset.                 *)
(***************************************************************************)
Goto(pc) == task' = [task EXCEPT !.pc = pc]
CallWorks == running /\ synced /\ ~resetting

\* The time of the request has come.
maybe_resume_presence ==
  /\ running /\ task.pc = "loop" /\ resume
  /\ resume' = FALSE
  /\ task' = [pc |-> "resume"]
  /\ UNCHANGED <<running, synced, advertising, scanning, rx, tx, done, nimble, deleted, counted, history>>

resume_presence_now ==
  /\ task.pc = "resume"
  /\ IF ~running \/ ~synced \/ tx.active \/ rx # NONE
     THEN resume' = Scheduled /\ task' = Idle
     ELSE task' = [pc |-> "advertise"] /\ UNCHANGED resume
  /\ UNCHANGED <<running, synced, advertising, scanning, rx, tx, done, nimble, deleted, counted, history>>

start_advertising ==
  /\ task.pc = "advertise"
  /\ \/ /\ ~synced \/ advertising
        /\ task' = [pc |-> "scan", ok |-> TRUE]
        /\ UNCHANGED <<advertising, adv, fails>>
     \/ /\ synced /\ ~advertising /\ CallWorks /\ UNCHANGED fails
        /\ advertising' = TRUE /\ adv' = TRUE /\ task' = [pc |-> "scan", ok |-> TRUE]
     \/ /\ synced /\ ~advertising /\ (Fails \/ (~CallWorks /\ UNCHANGED fails))
        /\ task' = [pc |-> "scan", ok |-> FALSE] /\ UNCHANGED <<advertising, adv>>
  /\ UNCHANGED <<running, synced, scanning, rx, resume, tx, done, scan, connecting, links, procs,
                 event, resetting, inbound, resets, deleted, counted, history>>

\* Faulty variant: a scan that could not be started is not tried again.
start_scanning_once ==
  /\ task.pc = "scan"
  /\ \/ /\ ~synced \/ scanning
        /\ resume' = (resume \/ (~task.ok /\ running)) /\ UNCHANGED <<scanning, scan, fails>>
     \/ /\ synced /\ ~scanning /\ CallWorks /\ connecting = NONE /\ UNCHANGED fails
        /\ scanning' = TRUE /\ scan' = TRUE /\ resume' = (resume \/ (~task.ok /\ running))
     \/ /\ synced /\ ~scanning /\ (Fails \/ ((~CallWorks \/ connecting # NONE) /\ UNCHANGED fails))
        /\ UNCHANGED <<scanning, scan, resume>>
  /\ task' = Idle
  /\ UNCHANGED <<running, synced, advertising, rx, tx, done, adv, connecting, links, procs, event,
                 resetting, inbound, resets, deleted, counted, history>>

start_scanning ==
  /\ task.pc = "scan"
  /\ \/ /\ ~synced \/ scanning
        /\ resume' = (resume \/ (~task.ok /\ running)) /\ UNCHANGED <<scanning, scan, fails>>
     \/ /\ synced /\ ~scanning /\ CallWorks /\ connecting = NONE /\ UNCHANGED fails
        /\ scanning' = TRUE /\ scan' = TRUE /\ resume' = (resume \/ (~task.ok /\ running))
     \/ /\ synced /\ ~scanning /\ (Fails \/ ((~CallWorks \/ connecting # NONE) /\ UNCHANGED fails))
        /\ resume' = Scheduled /\ UNCHANGED <<scanning, scan>>
  /\ task' = Idle
  /\ UNCHANGED <<running, synced, advertising, rx, tx, done, adv, connecting, links, procs, event,
                 resetting, inbound, resets, deleted, counted, history>>

\* A batch comes out of the queue, for some of the peers.  (One that came from all of
\* them changes nothing here.)
tx_task_receive ==
  /\ running /\ task.pc = "loop" /\ batches < MaxBatches
  /\ \E to \in SUBSET limit.peers \ {{}} : task' = [pc |-> "peer", to |-> to, sent |-> FALSE]
  /\ batches' = batches + 1 /\ UNCHANGED limit
  /\ UNCHANGED <<statics, nimble, deleted, history>>

\* The next peer, or the end of the batch, or of the task.
tx_task_peer ==
  /\ task.pc = "peer"
  /\ IF task.to = {}
     THEN /\ task' = Idle
          /\ resume' = (resume \/ (~task.sent /\ running))
     ELSE /\ \E p \in task.to : task' = [pc |-> "wait", to |-> task.to \ {p}, peer |-> p,
                                         attempt |-> 1, sent |-> task.sent]
          /\ UNCHANGED resume
  /\ UNCHANGED <<running, synced, advertising, scanning, rx, tx, done, nimble, deleted, counted, history>>

NextPeer(sent) == [pc |-> "peer", to |-> task.to, sent |-> sent]

\* send_batch_to_peer: the next attempt, unless there were enough
Retry == IF task.attempt < limit.retries THEN [task EXCEPT !.pc = "wait", !.attempt = @ + 1]
         ELSE NextPeer(task.sent)

\* The attempt starts if it is not the stop that ends the wait, or even then.
wait_for_rx ==
  /\ task.pc = "wait"
  /\ \/ ~running /\ task' = NextPeer(task.sent)
     \/ rx # NONE /\ task' = Retry
     \/ rx = NONE /\ Goto("prepare")
  /\ UNCHANGED <<statics, nimble, deleted, counted, history>>

stop_presence ==
  /\ task.pc = "prepare"
  /\ Goto("connect")
  /\ adv' = IF advertising THEN FALSE ELSE adv
  /\ scan' = IF scanning THEN FALSE ELSE scan
  /\ advertising' = FALSE /\ scanning' = FALSE
  /\ tx' = [NoTx EXCEPT !.active = TRUE]
  /\ UNCHANGED <<running, synced, rx, resume, done, connecting, links, procs, event, resetting,
                 inbound, resets, fails, deleted, counted, history>>

\* Faulty variant: the address of another peer.
connect_any ==
  /\ task.pc = "connect"
  /\ CallWorks /\ connecting = NONE
  /\ \E p \in limit.peers : connecting' = [peer |-> p, late |-> FALSE]
  /\ done' = FALSE
  /\ Goto("take")
  /\ UNCHANGED <<tx, resume, running, synced, advertising, scanning, rx, adv, scan, links, procs,
                 event, resetting, inbound, resets, fails, deleted, counted, history>>

\* The semaphore is drained, then ble_gap_connect is called.
connect ==
  /\ task.pc = "connect"
  /\ done' = FALSE
  /\ \/ /\ CallWorks /\ connecting = NONE
        /\ connecting' = [peer |-> task.peer, late |-> FALSE]
        /\ Goto("take")
        /\ UNCHANGED <<tx, resume, fails>>
     \/ /\ Fails \/ ((~CallWorks \/ connecting # NONE) /\ UNCHANGED fails)
        /\ tx' = NoTx /\ resume' = Scheduled
        /\ task' = Retry
        /\ UNCHANGED connecting
  /\ UNCHANGED <<running, synced, advertising, scanning, rx, adv, scan, links, procs, event,
                 resetting, inbound, resets, deleted, counted, history>>

\* The semaphore is given, or the time is up; then ble_gap_conn_cancel asks for
\* the end of a connection attempt, which may still succeed.
take ==
  /\ task.pc = "take"
  /\ \/ done /\ done' = FALSE /\ Goto(IF tx.ok /\ tx.conn # NONE /\ tx.chr THEN "write" ELSE "failed")
     \/ UNCHANGED done /\ Goto("failed")
  /\ UNCHANGED <<running, synced, advertising, scanning, rx, resume, tx, nimble, deleted, counted, history>>

\* A write on a handle without a link fails.
write ==
  /\ task.pc = "write"
  /\ \/ /\ tx.conn # NONE /\ HasLink(tx.conn)
        /\ strayed' = (strayed \/ Link(tx.conn).peer # task.peer)
        /\ Goto("sent")
     \/ Goto("failed") /\ UNCHANGED strayed
  /\ UNCHANGED <<statics, nimble, deleted, counted, mistook, sending>>

end_attempt ==
  /\ task.pc \in {"sent", "failed"}
  /\ links' = {[l EXCEPT !.ending = @ \/ l.h = tx.conn, !.late = l.out] : l \in links}
  /\ connecting' = IF connecting = NONE THEN NONE ELSE [connecting EXCEPT !.late = TRUE]
  /\ tx' = NoTx /\ done' = FALSE
  /\ resume' = Scheduled
  /\ task' = IF task.pc = "sent" THEN NextPeer(TRUE) ELSE Retry
  /\ UNCHANGED <<running, synced, advertising, scanning, rx, adv, scan, procs, event,
                 resetting, inbound, resets, fails, deleted, counted, history>>

tx_task ==
  \/ maybe_resume_presence \/ resume_presence_now \/ start_advertising \/ start_scanning
  \/ tx_task_peer \/ wait_for_rx \/ stop_presence \/ connect \/ take \/ write \/ end_attempt

-----------------------------------------------------------------------------
SendPcs == {"wait", "prepare", "connect", "take", "write", "sent", "failed"}

\* nimble_port_stop ends the host task: no event is reported any more.
g2g_ble_stop ==
  /\ running
  /\ running' = FALSE /\ resume' = FALSE /\ rx' = NONE
  /\ scanning' = FALSE /\ advertising' = FALSE /\ adv' = FALSE /\ scan' = FALSE
  /\ links' = {} /\ procs' = {} /\ connecting' = NONE /\ event' = NONE
  /\ sending' = (task.pc \in SendPcs)
  /\ UNCHANGED <<synced, tx, done, resetting, inbound, resets, fails, task, deleted, counted, mistook, strayed>>

\* Faulty variant: the queues are deleted without waiting.
stop_delete_at_once ==
  /\ ~running /\ ~deleted
  /\ deleted' = TRUE
  /\ UNCHANGED <<statics, nimble, task, counted, history>>

(***************************************************************************)
(* After 300 ms.  By then the sending task, unless it is with a peer, has  *)
(* come back from the queue, where it waits at most 250 ms.                *)
(***************************************************************************)
stop_delete ==
  /\ ~running /\ ~deleted
  /\ task.pc = "loop" \/ (task.pc \in SendPcs \cup {"peer"} /\ sending)
  /\ deleted' = TRUE
  /\ UNCHANGED <<statics, nimble, task, counted, history>>

Next ==
  \/ Nimble \/ link_ends \/ Discoveries \/ gap_event \/ on_reset \/ on_sync
  \/ tx_task_receive \/ tx_task
  \/ g2g_ble_stop \/ stop_delete

Spec == Init /\ [][Next]_vars

(***************************************************************************)
(* The tasks run; a connection attempt comes to an end (NimBLE is given a  *)
(* duration); a link does, because the sender ends it; a reset is          *)
(* completed.                                                              *)
(***************************************************************************)
connects == connection_out /\ UNCHANGED <<statics, task, deleted, counted, history>>
completes_reset == resetting /\ nimble_reset /\ UNCHANGED <<statics, task, deleted, counted, history>>
ends_link == link_ends /\ \E l \in links \ links' : ~l.out \/ l.ending \/ resetting

FairSpec ==
  /\ Spec
  /\ WF_vars(tx_task) /\ WF_vars(gap_event) /\ WF_vars(on_reset) /\ WF_vars(on_sync)
  /\ WF_vars(connects) /\ WF_vars(completes_reset) /\ WF_vars(ends_link)

-----------------------------------------------------------------------------
TypeOK ==
  /\ {running, synced, advertising, scanning, resume, done, deleted, adv, scan} \subseteq BOOLEAN
  /\ rx \in Handles \cup {NONE} /\ connecting \in [peer : Peers, late : BOOLEAN] \cup {NONE}
  /\ tx \in [active : BOOLEAN, ok : BOOLEAN, conn : Handles \cup {NONE}, chr : BOOLEAN]
  /\ links \subseteq [h : Handles, peer : Peers \cup {NONE}, out : BOOLEAN, late : BOOLEAN, ending : BOOLEAN]
  /\ task.pc \in SendPcs \cup {"loop", "resume", "advertise", "scan", "peer"}

\* A connection that was not yet reported.
Unreported(l) == event # NONE /\ event.type = "CONNECT" /\ event.h = l.h

(***************************************************************************)
(* No outbound link is forgotten: each one is the sender's or about to     *)
(* end, unless a connection was taken for another, inbound or from an      *)
(* attempt that is over (gap_event goes by s_tx.active).  Inbound links    *)
(* are the peer's to end.                                                  *)
(***************************************************************************)
OutboundIsEnded ==
  mistook \/ \A l \in links : l.out => Unreported(l) \/ l.ending \/ (tx.active /\ l.h = tx.conn)

(***************************************************************************)
(* The receiver is held only by a link that exists: otherwise no batch     *)
(* would be sent and no presence resumed again.                            *)
(***************************************************************************)
ReceiverReleased ==
  rx # NONE => HasLink(rx) \/ event = [type |-> "DISCONNECT", h |-> rx]

(***************************************************************************)
(* A batch is written on a link to the peer it is for, unless a connection *)
(* was taken for another.                                                  *)
(***************************************************************************)
WrittenToPeer == strayed => mistook

(***************************************************************************)
(* NimBLE neither advertises nor scans against the flags for good.  A      *)
(* disconnection clears s_advertising whatever the sending task has just   *)
(* started; the flag is then wrong only while a link is up or presence is  *)
(* due.                                                                    *)
(***************************************************************************)
PresenceDue ==
  \/ links # {} \/ event # NONE \/ resume \/ task.pc \in {"resume", "advertise"}
  \/ (task.pc = "scan" /\ ~task.ok)
FlagsHeal == (adv /\ ~advertising) \/ (scan /\ ~scanning) => PresenceDue

(***************************************************************************)
(* No link, no receiver and no presence flag is held for good, and the     *)
(* statics keep their types: OutboundIsEnded, ReceiverReleased and         *)
(* FlagsHeal together (gap_event, send_batch_to_peer).                     *)
(***************************************************************************)
NothingStaysHeld == TypeOK /\ OutboundIsEnded /\ ReceiverReleased /\ FlagsHeal

(***************************************************************************)
(* After the stop the sending task uses a deleted queue or semaphore only  *)
(* if it was with a peer when the stop began (g2g_ble_stop waits 300 ms,   *)
(* send_batch_to_peer waits for the semaphore up to 3 s).                  *)
(***************************************************************************)
DeletedWhenUnused == deleted /\ task.pc # "loop" => sending

(***************************************************************************)
(* A guardian is found again: it goes back to advertising and scanning     *)
(* after every batch, connection, failure and reset, unless it was stopped *)
(* or a connection was taken for another.                                  *)
(***************************************************************************)
PresenceReturns == []<>(~running \/ ~synced \/ mistook \/ (adv /\ scan))
=============================================================================
