---------------------------- MODULE RelayNetwork ----------------------------
(***************************************************************************)
(* Guardians that relay Action Pills to each other: the receive queue and  *)
(* task and the transmit queue and task of each (g2g_ble.c), and between   *)
(* them the reassembly, the seen cache and the relay (g2g.rs).  A pill is  *)
(* split into fragments; each fragment carries the address it came from,   *)
(* so that the relay need not go back there.  Connections are abstracted   *)
(* to what G2gBle shows of them: a guardian receives from one sender at a  *)
(* time, and not while it sends.                                           *)
(***************************************************************************)
EXTENDS SeenRing, Sequences, FiniteSets

CONSTANTS
  Guardians,
  Near(_),      \* the peers that a guardian has discovered (s_peers)
  Entry(_),     \* the guardian to which a remote control gives a pill
  NONE,         \* no sender, no peer
  Remote,       \* the remote control, which receives nothing
  FragCount,    \* fragments of a pill
  RxQueueLen, TxQueueLen,   \* G2G_RX_QUEUE_LEN, G2G_BLE_TX_QUEUE_LEN
  SeenSize,     \* G2G_SEEN_CACHE_SIZE
  Lossy         \* whether connections fail though the peer is free

Pills == Digests \ {Zero}

\* A pill fits the transmit queue; the slots of the reassembly suffice for all pills.
RelayAssumption ==
  /\ FragCount \in 1 .. TxQueueLen
  /\ \A g \in Guardians : Near(g) \subseteq Guardians \ {g}

VARIABLES
  rx_queue, tx_queue,   \* s_rx_queue, s_tx_queue
  got,        \* RX_SLOTS: the fragments that arrived of each pill
  seen,       \* SEEN_CACHE
  relaying,   \* the relay inside on_fragment of the receive task
  sending,    \* the batch of the transmit task
  link,       \* who is connected to the guardian in order to write
  given,      \* fragments of each pill that the remote control has written
  handed,     \* history: how often a guardian accepted a pill
  lost,       \* history: a fragment was dropped or a peer given up
  echoed      \* history: a fragment went back to its origin in a batch of its own

code == <<rx_queue, tx_queue, got, seen, relaying, sending>>
vars == <<code, link, given, handed, lost, echoed>>

Fragments == [pill : Pills, index : 1 .. FragCount, exclude : Guardians \cup {Remote}]
NotSending == [batch |-> << >>, to |-> {}, peer |-> NONE, at |-> 0]
NotRelaying == [pill |-> Zero, at |-> 0, exclude |-> NONE]

Init ==
  /\ rx_queue = [g \in Guardians |-> << >>] /\ tx_queue = [g \in Guardians |-> << >>]
  /\ got = [g \in Guardians |-> [p \in Pills |-> {}]]
  /\ seen = [g \in Guardians |-> ClearedRing(SeenSize)]
  /\ relaying = [g \in Guardians |-> NotRelaying]
  /\ sending = [g \in Guardians |-> NotSending]
  /\ link = [g \in Guardians |-> NONE]
  /\ given = [p \in Pills |-> 0]
  /\ handed = [g \in Guardians |-> [p \in Pills |-> 0]]
  /\ lost = FALSE /\ echoed = FALSE

-----------------------------------------------------------------------------
(***************************************************************************)
(* rx_access_cb, in NimBLE's task: the fragment with the sender's address  *)
(* enters the queue, or is dropped when the queue is full.                 *)
(***************************************************************************)
rx_access_cb(g, from, f) ==
  IF Len(rx_queue[g]) < RxQueueLen
  THEN rx_queue' = [rx_queue EXCEPT ![g] = Append(@, [f EXCEPT !.exclude = from])] /\ UNCHANGED lost
  ELSE lost' = TRUE /\ UNCHANGED rx_queue

\* The remote control writes the fragments of a pill, in order.
remote_write(p) ==
  LET g == Entry(p)  i == given[p] + 1 IN
  /\ given[p] < FragCount
  /\ link[g] \in {NONE, Remote} /\ sending[g].peer = NONE
  /\ \A q \in Pills \ {p} : Entry(q) = g => given[q] \in {0, FragCount}
  /\ link' = [link EXCEPT ![g] = IF i = FragCount THEN NONE ELSE Remote]
  /\ given' = [given EXCEPT ![p] = i]
  /\ rx_access_cb(g, Remote, [pill |-> p, index |-> i, exclude |-> Remote])
  /\ UNCHANGED <<tx_queue, got, seen, relaying, sending, handed, echoed>>

-----------------------------------------------------------------------------
(***************************************************************************)
(* rx_task: one fragment through on_fragment up to the relay of a pill     *)
(* that it completes.  s_callback_exclude_addr is the address of that last *)
(* fragment until the callback returns.                                    *)
(***************************************************************************)
IsSeen(g, p) == RingContains(seen[g], p)

rx_task(g) ==
  /\ relaying[g] = NotRelaying /\ rx_queue[g] # << >>
  /\ rx_queue' = [rx_queue EXCEPT ![g] = Tail(@)]
  /\ LET f == Head(rx_queue[g])  have == got[g][f.pill] \cup {f.index} IN
       IF IsSeen(g, f.pill) THEN UNCHANGED <<got, seen, relaying, handed>>
       ELSE IF have # 1 .. FragCount
       THEN got' = [got EXCEPT ![g][f.pill] = have] /\ UNCHANGED <<seen, relaying, handed>>
       ELSE /\ got' = [got EXCEPT ![g][f.pill] = {}]
            /\ seen' = [seen EXCEPT ![g] = RingAdd(@, SeenSize, f.pill)]
            /\ handed' = [handed EXCEPT ![g][f.pill] = IF @ < 2 THEN @ + 1 ELSE @]
            /\ relaying' = [relaying EXCEPT ![g] = [pill |-> f.pill, at |-> 1, exclude |-> f.exclude]]
  /\ UNCHANGED <<tx_queue, sending, link, given, lost, echoed>>

(***************************************************************************)
(* send_action_pill_bytes and g2g_ble_send_fragment: fragment by fragment  *)
(* into the transmit queue; a full queue ends the relay halfway.           *)
(***************************************************************************)
send_action_pill_bytes(g) ==
  LET r == relaying[g] IN
  /\ r # NotRelaying
  /\ IF r.at > FragCount
     THEN /\ seen' = [seen EXCEPT ![g] = RingAdd(@, SeenSize, r.pill)]
          /\ relaying' = [relaying EXCEPT ![g] = NotRelaying]
          /\ UNCHANGED <<tx_queue, lost>>
     ELSE IF Len(tx_queue[g]) = TxQueueLen
     THEN relaying' = [relaying EXCEPT ![g] = NotRelaying] /\ lost' = TRUE /\ UNCHANGED <<tx_queue, seen>>
     ELSE /\ tx_queue' = [tx_queue EXCEPT ![g] =
                            Append(@, [pill |-> r.pill, index |-> r.at, exclude |-> r.exclude])]
          /\ relaying' = [relaying EXCEPT ![g].at = @ + 1]
          /\ UNCHANGED <<seen, lost>>
  /\ UNCHANGED <<rx_queue, got, sending, link, given, handed, echoed>>

-----------------------------------------------------------------------------
\* Faulty variant: one fragment from the peer is enough.
batch_excludes_peer_any(batch, p) == \E i \in DOMAIN batch : batch[i].exclude = p

\* The peer is left out only if every fragment came from it.
batch_excludes_peer(batch, p) == \A i \in DOMAIN batch : batch[i].exclude = p

\* tx_task: what the queue holds makes a batch.
tx_task(g) ==
  /\ sending[g] = NotSending /\ tx_queue[g] # << >>
  /\ tx_queue' = [tx_queue EXCEPT ![g] = << >>]
  /\ sending' = [sending EXCEPT ![g] =
       [batch |-> tx_queue[g], to |-> {p \in Near(g) : ~batch_excludes_peer(tx_queue[g], p)},
        peer |-> NONE, at |-> 1]]
  /\ UNCHANGED <<rx_queue, got, seen, relaying, link, given, handed, lost, echoed>>

Busy(p) == link[p] # NONE \/ sending[p].peer # NONE

\* Faulty variant: a peer that was served is served again.
send_batch_again(g) ==
  /\ sending[g] # NotSending /\ sending[g].peer = NONE
  /\ \E p \in sending[g].to :
       /\ ~Busy(p) /\ link[g] = NONE
       /\ sending' = [sending EXCEPT ![g].peer = p]
       /\ link' = [link EXCEPT ![p] = g]
  /\ UNCHANGED <<rx_queue, tx_queue, got, seen, relaying, given, handed, lost, echoed>>

(***************************************************************************)
(* send_batch_to_peer: the next peer is connected, or given up when the    *)
(* attempts are used up; with no peer left the batch is done.              *)
(***************************************************************************)
send_batch_to_peer(g) ==
  /\ sending[g] # NotSending /\ sending[g].peer = NONE
  /\ \/ /\ sending[g].to = {}
        /\ sending' = [sending EXCEPT ![g] = NotSending]
        /\ UNCHANGED <<link, lost>>
     \/ \E p \in sending[g].to :
          \/ /\ ~Busy(p) /\ link[g] = NONE
             /\ sending' = [sending EXCEPT ![g].to = @ \ {p}, ![g].peer = p]
             /\ link' = [link EXCEPT ![p] = g]
             /\ UNCHANGED lost
          \/ /\ Busy(p) \/ link[g] # NONE \/ Lossy
             /\ sending' = [sending EXCEPT ![g].to = @ \ {p}]
             /\ lost' = TRUE
             /\ UNCHANGED link
  /\ UNCHANGED <<rx_queue, tx_queue, got, seen, relaying, given, handed, echoed>>

\* One fragment is written; after the last one, or a failure, the link is ended.
write_fragment(g) ==
  LET s == sending[g] IN
  /\ s.peer # NONE
  /\ \/ /\ s.at <= Len(s.batch)
        /\ rx_access_cb(s.peer, g, s.batch[s.at])
        /\ sending' = [sending EXCEPT ![g].at = @ + 1]
        /\ echoed' = (echoed \/ \A i \in DOMAIN s.batch : s.batch[i].exclude = s.peer)
        /\ UNCHANGED link
     \/ /\ s.at > Len(s.batch) \/ Lossy
        /\ sending' = [sending EXCEPT ![g].peer = NONE, ![g].at = 1]
        /\ link' = [link EXCEPT ![s.peer] = NONE]
        /\ lost' = (lost \/ s.at <= Len(s.batch))
        /\ UNCHANGED <<rx_queue, echoed>>
  /\ UNCHANGED <<tx_queue, got, seen, relaying, given, handed>>

Tasks(g) ==
  rx_task(g) \/ send_action_pill_bytes(g) \/ tx_task(g) \/ send_batch_to_peer(g) \/ write_fragment(g)

Next ==
  \/ \E p \in Pills : remote_write(p)
  \/ \E g \in Guardians : Tasks(g)

Spec == Init /\ [][Next]_vars

\* Some task of a guardian or the remote control goes on while one can.
FairSpec == Spec /\ WF_vars(Next)

-----------------------------------------------------------------------------
TypeOK ==
  \A g \in Guardians :
    /\ rx_queue[g] \in Seq(Fragments) /\ Len(rx_queue[g]) <= RxQueueLen
    /\ tx_queue[g] \in Seq(Fragments) /\ Len(tx_queue[g]) <= TxQueueLen
    /\ got[g] \in [Pills -> SUBSET (1 .. FragCount)]
    /\ seen[g] \in Rings(SeenSize)
    /\ sending[g].to \subseteq Near(g) /\ sending[g].peer \in Near(g) \cup {NONE}
    /\ link[g] \in Guardians \cup {NONE, Remote}

Idle(g) ==
  /\ rx_queue[g] = << >> /\ tx_queue[g] = << >>
  /\ relaying[g] = NotRelaying /\ sending[g] = NotSending

Quiet == \A g \in Guardians : Idle(g)

(***************************************************************************)
(* Flooding reaches everybody: when the network is quiet after all pills   *)
(* were given and nothing was dropped on the way, every guardian has       *)
(* accepted every pill, in whatever batches they travelled                 *)
(* (batch_excludes_peer leaves out nobody who lacks a fragment).           *)
(***************************************************************************)
EveryoneReached ==
  Quiet /\ ~lost /\ (\A p \in Pills : given[p] = FragCount) =>
    \A g \in Guardians, p \in Pills : handed[g][p] > 0

(***************************************************************************)
(* A guardian accepts and relays each pill once, however many peers send   *)
(* it, while the seen cache has room for two entries of each pill.         *)
(***************************************************************************)
AcceptedOnce ==
  2 * Cardinality(Pills) <= SeenSize =>
    \A g \in Guardians, p \in Pills : handed[g][p] <= 1

(***************************************************************************)
(* A fragment goes back to the guardian it came from only in a batch with  *)
(* fragments from elsewhere (s_callback_exclude_addr, batch_excludes_peer).*)
(***************************************************************************)
NotEchoed == ~echoed

(***************************************************************************)
(* The network becomes quiet: pills do not circle for ever between         *)
(* guardians that relay what they hear, and no two guardians that want to  *)
(* send to each other wait for ever.                                       *)
(***************************************************************************)
BecomesQuiet == <>[]Quiet
=============================================================================
