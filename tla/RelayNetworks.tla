--------------------------- MODULE RelayNetworks ----------------------------
(***************************************************************************)
(* Small networks, one of which a behaviour is about: two guardians that   *)
(* get a pill each; a row of three that get a pill at each end, with pills *)
(* of one fragment; three guardians within reach of each other and one     *)
(* pill.  As in the code a pill fits the transmit queue and two pills of   *)
(* several fragments do not.                                               *)
(***************************************************************************)
EXTENDS Naturals

VARIABLES rx_queue, tx_queue, got, seen, relaying, sending, link, given, handed, lost, echoed,
  net   \* the network

EntryOfTwo(p) == IF p = "pill1" THEN "a" ELSE "b"
EntryOfRow(p) == IF p = "pill1" THEN "a" ELSE "c"
OtherOfTwo(g) == {"a", "b"} \ {g}
InARow(g) == IF g = "b" THEN {"a", "c"} ELSE {"b"}
OthersOfThree(g) == {"a", "b", "c"} \ {g}

Pair == INSTANCE RelayNetwork WITH
  Digests <- {"zero", "pill1", "pill2"}, Zero <- "zero", NONE <- "none", Remote <- "remote",
  Guardians <- {"a", "b"}, Near <- OtherOfTwo, Entry <- EntryOfTwo,
  FragCount <- 2, RxQueueLen <- 3, TxQueueLen <- 3, SeenSize <- 4, Lossy <- TRUE

Row == INSTANCE RelayNetwork WITH
  Digests <- {"zero", "pill1", "pill2"}, Zero <- "zero", NONE <- "none", Remote <- "remote",
  Guardians <- {"a", "b", "c"}, Near <- InARow, Entry <- EntryOfRow,
  FragCount <- 1, RxQueueLen <- 2, TxQueueLen <- 2, SeenSize <- 4, Lossy <- TRUE

Mesh == INSTANCE RelayNetwork WITH
  Digests <- {"zero", "pill1"}, Zero <- "zero", NONE <- "none", Remote <- "remote",
  Guardians <- {"a", "b", "c"}, Near <- OthersOfThree, Entry <- EntryOfRow,
  FragCount <- 2, RxQueueLen <- 3, TxQueueLen <- 3, SeenSize <- 4, Lossy <- TRUE

NetworksAssumption == Pair!RelayAssumption /\ Row!RelayAssumption /\ Mesh!RelayAssumption

Init ==
  \/ net = "pair" /\ Pair!Init
  \/ net = "row" /\ Row!Init
  \/ net = "mesh" /\ Mesh!Init

Next ==
  \/ net = "pair" /\ Pair!Next /\ UNCHANGED net
  \/ net = "row" /\ Row!Next /\ UNCHANGED net
  \/ net = "mesh" /\ Mesh!Next /\ UNCHANGED net

-----------------------------------------------------------------------------
\* The queues, the seen caches and the links have their types.
TypeOK == CASE net = "pair" -> Pair!TypeOK [] net = "row" -> Row!TypeOK [] net = "mesh" -> Mesh!TypeOK

\* What was given and never dropped reaches every guardian (see RelayNetwork).
EveryoneReached ==
  CASE net = "pair" -> Pair!EveryoneReached
    [] net = "row" -> Row!EveryoneReached
    [] net = "mesh" -> Mesh!EveryoneReached

\* A guardian accepts and relays each pill once (see RelayNetwork).
AcceptedOnce ==
  CASE net = "pair" -> Pair!AcceptedOnce
    [] net = "row" -> Row!AcceptedOnce
    [] net = "mesh" -> Mesh!AcceptedOnce

\* No fragment goes straight back (see RelayNetwork).
NotEchoed == ~echoed

\* The flood ends, in whatever network (see RelayNetwork).
BecomesQuiet ==
  <>[](CASE net = "pair" -> Pair!Quiet [] net = "row" -> Row!Quiet [] net = "mesh" -> Mesh!Quiet)
=============================================================================
