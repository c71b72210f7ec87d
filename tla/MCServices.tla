----------------------------- MODULE MCServices -----------------------------
(***************************************************************************)
(* What answers to others: the broker, the event bus, the DNS filter,      *)
(* networks of guardians that relay, and the reassembly under a sender     *)
(* that repeats its pills.  A behaviour is about one of them (part); the   *)
(* others stay as they are initially.                                      *)
(*                                                                         *)
(* Broker: two devices and the local client share two slots; two broker    *)
(* tasks in a row; two commands.                                           *)
(***************************************************************************)
EXTENDS MqttBroker

(***************************************************************************)
(* The event bus: two kinds of event, a queue of two, two listeners.       *)
(***************************************************************************)
VARIABLES initialized, queue, listeners, dispatcher, accepted, heard

Bus == INSTANCE EventBus WITH
  Events <- {"JOINED", "QUARANTINED"}, Callbacks <- {"cb"}, QueueLen <- 2, MaxListeners <- 2,
  MaxAccepted <- 4

(***************************************************************************)
(* The DNS filter: a rule for one name, a rule for all names and one that  *)
(* allows, in two slots; three queries for a queue of one.                 *)
(***************************************************************************)
VARIABLES rules, asked, dns_queue, worker, upstream, socket, answer, owed

Names == {"example.com", "ads.example.com"}

DnsRule(names, priority, action) ==
  [match |-> [domain |-> names], priority |-> priority, action |-> action]

Dns == INSTANCE DnsFilter WITH
  queue <- dns_queue, Keys <- [domain : Names], MaxRules <- 2, OwnIds <- {}, Domains <- Names,
  DnsRules <- {DnsRule({"ads.example.com"}, 2, "BLOCK"), DnsRule(Names, 1, "REDIRECT"),
               DnsRule(Names, 2, "ALLOW")},
  default_allow <- TRUE, QueueLen <- 1, Attempts <- 2, MaxQueries <- 3, MaxRuleIds <- 2

(***************************************************************************)
(* Reassembly: two messages that are sent again and again, and one that is *)
(* abandoned after its first fragment, in a slot of its own.               *)
(***************************************************************************)
VARIABLES rx_slots, seen_cache, handed

Pill == [len |-> 5, count |-> 2]

Piece(id, index) == [id |-> id, shape |-> Pill, index |-> index, sound |-> TRUE]

LiveArriving == {Piece(m, i) : m \in {"m1", "m2"}, i \in 0 .. 1} \cup {Piece("m3", 0)}

Re == INSTANCE Reassembly WITH
  Digests <- {"m1", "m2", "m3"}, Zero <- "m1", RxSlots <- 3, SeenSize <- 4, Shapes <- {Pill},
  PillLen <- 5, HashMayFail <- FALSE, Arriving <- LiveArriving, MaxHanded <- 4,
  Resent <- {"m1", "m2"}

(***************************************************************************)
(* Networks: see RelayNetworks.                                            *)
(***************************************************************************)
VARIABLES rx_queue, tx_queue, got, net_seen, relaying, sending, link, given, net_handed, lost,
  echoed, net

Networks == INSTANCE RelayNetworks WITH seen <- net_seen, handed <- net_handed

ASSUME Networks!NetworksAssumption /\ Bus!BusAssumption /\ Dns!DnsAssumption /\ Dns!RuleAssumption

-----------------------------------------------------------------------------
VARIABLE part   \* what the behaviour is about

bus == <<initialized, queue, listeners, dispatcher, accepted, heard>>
dns == <<rules, asked, dns_queue, worker, upstream, socket, answer, owed>>
reassembly == <<rx_slots, seen_cache, handed>>
network == <<rx_queue, tx_queue, got, net_seen, relaying, sending, link, given, net_handed, lost,
             echoed, net>>
allvars == <<vars, bus, dns, reassembly, network, part>>

MCInit ==
  /\ Init /\ Bus!BusInit /\ Dns!Init /\ Re!Init /\ Networks!Init
  /\ part \in {"broker", "bus", "dns", "reassembly", "network"}
  /\ part # "network" => net = "pair"

InBroker(A) == part = "broker" /\ A /\ UNCHANGED <<bus, dns, reassembly, network, part>>
InBus(A) == part = "bus" /\ A /\ UNCHANGED <<vars, dns, reassembly, network, part>>
InDns(A) == part = "dns" /\ A /\ UNCHANGED <<vars, bus, reassembly, network, part>>
InReassembly(A) == part = "reassembly" /\ A /\ UNCHANGED <<vars, bus, dns, network, part>>
InNetwork(A) == part = "network" /\ A /\ UNCHANGED <<vars, bus, dns, reassembly, part>>

MCNext ==
  \/ InBroker(Next) \/ InBus(Bus!Next) \/ InDns(Dns!Next)
  \/ InReassembly(Re!Next) \/ InNetwork(Networks!Next)

\* The fairness of each part, as its module states it.
MCFairSpec ==
  /\ MCInit /\ [][MCNext]_allvars
  /\ \A t \in TaskIds : WF_allvars(InBroker(broker_task(t)))
  /\ WF_allvars(InBroker(Handlers)) /\ WF_allvars(InBroker(local_mqtt_publish))
  /\ WF_allvars(InBus(Bus!dispatch_task))
  /\ WF_allvars(InDns(Dns!dns_worker_task))
  /\ WF_allvars(InNetwork(Networks!Next))
  /\ \A f \in LiveArriving :
       f.id # "m3" => WF_allvars(InReassembly(Re!handle_received_fragment(f)))

-----------------------------------------------------------------------------
(***************************************************************************)
(* EventBus: what a listener was called with, the event in hand and the    *)
(* queue are together the events accepted since it subscribed, each once   *)
(* and in order (dispatch_task).                                           *)
(***************************************************************************)
HeardInOrder == Bus!BusTypeOK /\ Bus!HeardInOrder

(***************************************************************************)
(* DnsFilter: each name is treated as its rule of the highest priority     *)
(* says, the last one of equal priority, or as the default says            *)
(* (dns_filter_evaluate_domain); and a client whose query goes upstream    *)
(* gets the answer to it as long as no query was given up on the socket in *)
(* use (recvfrom of dns_worker_task does not compare).                     *)
(***************************************************************************)
AnswersRight == [](Dns!TypeOK /\ Dns!HighestPriorityPrevails) /\ Dns!AnswersOwn

(***************************************************************************)
(* RelayNetwork: when the network is quiet, every pill was given and       *)
(* nothing was dropped, every guardian has accepted every pill, in         *)
(* whatever batches they travelled (batch_excludes_peer).  It accepts and  *)
(* relays each pill once, however many peers send it (add_seen), and a     *)
(* fragment goes back to the guardian it came from only in a batch with    *)
(* fragments from elsewhere.                                               *)
(***************************************************************************)
DeliveredOnce ==
  Networks!TypeOK /\ Networks!EveryoneReached /\ Networks!AcceptedOnce /\ Networks!NotEchoed

(***************************************************************************)
(* RelayNetwork: pills do not circle for ever between guardians that relay *)
(* what they hear, and no two that send to each other wait for ever        *)
(* (handle_received_fragment, tx_task).                                    *)
(***************************************************************************)
BecomesQuiet == Networks!BecomesQuiet

(***************************************************************************)
(* Whatever a service took on is done in the end: a command published      *)
(* without error is handled unless Mosquitto ended after its publication   *)
(* began (local_mqtt_publish), every accepted event is heard               *)
(* (dispatch_task), and a query comes to an end (dns_worker_task).         *)
(***************************************************************************)
ServicesAnswer == PublishedIsHandled /\ Bus!AcceptedIsHeard /\ Dns!QueriesEnd

(***************************************************************************)
(* Reassembly: unless the Guardian restarts for ever, a message that is    *)
(* sent again and again is handed on although another was abandoned half-  *)
(* way (handle_received_fragment never wedges a slot).                     *)
(***************************************************************************)
ResentIsHanded ==
  []<><<Re!Restart>>_reassembly \/ \A id \in {"m1", "m2"} : []<>(part = "reassembly" => Re!Handed(id))
=============================================================================
