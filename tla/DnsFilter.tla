----------------------------- MODULE DnsFilter ------------------------------
(***************************************************************************)
(* The DNS filter (dns_filter.c) while it runs: dns_task answers blocked   *)
(* and redirected names itself and queues the others for dns_worker_task,  *)
(* which asks the upstream server over one socket, for one query at a      *)
(* time.  A query is a number; a rule's pattern is the set of names it     *)
(* matches.  dns_filter_stop deletes the queue that the worker waits on:   *)
(* what follows is undefined and not modelled.                             *)
(***************************************************************************)
EXTENDS RuleTable, Sequences, FiniteSetsExt

CONSTANTS
  Domains,         \* names asked for
  DnsRules,        \* the rules callers add: [match, priority, action]
  default_allow,   \* s_config.default_allow
  QueueLen,        \* DNS_JOB_QUEUE_LEN
  Attempts,        \* how often a query is sent when memory lacks: 3
  MaxQueries,      \* bound on the queries
  MaxRuleIds       \* bound on the ids given out

DnsAssumption ==
  /\ QueueLen \in Nat \ {0} /\ Attempts \in Nat \ {0} /\ default_allow \in BOOLEAN
  /\ \A r \in DnsRules : r.action \in {"ALLOW", "BLOCK", "REDIRECT"} /\ r.priority \in Nat

VARIABLES
  rules,      \* s_rules, active_rules, s_next_rule_id
  asked,      \* the name of each query received
  queue,      \* s_dns_queue: numbers of queries
  worker,     \* dns_worker_task: its query (0: none), sends tried, whether it waits for an answer
  upstream,   \* external: the queries the server has not answered, in the order sent
  socket,     \* external: answers that wait in s_upstream_sock, in the order they came
  answer,     \* history: what each query's client got: NONE, FILTER, FAILED or a query's number
  owed        \* history: answers that may still come on this socket for queries given up

vars == <<rules, asked, queue, worker, upstream, socket, answer, owed>>

Queries == 1 .. MaxQueries
NONE == 0
FILTER == MaxQueries + 1
FAILED == MaxQueries + 2
Idle == [job |-> 0, tried |-> 0, waits |-> FALSE]

Init ==
  /\ rules = NoRules /\ asked = <<>> /\ queue = <<>> /\ worker = Idle
  /\ upstream = <<>> /\ socket = <<>> /\ owed = 0
  /\ answer = [q \in Queries |-> NONE]

-----------------------------------------------------------------------------
dns_filter_add_rule(r) ==
  /\ rules.next_rule_id <= MaxRuleIds
  /\ rules' = add_rule(rules, [rule_id |-> 0, match |-> r.match, priority |-> r.priority,
                               action |-> r.action])
  /\ UNCHANGED <<asked, queue, worker, upstream, socket, answer, owed>>

dns_filter_remove_rule(id) ==
  /\ find_rule_slot(rules, id) # 0
  /\ rules' = drop_rules(rules, {find_rule_slot(rules, id)})
  /\ UNCHANGED <<asked, queue, worker, upstream, socket, answer, owed>>

domain_match(rule, domain) == fields_match(rule, [domain |-> domain])

dns_filter_evaluate_domain(domain) ==
  LET best == best_rule(rules, {i \in DOMAIN rules.slots : domain_match(rules.slots[i], domain)})
  IN IF best # 0 THEN rules.slots[best].action
     ELSE IF default_allow THEN "ALLOW" ELSE "BLOCK"

\* A query that arrives: answered here, queued, or dropped when the queue is full.
dns_task(domain) ==
  LET q == Len(asked) + 1
      action == dns_filter_evaluate_domain(domain)
  IN /\ q \in Queries
     /\ asked' = Append(asked, domain)
     /\ IF action # "ALLOW" THEN answer' = [answer EXCEPT ![q] = FILTER] /\ UNCHANGED queue
        ELSE IF Len(queue) < QueueLen THEN queue' = Append(queue, q) /\ UNCHANGED answer
        ELSE answer' = [answer EXCEPT ![q] = FAILED] /\ UNCHANGED queue
     /\ UNCHANGED <<rules, worker, upstream, socket, owed>>

-----------------------------------------------------------------------------
worker_receive ==
  /\ worker.job = 0 /\ queue # <<>>
  /\ worker' = [Idle EXCEPT !.job = Head(queue)]
  /\ queue' = Tail(queue)
  /\ UNCHANGED <<rules, asked, upstream, socket, answer, owed>>

Done(result) == answer' = [answer EXCEPT ![worker.job] = result] /\ worker' = Idle

\* The socket is closed; the answers in it and those on their way are lost.
CloseUpstream == socket' = <<>> /\ upstream' = <<>> /\ owed' = 0

Sending == worker.job # 0 /\ ~worker.waits

\* Faulty variant: a query that was sent is sent again.
send_upstream_all ==
  /\ Sending
  /\ upstream' = upstream \o [i \in 1 .. Attempts |-> worker.job]
  /\ worker' = [worker EXCEPT !.waits = TRUE]
  /\ UNCHANGED <<rules, asked, queue, socket, answer, owed>>

\* Opens the socket if need be, and sends; without memory it is tried again.
send_upstream ==
  /\ Sending
  /\ \/ /\ upstream' = Append(upstream, worker.job)
        /\ worker' = [worker EXCEPT !.waits = TRUE]
        /\ UNCHANGED <<socket, answer, owed>>
     \/ /\ worker.tried + 1 < Attempts
        /\ worker' = [worker EXCEPT !.tried = @ + 1]
        /\ UNCHANGED <<upstream, socket, answer, owed>>
     \/ Done(FAILED) /\ CloseUpstream
  /\ UNCHANGED <<rules, asked, queue>>

\* The first answer in the socket is taken for the answer; the wait ends after a second.
recv_upstream ==
  /\ worker.waits
  /\ IF socket # <<>> THEN Done(Head(socket)) /\ socket' = Tail(socket) /\ UNCHANGED owed
                      ELSE Done(FAILED) /\ owed' = owed + 1 /\ UNCHANGED socket
  /\ UNCHANGED <<rules, asked, queue, upstream>>

forward_dns_to_upstream == send_upstream \/ recv_upstream

dns_worker_task == worker_receive \/ forward_dns_to_upstream

\* external: the server answers the queries in order, late or not at all
ServerAnswers ==
  /\ upstream # <<>>
  /\ upstream' = Tail(upstream) /\ socket' = Append(socket, Head(upstream))
  /\ UNCHANGED <<rules, asked, queue, worker, answer, owed>>

ServerLoses ==
  /\ upstream # <<>>
  /\ upstream' = Tail(upstream)
  /\ UNCHANGED <<rules, asked, queue, worker, socket, answer, owed>>

Next ==
  \/ \E r \in DnsRules : dns_filter_add_rule(r)
  \/ \E id \in 1 .. MaxRuleIds : dns_filter_remove_rule(id)
  \/ \E d \in Domains : dns_task(d)
  \/ dns_worker_task \/ ServerAnswers \/ ServerLoses

Spec == Init /\ [][Next]_vars

\* The worker runs, and its waits have time limits.
FairSpec == Spec /\ WF_vars(dns_worker_task)

-----------------------------------------------------------------------------
TypeOK ==
  /\ Len(asked) <= MaxQueries /\ Len(queue) <= QueueLen
  /\ worker \in [job : {0} \cup Queries, tried : 0 .. Attempts - 1, waits : BOOLEAN]
  /\ answer \in [Queries -> Queries \cup {NONE, FILTER, FAILED}]

(***************************************************************************)
(* A client gets the answer to its own query as long as no query was given *)
(* up on the socket in use.  After one was, its answer may come late and   *)
(* is taken for that of the next query: recvfrom does not compare them.    *)
(***************************************************************************)
AnswersOwn ==
  [][\A q \in Queries :
       answer[q] = NONE /\ answer'[q] \in Queries => answer'[q] = q \/ owed > 0]_vars

(***************************************************************************)
(* Each name is treated as its rule of the highest priority says, the last *)
(* one of equal priority, or as the default says.                          *)
(***************************************************************************)
HighestPriorityPrevails ==
  \A d \in Domains :
    LET M == {i \in DOMAIN rules.slots : d \in rules.slots[i].match.domain}
        Top == {i \in M : \A j \in M : rules.slots[j].priority <= rules.slots[i].priority}
    IN dns_filter_evaluate_domain(d) =
         IF M = {} THEN (IF default_allow THEN "ALLOW" ELSE "BLOCK")
         ELSE rules.slots[Max(Top)].action

(***************************************************************************)
(* A query that was received comes to an end: the filter's own answer, the *)
(* server's, or an error.                                                  *)
(***************************************************************************)
QueriesEnd == []<>(\A q \in DOMAIN asked : answer[q] # NONE)
=============================================================================
