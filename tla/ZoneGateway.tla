---------------------------- MODULE ZoneGateway -----------------------------
(***************************************************************************)
(* The zone gateway (zone_gateway.c): a task that waits for the uplink,    *)
(* turns on address translation for the zone and watches the uplink, next  *)
(* to the Wi-Fi manager that tells it about the uplink.                    *)
(***************************************************************************)
EXTENDS WifiManager

CONSTANTS MaxStarts   \* bound on the starts of the gateway

VARIABLES
  gw,       \* s_state, s_napt_enabled, s_stop_requested
  task,     \* where the task is; "none" while s_task is NULL
  napt,     \* external: address translation is on
  starts,   \* how often the gateway was started
  undone    \* history: address translation could not be turned off

gateway == <<gw, task, napt, starts, undone>>
vars == <<wifi, gateway>>

Init ==
  /\ WifiInit
  /\ gw = [state |-> "STOPPED", napt |-> FALSE, stop |-> FALSE]
  /\ task = "none" /\ napt = FALSE /\ starts = 0 /\ undone = FALSE

-----------------------------------------------------------------------------
\* A task that still runs answers for the start, even if it was told to stop.
zone_gateway_start ==
  /\ task = "none" /\ starts < MaxStarts
  /\ starts' = starts + 1
  /\ \/ gw' = [state |-> "WAITING_UPLINK", napt |-> FALSE, stop |-> FALSE] /\ task' = "wait"
     \/ gw' = [state |-> "ERROR", napt |-> FALSE, stop |-> FALSE] /\ task' = "none"
  /\ UNCHANGED <<napt, undone>>

zone_gateway_stop ==
  /\ task # "none"
  /\ gw' = [gw EXCEPT !.stop = TRUE]
  /\ UNCHANGED <<task, napt, starts, undone>>

\* Faulty variant: the request to stop is not looked at, and there is no time limit.
wait_for_ever ==
  /\ task = "wait" /\ has_ip
  /\ task' = "enable"
  /\ UNCHANGED <<gw, napt, starts, undone>>

\* The address is there, the time is up, or a stop ends the wait.
wait_for_uplink_ip ==
  /\ task = "wait"
  /\ \/ ~gw.stop /\ has_ip /\ task' = "enable" /\ UNCHANGED gw
     \/ (gw.stop \/ ~has_ip) /\ task' = "none" /\ gw' = [gw EXCEPT !.state = "ERROR"]
  /\ UNCHANGED <<napt, starts, undone>>

enable_gateway_napt ==
  /\ task = "enable"
  /\ \/ /\ st.group /\ napt' = TRUE
        /\ gw' = [gw EXCEPT !.napt = TRUE, !.state = "RUNNING"] /\ task' = "watch"
     \/ gw' = [gw EXCEPT !.state = "ERROR"] /\ task' = "none" /\ UNCHANGED napt
  /\ UNCHANGED <<starts, undone>>

\* The loop of gateway_task with auto_recover.
watch_uplink ==
  /\ task = "watch" /\ ~gw.stop
  /\ gw' = [gw EXCEPT !.state = IF ~has_ip THEN "WAITING_UPLINK"
                                ELSE IF @ = "WAITING_UPLINK" THEN "RUNNING" ELSE @]
  /\ UNCHANGED <<task, napt, starts, undone>>

\* Faulty variant: the task ends before address translation is off.
gateway_task_ends_early ==
  /\ task = "watch" /\ gw.stop
  /\ gw' = [gw EXCEPT !.state = "STOPPED"] /\ task' = "none"
  /\ UNCHANGED <<napt, starts, undone>>

\* disable_gateway_napt and the end of the task
gateway_task_end ==
  /\ task = "watch" /\ gw.stop
  /\ \/ napt' = FALSE /\ gw' = [gw EXCEPT !.napt = FALSE, !.state = "STOPPED"] /\ UNCHANGED undone
     \/ gw' = [gw EXCEPT !.state = "STOPPED"] /\ undone' = TRUE /\ UNCHANGED napt
  /\ task' = "none"
  /\ UNCHANGED starts

gateway_task == wait_for_uplink_ip \/ enable_gateway_napt \/ watch_uplink \/ gateway_task_end

Next ==
  \/ WifiNext /\ UNCHANGED gateway
  \/ /\ zone_gateway_start \/ zone_gateway_stop \/ gateway_task
     /\ UNCHANGED wifi

Spec == Init /\ [][Next]_vars

\* The tasks run, and the router answers.
FairSpec ==
  /\ Spec /\ WF_vars(handle_event /\ UNCHANGED gateway)
  /\ WF_vars(call # "none" /\ WifiCall /\ UNCHANGED gateway)
  /\ WF_vars(gateway_task /\ UNCHANGED wifi)
  /\ SF_vars(RouterServes /\ UNCHANGED gateway)

-----------------------------------------------------------------------------
TypeOK ==
  /\ WifiTypeOK
  /\ gw \in [state : {"STOPPED", "WAITING_UPLINK", "RUNNING", "ERROR"}, napt : BOOLEAN, stop : BOOLEAN]
  /\ task \in {"none", "wait", "enable", "watch"}

(***************************************************************************)
(* What the manager reports is true once the events that wait are handled: *)
(* the address and the number of clients (HasIpIsTrue, ClientsCounted);    *)
(* and everything keeps its type.                                          *)
(***************************************************************************)
ReportsAreTrue == TypeOK /\ HasIpIsTrue /\ ClientsCounted

(***************************************************************************)
(* Address translation does not outlive the task, unless turning it off    *)
(* failed; while the task watches, it is on, whatever stops and starts     *)
(* came (gateway_task, zone_gateway_start).                                *)
(***************************************************************************)
NaptWithTask ==
  /\ napt => task = "watch" \/ undone
  /\ task = "watch" => napt /\ gw.napt

(***************************************************************************)
(* The reported state follows the uplink: if from some time on the task    *)
(* watches and the address stays, the gateway ends up RUNNING; if the      *)
(* address stays away, WAITING_UPLINK.                                     *)
(***************************************************************************)
StateFollowsUplink ==
  /\ <>[](task = "watch" /\ ~gw.stop /\ has_ip) => <>[](gw.state = "RUNNING")
  /\ <>[](task = "watch" /\ ~gw.stop /\ ~has_ip) => <>[](gw.state = "WAITING_UPLINK")

(***************************************************************************)
(* A stop is carried out: the task ends, wherever it was.                  *)
(***************************************************************************)
StopEnds == gw.stop ~> task = "none"

(***************************************************************************)
(* The gateway follows the uplink and its stop: the two above together     *)
(* (gateway_task).                                                         *)
(***************************************************************************)
GatewayFollows == StateFollowsUplink /\ StopEnds

(***************************************************************************)
(* If attempts and links do not fail any more the station gets an address, *)
(* unless its retries were used up before, a disconnection was left        *)
(* unanswered during a switch, or the manager was stopped or is in access  *)
(* point mode; and it does not give up before (handle_wifi_event).         *)
(***************************************************************************)
Reconnects ==
  /\ []GivesUpLate
  /\ <>[][radio.sta # "down" => radio'.sta # "down"]_vars =>
       []<>(has_ip \/ GaveUp \/ ignored \/ refused \/ ~st.started \/ st.ap_only)
=============================================================================
