----------------------------- MODULE Conscience -----------------------------
(***************************************************************************)
(* The conscience (conscience/main.rs): the boot into setup or normal      *)
(* mode, the admin window that the setup button opens, the handler of      *)
(* received pills and the listener on the event bus, each in a task of its *)
(* own, around the admin server.  The configuration is all that outlives a *)
(* restart.                                                                *)
(***************************************************************************)
EXTENDS AdminServer, Sequences

CONSTANTS
  QueueLen,   \* length of the event bus's queue
  MaxJoins    \* bound on the clients that join the AP in a boot

\* The event bus's task and the one that restarts after a save stop the server too.
ASSUME ConscienceAssumption == {"event", "restart_later"} \subseteq StopTasks /\ QueueLen \in Nat

VARIABLES
  config,       \* flash: whether config::load finds a configuration
  boot,         \* the main task: the next step of run
  hold,         \* the button's task: the next step of on_admin_setup_button_hold
  active,       \* ADMIN_WINDOW_ACTIVE
  has_client,   \* ADMIN_WINDOW_HAS_CLIENT
  label,        \* CURRENT_STATE
  pill,         \* the task that receives pills: where it is, and previous_state
  services,     \* what was started and not told to stop since: g2g, mqtt
  wifi,         \* off, apsta, ap
  joins,        \* number of clients that joined the AP, and that left it
  bus,          \* events of clients on their way through the event bus
  scope,        \* what a behaviour is limited to: it has pills, or requests to the admin server
  early         \* history: the button was held before the boot, or a pill, was done

kept == <<config, scope>>
ownvars == <<kept, boot, hold, active, has_client, label, pill, services, wifi, joins, bus, early>>
vars == <<adminvars, ownvars>>

NoPill == [pc |-> "idle"]

OwnBoot ==
  [boot |-> "boot", hold |-> "idle", label |-> "Boot", joins |-> [in |-> 0, out |-> 0]]

Init ==
  /\ AdminInit
  /\ config \in BOOLEAN /\ scope \in {"pills", "requests"}
  /\ boot = "boot" /\ hold = "idle" /\ active = FALSE /\ has_client = FALSE /\ label = "Boot"
  /\ pill = NoPill /\ services = {} /\ wifi = "off" /\ joins = OwnBoot.joins /\ bus = <<>>
  /\ early = {}

esp_restart ==
  /\ AdminRestart
  /\ boot' = "boot" /\ hold' = "idle" /\ active' = FALSE /\ has_client' = FALSE /\ label' = "Boot"
  /\ pill' = NoPill /\ services' = {} /\ wifi' = "off" /\ joins' = OwnBoot.joins /\ bus' = <<>>
  /\ early' = {}
  /\ UNCHANGED kept

-----------------------------------------------------------------------------
\* The main task.  An error of any step aborts, and the guardian restarts.
run ==
  /\ boot = "boot"
  /\ IF config THEN boot' = "wifi" /\ label' = "NormalCore"
               ELSE boot' = "setup_ap" /\ label' = "Setup"
  /\ UNCHANGED <<adminvars, kept, hold, active, has_client, pill, services, wifi, joins, bus, early>>

enter_setup_mode ==
  \/ /\ boot = "setup_ap" /\ boot' = "setup_admin" /\ wifi' = "ap"
     /\ UNCHANGED adminvars
     /\ UNCHANGED <<kept, hold, active, has_client, label, pill, services, joins, bus, early>>
  \/ /\ boot = "setup_admin" /\ boot' = "setup_start"
     /\ start_begin("bootstrap")
     /\ UNCHANGED <<kept, hold, active, has_client, label, pill, services, wifi, joins, bus, early>>
  \/ /\ boot = "setup_start" /\ opener = "opened" /\ boot' = "setup"
     /\ UNCHANGED adminvars
     /\ UNCHANGED <<kept, hold, active, has_client, label, pill, services, wifi, joins, bus, early>>

\* Device registry and Wi-Fi; pipeline and button; broker; G2G.
enter_normal_mode ==
  /\ \/ boot = "wifi" /\ boot' = "button" /\ wifi' = "apsta" /\ UNCHANGED <<services, label>>
     \/ boot = "button" /\ boot' = "mqtt" /\ UNCHANGED <<wifi, services, label>>
     \/ /\ boot = "mqtt" /\ boot' = "g2g"
        /\ services' = services \cup {"mqtt"} /\ UNCHANGED <<wifi, label>>
     \/ /\ boot = "g2g" /\ boot' = "online"
        /\ services' = services \cup {"g2g"} /\ UNCHANGED <<wifi, label>>
     \/ boot = "online" /\ boot' = "done" /\ label' = "NormalOnline" /\ UNCHANGED <<wifi, services>>
  /\ UNCHANGED <<adminvars, kept, hold, active, has_client, pill, joins, bus, early>>

Booting == boot \notin {"setup", "done"}

boot_fails == Booting /\ (boot = "setup_start" => opener = "failed") /\ esp_restart

\* A registration on a server that is gone, or httpd_stop of one that is freed.
abort ==
  /\ \/ start_aborts
     \/ \E t \in StopTasks : stops[t].pc \in {"httpd_stop", "wait"} /\ httpd = "gone"
  /\ esp_restart

-----------------------------------------------------------------------------
ButtonRuns == boot \in {"mqtt", "g2g", "online", "done"}

\* The button's task calls this after the button was held long enough.
hold_begin ==
  /\ ButtonRuns /\ hold = "idle"
  /\ ~active
  /\ active' = TRUE /\ has_client' = FALSE /\ label' = "Admin"
  /\ hold' = "g2g"
  /\ early' = (IF Booting THEN {"boot"} ELSE {}) \cup (IF pill.pc # "idle" THEN {"pill"} ELSE {})
  /\ UNCHANGED <<adminvars, kept, boot, pill, services, wifi, joins, bus>>

\* Faulty variant: the broker is not stopped.
quiescent_but_mqtt ==
  /\ \/ hold = "g2g" /\ hold' = "mqtt" /\ services' = services \ {"g2g"}
     \/ hold = "mqtt" /\ hold' = "wifi" /\ UNCHANGED services
  /\ UNCHANGED <<adminvars, kept, boot, active, has_client, label, pill, wifi, joins, bus, early>>

\* The DNS filter and the gateway do not run; their stops change nothing.
enter_admin_quiescent_mode ==
  /\ \/ hold = "g2g" /\ hold' = "mqtt" /\ services' = services \ {"g2g"}
     \/ hold = "mqtt" /\ hold' = "wifi" /\ services' = services \ {"mqtt"}
  /\ UNCHANGED <<adminvars, kept, boot, active, has_client, label, pill, wifi, joins, bus, early>>

switch_to_ap ==
  /\ hold = "wifi" /\ hold' = "open" /\ wifi' = "ap"
  /\ UNCHANGED <<adminvars, kept, boot, active, has_client, label, pill, services, joins, bus, early>>

open_window ==
  /\ hold = "open" /\ hold' = "opening"
  /\ start_begin("maintenance")
  /\ UNCHANGED <<kept, boot, active, has_client, label, pill, services, wifi, joins, bus, early>>

hold_end ==
  /\ hold = "opening" /\ opener = "opened"
  /\ hold' = "idle"
  /\ UNCHANGED <<adminvars, kept, boot, active, has_client, label, pill, services, wifi, joins, bus, early>>

\* The switch to the admin AP or the opening of the window failed.
hold_fails ==
  /\ hold = "wifi" \/ (hold = "opening" /\ opener = "failed")
  /\ esp_restart

hold_proceeds ==
  enter_admin_quiescent_mode \/ switch_to_ap \/ open_window \/ hold_end \/ hold_fails

on_admin_setup_button_hold == hold_begin \/ hold_proceeds

\* Called by the task that stopped the server; it also restarts after a save.
on_admin_window_closed ==
  (\E t \in StopTasks : stops[t].pc \in {"notify", "restart"}) /\ esp_restart

-----------------------------------------------------------------------------
save_post_handler ==
  /\ Serves("bootstrap")
  /\ config' = TRUE
  /\ CreateTask("restart_later")
  /\ UNCHANGED <<admin, opener, timer, httpd, request, fresh, handed, spent, crossed>>
  /\ UNCHANGED <<scope, boot, hold, active, has_client, label, pill, services, wifi, joins, bus, early>>

\* Relaying and digesting are modelled in Pipeline.
on_action_pill_received ==
  /\ \/ /\ scope = "pills" /\ "g2g" \in services /\ pill.pc = "idle"
        /\ pill' = [pc |-> "received", previous |-> label] /\ UNCHANGED label
     \/ pill.pc = "received" /\ label' = "ActionPillRelay" /\ pill' = [pill EXCEPT !.pc = "relay"]
     \/ pill.pc = "relay" /\ label' = "ActionPillDigest" /\ pill' = [pill EXCEPT !.pc = "digest"]
     \/ pill.pc = "digest" /\ label' = pill.previous /\ pill' = NoPill
  /\ UNCHANGED <<adminvars, kept, boot, hold, active, has_client, services, wifi, joins, bus, early>>

\* Clients join and leave the AP; the switch to the admin AP drops them too.
publish_ap_client_event ==
  /\ boot = "button" \/ ButtonRuns
  /\ \/ /\ joins.in < MaxJoins /\ joins' = [joins EXCEPT !.in = @ + 1]
        /\ bus' = IF Len(bus) < QueueLen THEN Append(bus, "JOINED") ELSE bus
     \/ /\ joins.out < joins.in /\ joins' = [joins EXCEPT !.out = @ + 1]
        /\ bus' = IF Len(bus) < QueueLen THEN Append(bus, "LEFT") ELSE bus
  /\ UNCHANGED <<adminvars, kept, boot, hold, active, has_client, label, pill, services, wifi, early>>

\* The task of the event bus; it takes no event while it stops the server.
on_event ==
  /\ stops["event"].pc = "idle" /\ bus # <<>>
  /\ bus' = Tail(bus)
  /\ has_client' = (has_client \/ (Head(bus) = "JOINED" /\ active))
  /\ stops' = IF Head(bus) = "LEFT" /\ active /\ has_client
              THEN [stops EXCEPT !["event"] = [pc |-> "begin"]] ELSE stops
  /\ UNCHANGED <<admin, opener, timer, httpd, request, fresh, handed, spent, taskless, crossed>>
  /\ UNCHANGED <<kept, boot, hold, active, label, pill, services, wifi, joins, early>>

\* The admin server's own steps.
AdminTask(A) == A /\ UNCHANGED ownvars

Servers ==
  AdminTask(admin_server_start \/ HttpdTask \/ \E t \in StopTasks : admin_server_stop_internal(t))

Requests == scope = "requests" /\ AdminTask(challenge_get_handler \/ unlock_begin \/ form_begin)

Next ==
  \/ run \/ enter_setup_mode \/ enter_normal_mode \/ boot_fails \/ abort
  \/ on_admin_setup_button_hold \/ on_admin_window_closed
  \/ save_post_handler \/ on_action_pill_received \/ publish_ap_client_event \/ on_event
  \/ Servers \/ Requests \/ AdminTask(window_timer_cb)

Spec == Init /\ [][Next]_vars

(***************************************************************************)
(* Every task that has something to do gets to run, the timer expires, and *)
(* a request ends: httpd_req_recv has a time limit.                        *)
(***************************************************************************)
Fairness ==
  /\ WF_vars(hold_proceeds) /\ WF_vars(enter_setup_mode)
  /\ WF_vars(on_admin_window_closed) /\ WF_vars(on_event) /\ WF_vars(abort)
  /\ WF_vars(AdminTask(window_timer_cb))
  /\ WF_vars(AdminTask(admin_server_start)) /\ WF_vars(AdminTask(HttpdTask))
  /\ \A t \in StopTasks : WF_vars(AdminTask(admin_server_stop_internal(t)))

FairSpec == Spec /\ Fairness

-----------------------------------------------------------------------------
TypeOK ==
  /\ AdminTypeOK
  /\ config \in BOOLEAN /\ active \in BOOLEAN /\ has_client \in BOOLEAN
  /\ Len(bus) <= QueueLen
  /\ services \subseteq {"g2g", "mqtt"} /\ wifi \in {"off", "apsta", "ap"}

(***************************************************************************)
(* Once the admin AP is up, G2G and the broker have been told to stop and  *)
(* were not started since, unless the button was held before the boot had  *)
(* started them (enter_admin_quiescent_mode, enter_normal_mode).           *)
(***************************************************************************)
AdminIsQuiet == active /\ wifi = "ap" /\ "boot" \notin early => services = {}

(***************************************************************************)
(* Between pills the state stays Admin while the window is active, unless  *)
(* the boot or a pill was under way when the button was held: those write  *)
(* the state they knew before (transition_to).                             *)
(***************************************************************************)
AdminIsLabelled == active /\ early = {} /\ pill.pc = "idle" => label = "Admin"

(***************************************************************************)
(* The admin mode is what it promises, with everything in its type: the    *)
(* two above together (enter_admin_quiescent_mode, transition_to).         *)
(***************************************************************************)
AdminModeHolds == TypeOK /\ AdminIsQuiet /\ AdminIsLabelled

(***************************************************************************)
(* An admin window ends in a restart, whatever closes it: the timer, the   *)
(* client's leaving or both at once, and a failure of httpd_stop.  The     *)
(* exceptions are a close task that could not be created, whose result     *)
(* window_timer_cb does not look at, and a stop that fell into the start.  *)
(***************************************************************************)
WindowEnds == active ~> ~active \/ taskless \/ crossed

(***************************************************************************)
(* A configuration that was saved in setup mode is used: the guardian      *)
(* leaves setup mode (save_post_handler, restart_later_task).              *)
(***************************************************************************)
SetupEnds == config /\ label = "Setup" ~> label # "Setup" \/ taskless

(***************************************************************************)
(* Admin window and setup both come to their end (esp_restart).            *)
(***************************************************************************)
ModesEnd == WindowEnds /\ SetupEnds

(***************************************************************************)
(* "The admin network is intentionally short-lived" (README.md).           *)
(***************************************************************************)
AdminIsShortLived == active ~> ~active
=============================================================================
