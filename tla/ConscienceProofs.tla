-------------------------- MODULE ConscienceProofs --------------------------
(***************************************************************************)
(* The conscience and its setup button: that the lock of the admin server  *)
(* and the admin mode hold, for any number of tasks that stop the server,  *)
(* any number of challenges and any length of the event bus's queue; and   *)
(* that a task of the setup button reports a press once, for any hold and  *)
(* poll times and any number of tasks.                                     *)
(***************************************************************************)
EXTENDS Conscience, SetupButton, TLAPS

(***************************************************************************)
(* The lock.  First the types of what AdminTypeOK leaves open.             *)
(***************************************************************************)
InStop == {"lock", "httpd_stop", "wait", "stopped", "failed"}
StopStates ==
  [pc : {"idle", "begin", "clear", "notify", "restart"}] \cup [pc : InStop, notify : BOOLEAN]
RequestStates ==
  [pc : {"none", "regenerate", "rearm", "form"}] \cup [pc : {"verify", "unlock"}, signed : handed]

AdminStates ==
  [mode : {"bootstrap", "maintenance"}, server : BOOLEAN, running : BOOLEAN, unlocked : BOOLEAN,
   challenge : 0 .. MaxChallenges, callback : BOOLEAN]

ServerTyped ==
  /\ admin \in AdminStates
  /\ opener \in {"idle", "start", "register", "run", "timer", "opened", "failed"}
  /\ timer \in BOOLEAN /\ taskless \in BOOLEAN /\ crossed \in BOOLEAN
  /\ httpd \in {"absent", "serving", "stopping", "gone"}
  /\ stops \in [StopTasks -> StopStates]
ChallengesCounted ==
  /\ fresh \in 0 .. MaxChallenges /\ handed \subseteq 1 .. fresh /\ spent \subseteq handed
  /\ admin.challenge <= fresh
  /\ request \in RequestStates

\* There is an HTTP server from start_httpd on, and no request without one.
Opening ==
  /\ opener \in {"idle", "start"} => httpd = "absent"
  /\ opener = "idle" => fresh = 0
  /\ admin.server => httpd # "absent"
  /\ httpd \in {"absent", "gone"} => request.pc = "none"

(***************************************************************************)
(* A stop has seen a server, or has seen that there is none; and unless it *)
(* fell into the start that is still so.                                   *)
(***************************************************************************)
Closing ==
  \A t \in StopTasks :
    /\ stops[t].pc \in InStop => httpd # "absent"
    /\ stops[t].pc = "stopped" => httpd = "gone"
    /\ ~crossed /\ stops[t].pc \notin {"idle", "begin"} => ~Starting
    /\ ~crossed /\ stops[t].pc = "clear" => ~admin.server

Serving == ~crossed /\ httpd \in {"serving", "stopping"} => admin.server

\* The challenge is replaced after it has unlocked, before the next request.
Challenges ==
  /\ request.pc \in {"verify", "unlock", "regenerate"} => fresh < MaxChallenges
  /\ request.pc # "regenerate" => admin.challenge \notin spent
  /\ request.pc = "unlock" => request.signed \notin spent
  /\ admin.unlocked \/ request.pc = "form" => spent # {}

LockInv == ServerTyped /\ ChallengesCounted /\ Opening /\ Closing /\ Serving /\ Challenges /\ ClosedIsLocked

(***************************************************************************)
(* The admin mode.                                                         *)
(***************************************************************************)
Setups == {"setup_ap", "setup_admin", "setup_start", "setup"}
Normals == {"wifi", "button", "mqtt", "g2g", "online", "done"}
Labels ==
  {"Boot", "Setup", "NormalCore", "NormalOnline", "Admin", "ActionPillRelay", "ActionPillDigest"}
PillStates == {NoPill} \cup [pc : {"received", "relay", "digest"}, previous : Labels]

ModeTyped ==
  /\ config \in BOOLEAN /\ active \in BOOLEAN /\ has_client \in BOOLEAN
  /\ bus \in Seq({"JOINED", "LEFT"}) /\ Len(bus) <= QueueLen
  /\ services \subseteq {"g2g", "mqtt"} /\ wifi \in {"off", "apsta", "ap"}
  /\ boot \in {"boot"} \cup Setups \cup Normals
  /\ hold \in {"idle", "g2g", "mqtt", "wifi", "open", "opening"}
  /\ pill \in PillStates /\ label \in Labels

\* The button works in the normal mode only, and the admin AP comes after the services' stop.
Windows ==
  /\ active => ButtonRuns
  /\ hold # "idle" => active
  /\ wifi = "ap" /\ boot \notin Setups => active
  /\ active /\ hold \in {"g2g", "mqtt", "wifi"} => wifi # "ap"

\* When the boot was done, what was stopped is not started again.
Quieting ==
  active /\ "boot" \notin early =>
    /\ boot = "done"
    /\ hold # "g2g" => "g2g" \notin services
    /\ hold \notin {"g2g", "mqtt"} => "mqtt" \notin services

\* A pill that comes later restores the admin state.
Labelling ==
  active /\ early = {} => IF pill.pc = "idle" THEN label = "Admin" ELSE pill.previous = "Admin"

ModeInv == ModeTyped /\ Windows /\ Quieting /\ Labelling

\* At the first boot.
LEMMA ModeInit == Init => ModeInv
<1> SUFFICES ASSUME Init PROVE ModeInv
  OBVIOUS
<1> USE DEF Init
<1>1. ModeTyped
  <2>1. bus \in Seq({"JOINED", "LEFT"}) /\ Len(bus) <= QueueLen
    BY ConscienceAssumption
  <2> QED BY <2>1, Zenon DEF ModeTyped, PillStates, Labels
<1>2. Windows /\ Quieting /\ Labelling
  BY DEF Windows, Quieting, Labelling, ButtonRuns
<1> QED BY <1>1, <1>2 DEF ModeInv

\* Nothing of the admin mode outlives a restart.
LEMMA ModeRestart == ModeInv /\ esp_restart => ModeInv'
<1> SUFFICES ASSUME ModeInv, esp_restart PROVE ModeInv'
  OBVIOUS
<1> USE DEF esp_restart, kept
<1>1. ModeTyped'
  <2>1. bus' \in Seq({"JOINED", "LEFT"}) /\ Len(bus') <= QueueLen
    BY ConscienceAssumption
  <2> QED BY <2>1, Zenon DEF ModeInv, ModeTyped, PillStates, Labels
<1>2. Windows' /\ Quieting' /\ Labelling'
  BY DEF Windows, Quieting, Labelling, ButtonRuns
<1> QED BY <1>1, <1>2 DEF ModeInv

\* Every step of the conscience keeps the admin mode, whatever the admin server does meanwhile.
LEMMA ModeStep == ModeInv /\ [Next]_vars => ModeInv'
<1> SUFFICES ASSUME ModeInv, [Next]_vars PROVE ModeInv'
  OBVIOUS
<1> USE DEF ModeInv, kept
<1>1. CASE UNCHANGED ownvars
  BY <1>1 DEF ownvars, ModeTyped, Windows, Quieting, Labelling, ButtonRuns
<1>2. CASE run
  <2>1. boot = "boot" /\ boot' \in {"wifi", "setup_ap"} /\ label' \in Labels
    BY <1>2 DEF run, Labels
  <2>2. UNCHANGED <<config, hold, active, has_client, pill, services, wifi, bus, early>>
    BY <1>2 DEF run
  <2>3. ~active /\ hold = "idle" /\ wifi # "ap"
    BY <2>1 DEF Windows, ButtonRuns, Setups
  <2>4. ModeTyped'
    BY <2>1, <2>2 DEF ModeTyped, Setups, Normals
  <2> QED BY <2>2, <2>3, <2>4 DEF Windows, Quieting, Labelling
<1>3. CASE enter_setup_mode
  <2>1. boot \in Setups /\ boot' \in Setups /\ wifi' \in {wifi, "ap"}
    BY <1>3 DEF enter_setup_mode, Setups
  <2>2. UNCHANGED <<config, hold, active, has_client, pill, services, bus, early, label>>
    BY <1>3 DEF enter_setup_mode
  <2>3. ~active /\ hold = "idle"
    BY <2>1 DEF Windows, ButtonRuns, Setups
  <2>4. ModeTyped'
    BY <2>1, <2>2 DEF ModeTyped
  <2> QED BY <2>1, <2>2, <2>3, <2>4 DEF Windows, Quieting, Labelling
<1>4. CASE enter_normal_mode
  <2>1. UNCHANGED <<config, hold, active, has_client, pill, bus, early>>
    BY <1>4 DEF enter_normal_mode
  <2>2. boot \in Normals \ {"done"} /\ boot' \in Normals /\ label' \in {label, "NormalOnline"}
    BY <1>4 DEF enter_normal_mode, Normals
  <2>3. wifi' \in {"apsta", wifi} /\ services' \subseteq services \cup {"mqtt", "g2g"}
    BY <1>4 DEF enter_normal_mode
  <2>4. ModeTyped'
    <3>1. label' \in Labels
      BY <2>2 DEF ModeTyped, Labels
    <3>2. services' \subseteq {"g2g", "mqtt"} /\ wifi' \in {"off", "apsta", "ap"}
      BY <2>3 DEF ModeTyped
    <3> QED BY <2>1, <2>2, <3>1, <3>2 DEF ModeTyped
  <2>5. ButtonRuns => ButtonRuns'
    BY <1>4 DEF enter_normal_mode, ButtonRuns
  <2>6. boot \notin Setups
    BY <2>2 DEF Normals, Setups
  <2>7. Windows'
    BY <2>1, <2>3, <2>5, <2>6 DEF Windows
  <2>8. ~(active /\ "boot" \notin early)
    BY <2>2 DEF Quieting
  <2> QED BY <2>1, <2>4, <2>7, <2>8 DEF Quieting, Labelling
<1>5. CASE boot_fails \/ abort \/ hold_fails \/ on_admin_window_closed
  BY <1>5, ModeRestart DEF boot_fails, abort, hold_fails, on_admin_window_closed
<1>6. CASE hold_begin
  <2>1. UNCHANGED <<config, boot, pill, services, wifi, bus>>
    BY <1>6 DEF hold_begin
  <2>2. active' = TRUE /\ has_client' = FALSE /\ label' = "Admin" /\ hold' = "g2g"
    BY <1>6 DEF hold_begin
  <2>3. ButtonRuns /\ ~active
    BY <1>6 DEF hold_begin
  <2>4. "boot" \notin early' => boot = "done"
    BY <1>6 DEF hold_begin, Booting, ButtonRuns
  <2>5. early' = {} => pill.pc = "idle"
    BY <1>6 DEF hold_begin
  <2>6. ModeTyped'
    BY <2>1, <2>2, Zenon DEF ModeTyped, Labels
  <2>7. wifi # "ap"
    BY <2>3 DEF Windows, ButtonRuns, Setups
  <2>8. Windows'
    BY <2>1, <2>2, <2>3, <2>7 DEF Windows, ButtonRuns
  <2> QED BY <2>1, <2>2, <2>4, <2>5, <2>6, <2>8 DEF Quieting, Labelling
<1>7. CASE enter_admin_quiescent_mode
  <2>1. UNCHANGED <<config, boot, active, has_client, label, pill, wifi, bus, early>>
    BY <1>7 DEF enter_admin_quiescent_mode
  <2>2. \/ hold = "g2g" /\ hold' = "mqtt" /\ services' = services \ {"g2g"}
        \/ hold = "mqtt" /\ hold' = "wifi" /\ services' = services \ {"mqtt"}
    BY <1>7 DEF enter_admin_quiescent_mode
  <2>3. ModeTyped'
    BY <2>1, <2>2, Zenon DEF ModeTyped
  <2>4. Windows'
    BY <2>1, <2>2 DEF Windows, ButtonRuns
  <2>5. Quieting'
    BY <2>1, <2>2 DEF Quieting
  <2> QED BY <2>1, <2>3, <2>4, <2>5 DEF Labelling
<1>8. CASE switch_to_ap \/ open_window \/ hold_end
  <2>1. UNCHANGED <<config, boot, active, has_client, label, pill, services, bus, early>>
    BY <1>8 DEF switch_to_ap, open_window, hold_end
  <2>2. /\ hold \in {"wifi", "open", "opening"} /\ hold' \in {"open", "opening", "idle"}
        /\ wifi' \in {wifi, "ap"}
    BY <1>8 DEF switch_to_ap, open_window, hold_end
  <2>3. ModeTyped'
    BY <2>1, <2>2 DEF ModeTyped
  <2>4. Windows'
    BY <2>1, <2>2 DEF Windows, ButtonRuns
  <2>5. Quieting'
    BY <2>1, <2>2 DEF Quieting
  <2> QED BY <2>1, <2>3, <2>4, <2>5 DEF Labelling
<1>9. CASE save_post_handler
  <2>1. UNCHANGED <<boot, hold, active, has_client, label, pill, services, wifi, bus, early>>
    BY <1>9 DEF save_post_handler
  <2>2. config' = TRUE
    BY <1>9 DEF save_post_handler
  <2> QED BY <2>1, <2>2 DEF ModeTyped, Windows, Quieting, Labelling, ButtonRuns
<1>10. CASE on_action_pill_received
  <2>1. UNCHANGED <<config, boot, hold, active, has_client, services, wifi, bus, early>>
    BY <1>10 DEF on_action_pill_received
  <2>2. Windows' /\ Quieting'
    BY <2>1 DEF Windows, Quieting, ButtonRuns
  <2>3. pill' \in PillStates /\ label' \in Labels /\ Labelling'
    <3>1. CASE pill.pc = "idle" /\ pill' = [pc |-> "received", previous |-> label] /\ UNCHANGED label
      <4>1. pill' \in PillStates /\ pill'.pc # "idle" /\ pill'.previous = label
        BY <3>1 DEF PillStates, ModeTyped
      <4> QED BY <2>1, <3>1, <4>1 DEF Labelling, ModeTyped
    <3>2. ASSUME NEW pc \in {"relay", "digest"}, pill.pc \in {"received", "relay"},
                 pill' = [pill EXCEPT !.pc = pc], label' \in Labels
          PROVE  pill' \in PillStates /\ label' \in Labels /\ Labelling'
      <4>1. pill \in [pc : {"received", "relay", "digest"}, previous : Labels]
        BY <3>2 DEF ModeTyped, PillStates, NoPill
      <4>2. pill' \in PillStates /\ pill'.pc # "idle" /\ pill'.previous = pill.previous
        BY <3>2, <4>1 DEF PillStates
      <4>3. pill.pc # "idle"
        BY <3>2
      <4> QED BY <2>1, <3>2, <4>2, <4>3 DEF Labelling
    <3>3. CASE pill.pc = "digest" /\ label' = pill.previous /\ pill' = NoPill
      <4>1. pill.previous \in Labels
        BY <3>3 DEF ModeTyped, PillStates, NoPill
      <4>2. pill' \in PillStates /\ pill'.pc = "idle"
        BY <3>3 DEF PillStates, NoPill
      <4> QED BY <2>1, <3>3, <4>1, <4>2 DEF Labelling
    <3>4. "ActionPillRelay" \in Labels /\ "ActionPillDigest" \in Labels
      BY DEF Labels
    <3> QED BY <1>10, <3>1, <3>2, <3>3, <3>4 DEF on_action_pill_received
  <2> QED BY <2>1, <2>2, <2>3 DEF ModeTyped
<1>11. CASE publish_ap_client_event
  <2>1. UNCHANGED <<config, boot, hold, active, has_client, label, pill, services, wifi, early>>
    BY <1>11 DEF publish_ap_client_event
  <2>2. \/ UNCHANGED bus
        \/ Len(bus) < QueueLen /\ \E e \in {"JOINED", "LEFT"} : bus' = Append(bus, e)
    BY <1>11 DEF publish_ap_client_event
  <2>3. bus' \in Seq({"JOINED", "LEFT"}) /\ Len(bus') <= QueueLen
    BY <2>2, ConscienceAssumption DEF ModeTyped
  <2> QED BY <2>1, <2>3 DEF ModeTyped, Windows, Quieting, Labelling, ButtonRuns
<1>12. CASE on_event
  <2>1. UNCHANGED <<config, boot, hold, active, label, pill, services, wifi, early>>
    BY <1>12 DEF on_event
  <2>2. bus' \in Seq({"JOINED", "LEFT"}) /\ Len(bus') <= QueueLen
    BY <1>12, ConscienceAssumption DEF on_event, ModeTyped
  <2>3. has_client' \in BOOLEAN
    BY <1>12 DEF on_event
  <2> QED BY <2>1, <2>2, <2>3 DEF ModeTyped, Windows, Quieting, Labelling, ButtonRuns
<1>13. CASE Servers \/ Requests \/ AdminTask(window_timer_cb) \/ UNCHANGED vars
  BY <1>1, <1>13 DEF Servers, Requests, AdminTask, vars
<1> QED BY <1>2, <1>3, <1>4, <1>5, <1>6, <1>7, <1>8, <1>9, <1>10, <1>11, <1>12, <1>13
        DEF Next, on_admin_setup_button_hold, hold_proceeds

-----------------------------------------------------------------------------
(***************************************************************************)
(* What the steps of the conscience are for the admin server.  Timer, save *)
(* and event begin a stop in a task that has none, or none is begun.       *)
(***************************************************************************)
BeginsStop ==
  /\ \/ UNCHANGED stops
     \/ \E t \in StopTasks : stops[t].pc = "idle" /\ stops' = [stops EXCEPT ![t] = [pc |-> "begin"]]
  /\ timer' \in {timer, FALSE} /\ taskless' \in {taskless, TRUE}
  /\ UNCHANGED <<admin, opener, httpd, request, fresh, handed, spent, crossed>>

AdminStep ==
  \/ UNCHANGED adminvars \/ AdminRestart \/ BeginsStop
  \/ start_begin("bootstrap") \/ start_begin("maintenance")
  \/ admin_server_start \/ HttpdTask \/ challenge_get_handler \/ unlock_begin \/ form_begin
  \/ \E t \in StopTasks : admin_server_stop_internal(t)

\* Every step of the conscience is, for the admin server, one of these.
LEMMA StepsOfAdmin == [Next]_vars => AdminStep
<1> SUFFICES ASSUME [Next]_vars PROVE AdminStep
  OBVIOUS
<1>1. CASE run \/ enter_normal_mode \/ on_action_pill_received \/ publish_ap_client_event
  BY <1>1 DEF run, enter_normal_mode, on_action_pill_received, publish_ap_client_event, AdminStep
<1>2. CASE enter_setup_mode
  BY <1>2 DEF enter_setup_mode, AdminStep
<1>3. CASE boot_fails \/ abort \/ hold_fails \/ on_admin_window_closed
  BY <1>3 DEF boot_fails, abort, hold_fails, on_admin_window_closed, esp_restart, AdminStep
<1>4. CASE hold_begin \/ enter_admin_quiescent_mode \/ switch_to_ap \/ open_window \/ hold_end
  BY <1>4 DEF hold_begin, enter_admin_quiescent_mode, switch_to_ap, open_window, hold_end, AdminStep
<1>5. CASE save_post_handler
  BY <1>5, ConscienceAssumption, Zenon DEF save_post_handler, CreateTask, BeginsStop, AdminStep
<1>6. CASE AdminTask(window_timer_cb)
  BY <1>6, AdminAssumption, Zenon DEF AdminTask, window_timer_cb, CreateTask, BeginsStop, AdminStep
<1>7. CASE on_event
  BY <1>7, ConscienceAssumption, Zenon DEF on_event, BeginsStop, AdminStep
<1>8. CASE Servers \/ Requests
  BY <1>8 DEF Servers, Requests, AdminTask, AdminStep
<1>9. CASE UNCHANGED vars
  BY <1>9 DEF vars, AdminStep
<1> QED BY <1>1, <1>2, <1>3, <1>4, <1>5, <1>6, <1>7, <1>8, <1>9
        DEF Next, on_admin_setup_button_hold, hold_proceeds

\* The types say no less than the type invariant of the server.
LEMMA TypedIsAdminTypeOK == ServerTyped /\ ChallengesCounted => AdminTypeOK
  BY DEF ServerTyped, ChallengesCounted, AdminTypeOK, AdminStates

\* The statics at a boot have their types,
LEMMA BootTyped == AdminBoot.admin \in AdminStates /\ AdminBoot.stops \in [StopTasks -> StopStates]
<1>1. 0 \in 0 .. MaxChallenges
  BY AdminAssumption
<1>2. AdminBoot.admin \in AdminStates
  BY <1>1 DEF AdminBoot, AdminStates
<1>3. AdminBoot.stops \in [StopTasks -> StopStates]
  BY DEF AdminBoot, NoStop, StopStates
<1> QED BY <1>2, <1>3

\* and say that there is no server, no unlocking, no challenge and no stop.
LEMMA BootLocked ==
  /\ ~AdminBoot.admin.server /\ ~AdminBoot.admin.unlocked /\ AdminBoot.admin.challenge = 0
  /\ \A t \in StopTasks : AdminBoot.stops[t].pc = "idle"
  BY DEF AdminBoot, NoStop

\* The lock at the first boot,
LEMMA LockInit == Init => LockInv
<1> SUFFICES ASSUME Init PROVE LockInv
  OBVIOUS
<1> USE DEF Init, AdminInit, NoRequest
<1>1. ServerTyped
  BY BootTyped, Zenon DEF ServerTyped
<1>2. ChallengesCounted
  BY BootLocked, AdminAssumption DEF ChallengesCounted, RequestStates
<1>3. Opening /\ Closing /\ Serving /\ Challenges /\ ClosedIsLocked
  BY BootLocked DEF Opening, Closing, Serving, Challenges, ClosedIsLocked, InStop
<1> QED BY <1>1, <1>2, <1>3 DEF LockInv

\* and after every restart.
LEMMA LockRestart == AdminRestart => LockInv'
<1> SUFFICES ASSUME AdminRestart PROVE LockInv'
  OBVIOUS
<1> USE DEF AdminRestart, NoRequest
<1>1. ServerTyped'
  BY BootTyped, Zenon DEF ServerTyped
<1>2. ChallengesCounted'
  BY BootLocked, AdminAssumption DEF ChallengesCounted, RequestStates
<1>3. Opening' /\ Closing' /\ Serving' /\ Challenges' /\ ClosedIsLocked'
  BY BootLocked DEF Opening, Closing, Serving, Challenges, ClosedIsLocked, InStop
<1> QED BY <1>1, <1>2, <1>3 DEF LockInv

\* The statics after clear_runtime_state.
LEMMA Clears ==
  ASSUME admin \in AdminStates
  PROVE  LET a == clear_runtime_state(admin)
         IN  a \in AdminStates /\ ~a.server /\ ~a.unlocked /\ a.challenge = 0
<1>1. 0 \in 0 .. MaxChallenges
  BY AdminAssumption
<1> QED BY <1>1, Zenon DEF AdminStates, clear_runtime_state

\* A stop begins only in a task that has none.
LEMMA BeginsKeeps == LockInv /\ BeginsStop => LockInv'
<1> SUFFICES ASSUME LockInv, BeginsStop PROVE LockInv'
  OBVIOUS
<1> USE DEF LockInv, BeginsStop
<1>1. stops' \in [StopTasks -> StopStates]
  BY DEF ServerTyped, StopStates
<1>2. \A t \in StopTasks : stops'[t] = stops[t] \/ stops'[t].pc = "begin"
  BY DEF ServerTyped
<1>3. ServerTyped' /\ ChallengesCounted'
  <2>1. ServerTyped'
    BY <1>1 DEF ServerTyped
  <2>2. ChallengesCounted'
    BY DEF ChallengesCounted, RequestStates
  <2> QED BY <2>1, <2>2
<1>4. Closing'
  BY <1>2 DEF Closing, Starting, InStop
<1> QED BY <1>3, <1>4 DEF Opening, Serving, Challenges, ClosedIsLocked

\* admin_server_start sets the statics before there is a server.
LEMMA StartKeeps ==
  ASSUME LockInv, NEW mode \in {"bootstrap", "maintenance"}, start_begin(mode)
  PROVE  LockInv'
<1> USE DEF LockInv
<1>1. fresh = 0 /\ handed = {} /\ spent = {} /\ httpd = "absent" /\ request.pc = "none"
  BY DEF start_begin, Opening, ChallengesCounted
<1>2. fresh' \in 0 .. 1
  BY <1>1 DEF start_begin
<1>3. admin' \in AdminStates /\ admin'.challenge <= fresh' /\ ~admin'.unlocked /\ ~admin'.server
  <2> DEFINE b == mode = "maintenance"
             c == IF mode = "maintenance" THEN fresh' ELSE 0
  <2>1. b \in BOOLEAN /\ c \in 0 .. 1 /\ c \in 0 .. MaxChallenges /\ c <= fresh'
    BY <1>2, AdminAssumption
  <2>2. /\ admin' = [admin EXCEPT !.mode = mode, !.callback = b, !.unlocked = FALSE, !.challenge = c]
        /\ ~admin.server
    BY DEF start_begin
  <2> HIDE DEF b, c
  <2> QED BY <2>1, <2>2, Zenon DEF ServerTyped, AdminStates
<1>4. UNCHANGED <<timer, httpd, request, stops, handed, spent, taskless>> /\ opener' = "start"
  BY DEF start_begin
<1>5. crossed' \in BOOLEAN /\ (~crossed' => \A t \in StopTasks : stops[t].pc = "idle")
  BY DEF start_begin
<1>6. ServerTyped' /\ ChallengesCounted'
  BY <1>1, <1>2, <1>3, <1>4, <1>5, AdminAssumption DEF ServerTyped, ChallengesCounted, RequestStates
<1>7. Opening' /\ Serving' /\ ClosedIsLocked'
  BY <1>1, <1>3, <1>4 DEF Opening, Serving, ClosedIsLocked
<1>8. Closing'
  BY <1>3, <1>4, <1>5 DEF Closing, InStop
<1>9. Challenges'
  BY <1>1, <1>3, <1>4 DEF Challenges
<1> QED BY <1>6, <1>7, <1>8, <1>9

\* The steps of admin_server_start after its first.
LEMMA StartProceeds == LockInv /\ admin_server_start => LockInv'
<1> SUFFICES ASSUME LockInv, admin_server_start PROVE LockInv'
  OBVIOUS
<1> USE DEF LockInv
<1>1. UNCHANGED <<request, stops, fresh, handed, spent, taskless, crossed>>
  BY DEF admin_server_start, start_httpd, start_register, start_end, open_window_timer
<1>2. Starting /\ opener' \notin {"idle", "start"}
  BY DEF admin_server_start, start_httpd, start_register, start_end, open_window_timer, Starting
<1>3. timer' \in BOOLEAN /\ opener' \in {"register", "run", "timer", "opened", "failed"}
  BY Zenon DEF admin_server_start, start_httpd, start_register, start_end, open_window_timer, ServerTyped
<1>4. CASE UNCHANGED <<admin, httpd>>
  <2>1. ServerTyped' /\ ChallengesCounted'
    BY <1>1, <1>3, <1>4 DEF ServerTyped, ChallengesCounted, RequestStates
  <2>2. Closing'
    BY <1>1, <1>2, <1>4 DEF Closing
  <2> QED BY <1>1, <1>2, <1>4, <2>1, <2>2 DEF Opening, Serving, Challenges, ClosedIsLocked
<1>5. CASE admin' = [admin EXCEPT !.running = TRUE] /\ UNCHANGED httpd
  <2>1. admin' \in AdminStates
    BY <1>5, Zenon DEF ServerTyped, AdminStates
  <2>2. /\ admin'.server = admin.server /\ admin'.unlocked = admin.unlocked
        /\ admin'.challenge = admin.challenge
    BY <1>5 DEF ServerTyped, AdminStates
  <2>3. ServerTyped' /\ ChallengesCounted'
    BY <1>1, <1>3, <1>5, <2>1, <2>2 DEF ServerTyped, ChallengesCounted, RequestStates
  <2>4. Closing'
    BY <1>1, <1>2, <1>5 DEF Closing
  <2> QED BY <1>1, <1>2, <1>5, <2>2, <2>3, <2>4 DEF Opening, Serving, Challenges, ClosedIsLocked
<1>6. CASE httpd' = "serving" /\ admin' = [admin EXCEPT !.server = TRUE] /\ opener = "start"
  <2>1. admin' \in AdminStates /\ admin'.server
    BY <1>6, Zenon DEF ServerTyped, AdminStates
  <2>2. admin'.unlocked = admin.unlocked /\ admin'.challenge = admin.challenge
    BY <1>6 DEF ServerTyped, AdminStates
  <2>3. ServerTyped' /\ ChallengesCounted'
    BY <1>1, <1>3, <1>6, <2>1, <2>2 DEF ServerTyped, ChallengesCounted, RequestStates
  <2>4. httpd = "absent" /\ request.pc = "none"
    BY <1>6 DEF Opening
  <2>5. Closing'
    BY <1>1, <1>2, <1>6, <2>4 DEF Closing, InStop
  <2> QED BY <1>1, <1>2, <1>6, <2>1, <2>2, <2>3, <2>4, <2>5
          DEF Opening, Serving, Challenges, ClosedIsLocked
<1>7. CASE admin' = clear_runtime_state(admin) /\ UNCHANGED httpd /\ opener = "start"
  <2>1. admin' \in AdminStates /\ ~admin'.server /\ ~admin'.unlocked /\ admin'.challenge = 0
    BY <1>7, Clears DEF ServerTyped
  <2>2. ServerTyped' /\ ChallengesCounted'
    BY <1>1, <1>3, <1>7, <2>1 DEF ServerTyped, ChallengesCounted, RequestStates
  <2>3. httpd = "absent" /\ 0 \notin spent
    BY <1>7 DEF Opening, ChallengesCounted
  <2>4. Closing'
    BY <1>1, <1>2, <1>7, <2>1, <2>3 DEF Closing, InStop
  <2> QED BY <1>1, <1>2, <1>7, <2>1, <2>2, <2>3, <2>4
          DEF Opening, Serving, Challenges, ClosedIsLocked
<1> QED BY <1>4, <1>5, <1>6, <1>7
        DEF admin_server_start, start_httpd, start_register, start_end, open_window_timer

\* A task's place in the stop changes no other task's.
LEMMA StopMoves ==
  ASSUME NEW t \in StopTasks, stops \in [StopTasks -> StopStates], NEW s \in StopStates,
         stops' = [stops EXCEPT ![t] = s]
  PROVE  /\ stops' \in [StopTasks -> StopStates]
         /\ stops'[t] = s /\ \A u \in StopTasks \ {t} : stops'[u] = stops[u]
  OBVIOUS

\* A step that draws and hands out no challenge, and at most clears the one to sign, keeps their
\* count.
LEMMA CountKept ==
  ASSUME ChallengesCounted, UNCHANGED <<request, fresh, handed, spent>>,
         admin'.challenge \in {0, admin.challenge}
  PROVE  ChallengesCounted'
<1>1. 0 <= fresh
  BY DEF ChallengesCounted
<1>2. RequestStates' = RequestStates
  BY DEF RequestStates
<1> QED BY <1>1, <1>2 DEF ChallengesCounted

\* The record after an assignment to its place.
LEMMA StopPlaces ==
  ASSUME NEW t \in StopTasks, stops \in [StopTasks -> StopStates], stops[t].pc \in InStop,
         NEW pc \in InStop
  PROVE  [stops[t] EXCEPT !.pc = pc] \in StopStates /\ [stops[t] EXCEPT !.pc = pc].pc = pc
<1>1. stops[t] \in [pc : InStop, notify : BOOLEAN]
  BY DEF StopStates, InStop
<1> QED BY <1>1 DEF StopStates

\* A task in admin_server_stop_internal.
LEMMA StopKeeps ==
  ASSUME LockInv, NEW t \in StopTasks, admin_server_stop_internal(t)
  PROVE  LockInv'
<1> USE DEF LockInv
<1>0. stops \in [StopTasks -> StopStates] /\ admin \in AdminStates
  BY DEF ServerTyped
<1>1. UNCHANGED <<opener, request, fresh, handed, spent, taskless>>
  BY DEF admin_server_stop_internal, stop_begin, stop_clear, stop_lock, httpd_stop, stop_end
<1>2. CASE stop_begin(t)
  <2>1. UNCHANGED <<admin, httpd>> /\ timer' \in BOOLEAN /\ crossed' \in BOOLEAN
    BY <1>2, Zenon DEF stop_begin, ServerTyped
  <2>2. ~crossed' => ~crossed /\ ~Starting
    BY <1>2, Zenon DEF stop_begin
  <2>3. PICK s \in StopStates : stops' = [stops EXCEPT ![t] = s] /\
               (\/ s.pc = "lock" /\ admin.server
                \/ s.pc = "clear" /\ ~admin.server)
    <3> DEFINE n == admin.mode = "maintenance" /\ admin.callback
    <3>1. [pc |-> "lock", notify |-> n] \in StopStates /\ [pc |-> "lock", notify |-> n].pc = "lock"
      BY <1>0 DEF StopStates, InStop, AdminStates
    <3>2. [pc |-> "clear"] \in StopStates
      BY DEF StopStates
    <3>3. CASE admin.server
      BY <1>2, <3>1, <3>3 DEF stop_begin
    <3>4. CASE ~admin.server
      BY <1>2, <3>2, <3>4 DEF stop_begin
    <3> QED BY <3>3, <3>4
  <2>4. /\ stops' \in [StopTasks -> StopStates]
        /\ stops'[t] = s /\ \A u \in StopTasks \ {t} : stops'[u] = stops[u]
    BY <1>0, <2>3, StopMoves
  <2>5. ServerTyped' /\ ChallengesCounted'
    <3>1. ServerTyped'
      BY <1>1, <2>1, <2>4 DEF ServerTyped
    <3>2. ChallengesCounted'
      BY <1>1, <2>1, <2>4, CountKept
    <3> QED BY <3>1, <3>2
  <2>6. Closing'
    <3> SUFFICES ASSUME NEW u \in StopTasks
                 PROVE  /\ stops'[u].pc \in InStop => httpd # "absent"
                        /\ stops'[u].pc = "stopped" => httpd = "gone"
                        /\ ~crossed' /\ stops'[u].pc \notin {"idle", "begin"} => ~Starting
                        /\ ~crossed' /\ stops'[u].pc = "clear" => ~admin.server
      BY <1>1, <2>1 DEF Closing, Starting
    <3>1. CASE u = t
      BY <2>2, <2>3, <2>4, <3>1 DEF Opening, InStop
    <3>2. CASE u # t
      BY <2>2, <2>4, <3>2 DEF Closing
    <3> QED BY <3>1, <3>2
  <2> QED BY <1>1, <2>1, <2>2, <2>5, <2>6 DEF Opening, Serving, Challenges, ClosedIsLocked
<1>3. CASE stop_clear(t)
  <2>1. admin' \in AdminStates /\ ~admin'.server /\ ~admin'.unlocked /\ admin'.challenge = 0
    BY <1>0, <1>3, Clears DEF stop_clear
  <2>2. After(t) \in StopStates /\ After(t).pc \in {"idle", "restart"}
    BY DEF After, NoStop, StopStates
  <2>3. /\ stops' \in [StopTasks -> StopStates]
        /\ stops'[t] = After(t) /\ \A u \in StopTasks \ {t} : stops'[u] = stops[u]
    BY <1>0, <1>3, <2>2, StopMoves DEF stop_clear
  <2>4. UNCHANGED <<timer, httpd, crossed>> /\ stops[t].pc = "clear"
    BY <1>3 DEF stop_clear
  <2>5. ServerTyped' /\ ChallengesCounted'
    <3>1. ServerTyped'
      BY <1>1, <2>1, <2>3, <2>4 DEF ServerTyped
    <3>2. ChallengesCounted'
      BY <1>1, <2>1, <2>3, <2>4, CountKept
    <3> QED BY <3>1, <3>2
  <2>6. ~crossed => ~admin.server /\ ~Starting
    BY <2>4 DEF Closing
  <2>7. Closing'
    <3> SUFFICES ASSUME NEW u \in StopTasks
                 PROVE  /\ stops'[u].pc \in InStop => httpd # "absent"
                        /\ stops'[u].pc = "stopped" => httpd = "gone"
                        /\ ~crossed /\ stops'[u].pc \notin {"idle", "begin"} => ~Starting
      BY <1>1, <2>1, <2>4 DEF Closing, Starting
    <3>1. CASE u = t
      BY <2>2, <2>3, <2>6, <3>1 DEF InStop
    <3>2. CASE u # t
      BY <2>3, <3>2 DEF Closing
    <3> QED BY <3>1, <3>2
  <2>8. 0 \notin spent
    BY DEF ChallengesCounted
  <2> QED BY <1>1, <2>1, <2>4, <2>5, <2>6, <2>7, <2>8 DEF Opening, Serving, Challenges, ClosedIsLocked
<1>4. CASE stop_lock(t)
  <2>1. stops[t].pc = "lock" /\ UNCHANGED <<timer, httpd, crossed>>
    BY <1>4 DEF stop_lock
  <2>2. /\ admin' \in AdminStates /\ admin'.server = admin.server /\ ~admin'.unlocked
        /\ admin'.challenge = 0
    <3>1. 0 \in 0 .. MaxChallenges
      BY AdminAssumption
    <3> QED BY <1>0, <1>4, <3>1, Zenon DEF stop_lock, AdminStates
  <2> DEFINE s == [stops[t] EXCEPT !.pc = "httpd_stop"]
  <2>3. s \in StopStates /\ s.pc = "httpd_stop"
    BY <1>0, <2>1, StopPlaces, Zenon DEF InStop
  <2>4. stops' = [stops EXCEPT ![t] = s]
    BY <1>4 DEF stop_lock
  <2> HIDE DEF s
  <2>5. /\ stops' \in [StopTasks -> StopStates]
        /\ stops'[t] = s /\ \A u \in StopTasks \ {t} : stops'[u] = stops[u]
    BY <1>0, <2>3, <2>4, StopMoves
  <2>6. ServerTyped' /\ ChallengesCounted'
    <3>1. ServerTyped'
      BY <1>1, <2>1, <2>2, <2>5 DEF ServerTyped
    <3>2. ChallengesCounted'
      BY <1>1, <2>1, <2>2, <2>5, CountKept
    <3> QED BY <3>1, <3>2
  <2>7. Closing'
    <3> SUFFICES ASSUME NEW u \in StopTasks
                 PROVE  /\ stops'[u].pc \in InStop => httpd # "absent"
                        /\ stops'[u].pc = "stopped" => httpd = "gone"
                        /\ ~crossed /\ stops'[u].pc \notin {"idle", "begin"} => ~Starting
                        /\ ~crossed /\ stops'[u].pc = "clear" => ~admin.server
      BY <1>1, <2>1, <2>2 DEF Closing, Starting
    <3>1. CASE u = t
      BY <2>1, <2>3, <2>5, <3>1 DEF Closing, InStop
    <3>2. CASE u # t
      BY <2>5, <3>2 DEF Closing
    <3> QED BY <3>1, <3>2
  <2>8. 0 \notin spent
    BY DEF ChallengesCounted
  <2> QED BY <1>1, <2>1, <2>2, <2>6, <2>7, <2>8 DEF Opening, Serving, Challenges, ClosedIsLocked
<1>5. CASE httpd_stop(t)
  <2>1. UNCHANGED <<admin, timer, crossed>> /\ stops[t].pc \in InStop
    BY <1>5 DEF httpd_stop, InStop
  <2>2. httpd # "absent" /\ (httpd = "gone" => httpd' = "gone") /\ httpd' \in {httpd, "stopping", "gone"}
    BY <1>5, <2>1 DEF httpd_stop, Closing
  <2>3. PICK pc \in {"wait", "failed", "stopped"} :
             stops' = [stops EXCEPT ![t].pc = pc] /\ (pc = "stopped" => httpd' = "gone")
    BY <1>5 DEF httpd_stop
  <2> DEFINE s == [stops[t] EXCEPT !.pc = pc]
  <2>4. s \in StopStates /\ s.pc = pc
    BY <1>0, <2>1, StopPlaces, Zenon DEF InStop
  <2>5. stops' = [stops EXCEPT ![t] = s]
    BY <2>3
  <2> HIDE DEF s
  <2>6. /\ stops' \in [StopTasks -> StopStates]
        /\ stops'[t] = s /\ \A u \in StopTasks \ {t} : stops'[u] = stops[u]
    BY <1>0, <2>4, <2>5, StopMoves
  <2>7. ServerTyped' /\ ChallengesCounted'
    <3>1. ServerTyped'
      BY <1>1, <2>1, <2>2, <2>6 DEF ServerTyped
    <3>2. ChallengesCounted'
      BY <1>1, <2>1, <2>2, <2>6, CountKept
    <3> QED BY <3>1, <3>2
  <2>8. Closing'
    <3> SUFFICES ASSUME NEW u \in StopTasks
                 PROVE  /\ stops'[u].pc \in InStop => httpd' # "absent"
                        /\ stops'[u].pc = "stopped" => httpd' = "gone"
                        /\ ~crossed /\ stops'[u].pc \notin {"idle", "begin"} => ~Starting
                        /\ ~crossed /\ stops'[u].pc = "clear" => ~admin.server
      BY <1>1, <2>1, Zenon DEF Closing, Starting
    <3>1. CASE u = t
      BY <2>1, <2>2, <2>3, <2>4, <2>6, <3>1 DEF Closing, InStop
    <3>2. CASE u # t
      BY <2>2, <2>6, <3>2 DEF Closing
    <3> QED BY <3>1, <3>2
  <2>9. httpd' = "gone" => request.pc = "none"
    BY <1>5 DEF httpd_stop, Opening, NoRequest
  <2>10. Opening'
    BY <1>1, <2>1, <2>2, <2>9 DEF Opening
  <2>11. Serving'
    BY <2>1, <2>2 DEF Serving, ServerTyped
  <2> QED BY <1>1, <2>1, <2>7, <2>8, <2>10, <2>11 DEF Challenges, ClosedIsLocked
<1>6. CASE stop_end(t)
  <2>1. UNCHANGED <<timer, httpd, crossed>> /\ stops[t].pc \in {"stopped", "failed"}
    BY <1>6 DEF stop_end
  <2>2. PICK s \in StopStates : stops' = [stops EXCEPT ![t] = s] /\ s.pc \in {"notify", "restart", "idle"}
    <3>1. After(t) \in StopStates /\ After(t).pc \in {"idle", "restart"}
      BY DEF After, NoStop, StopStates
    <3>2. [pc |-> "notify"] \in StopStates
      BY DEF StopStates
    <3> QED BY <1>0, <1>6, <3>1, <3>2, Zenon DEF stop_end
  <2>3. /\ stops' \in [StopTasks -> StopStates]
        /\ stops'[t] = s /\ \A u \in StopTasks \ {t} : stops'[u] = stops[u]
    BY <1>0, <2>2, StopMoves
  <2>4. /\ admin' \in AdminStates /\ (admin'.server => admin.server)
        /\ \/ ~admin'.unlocked /\ admin'.challenge = 0 /\ httpd = "gone"
           \/ /\ admin'.unlocked = admin.unlocked /\ admin'.challenge = admin.challenge
              /\ admin'.server = admin.server
    <3>1. CASE stops[t].pc = "stopped"
      BY <1>0, <1>6, <3>1, Clears DEF stop_end, Closing
    <3>2. CASE stops[t].pc # "stopped"
      BY <1>0, <1>6, <3>2, Zenon DEF stop_end, AdminStates
    <3> QED BY <3>1, <3>2
  <2>5. 0 \notin spent
    BY DEF ChallengesCounted
  <2>6. ServerTyped' /\ ChallengesCounted'
    <3>1. ServerTyped'
      BY <1>1, <2>1, <2>3, <2>4 DEF ServerTyped
    <3>2. ChallengesCounted'
      BY <1>1, <2>1, <2>3, <2>4, CountKept
    <3> QED BY <3>1, <3>2
  <2>7. Closing'
    <3> SUFFICES ASSUME NEW u \in StopTasks
                 PROVE  /\ stops'[u].pc \in InStop => httpd # "absent"
                        /\ stops'[u].pc = "stopped" => httpd = "gone"
                        /\ ~crossed /\ stops'[u].pc \notin {"idle", "begin"} => ~Starting
                        /\ ~crossed /\ stops'[u].pc = "clear" => ~admin.server
      BY <1>1, <2>1, <2>4, Zenon DEF Closing, Starting
    <3>1. CASE u = t
      BY <2>1, <2>2, <2>3, <3>1 DEF Closing, InStop
    <3>2. CASE u # t
      BY <2>3, <3>2 DEF Closing
    <3> QED BY <3>1, <3>2
  <2>8. ClosedIsLocked'
    BY <2>1, <2>4 DEF ClosedIsLocked
  <2> QED BY <1>1, <2>1, <2>4, <2>5, <2>6, <2>7, <2>8 DEF Opening, Serving, Challenges
<1> QED BY <1>2, <1>3, <1>4, <1>5, <1>6 DEF admin_server_stop_internal

\* The task of the HTTP server: a request in hand.
LEMMA RequestKeeps == LockInv /\ HttpdTask => LockInv'
<1> SUFFICES ASSUME LockInv, HttpdTask PROVE LockInv'
  OBVIOUS
<1> USE DEF LockInv
<1>1. UNCHANGED <<opener, httpd, stops, handed, taskless, crossed>> /\ timer' \in BOOLEAN
  BY Zenon DEF HttpdTask, unlock_post_handler, verify_admin_signature, unlock, unlock_regenerate,
         restart_window_timer, form_end, ServerTyped
<1>2. request.pc # "none" /\ httpd \notin {"absent", "gone"} /\ opener \notin {"idle", "start"}
  BY DEF HttpdTask, unlock_post_handler, verify_admin_signature, unlock, unlock_regenerate,
         restart_window_timer, form_end, Opening
<1>3. ASSUME admin' \in AdminStates, admin'.server = admin.server
      PROVE  ServerTyped' /\ Opening' /\ Closing' /\ Serving'
  <2>1. Closing'
    BY <1>1, <1>3 DEF Closing, Starting
  <2> QED BY <1>1, <1>2, <1>3, <2>1 DEF ServerTyped, Opening, Serving
<1>4. CASE verify_admin_signature \/ restart_window_timer \/ form_end
  <2>1. UNCHANGED <<admin, fresh, spent>>
    BY <1>4 DEF verify_admin_signature, restart_window_timer, form_end
  <2>2. \/ request' = NoRequest /\ request.pc # "regenerate"
        \/ /\ request.pc = "verify" /\ request.signed = admin.challenge
           /\ request' = [request EXCEPT !.pc = "unlock"]
    BY <1>4 DEF verify_admin_signature, restart_window_timer, form_end
  <2>3. CASE request' = NoRequest /\ request.pc # "regenerate"
    <3>1. request' \in [pc : {"none", "regenerate", "rearm", "form"}] /\ request'.pc = "none"
      BY <2>3 DEF NoRequest
    <3>2. ChallengesCounted' /\ Challenges' /\ ClosedIsLocked'
      BY <1>1, <2>1, <2>3, <3>1 DEF ChallengesCounted, Challenges, ClosedIsLocked, RequestStates
    <3> QED BY <1>3, <2>1, <3>2 DEF ServerTyped
  <2>4. CASE /\ request.pc = "verify" /\ request.signed = admin.challenge
             /\ request' = [request EXCEPT !.pc = "unlock"]
    <3>1. request \in [pc : {"verify", "unlock"}, signed : handed]
      BY <2>4 DEF ChallengesCounted, RequestStates
    <3>2. /\ request' \in [pc : {"verify", "unlock"}, signed : handed]
          /\ request'.pc = "unlock" /\ request'.signed = admin.challenge
      BY <2>4, <3>1
    <3>3. ChallengesCounted' /\ Challenges' /\ ClosedIsLocked'
      BY <1>1, <2>1, <2>4, <3>2 DEF ChallengesCounted, Challenges, ClosedIsLocked, RequestStates
    <3> QED BY <1>3, <2>1, <3>3 DEF ServerTyped
  <2> QED BY <2>2, <2>3, <2>4
<1>5. CASE unlock
  <2>1. /\ admin' \in AdminStates /\ admin'.server = admin.server
        /\ admin'.challenge = admin.challenge
    BY <1>5, Zenon DEF unlock, ServerTyped, AdminStates
  <2>2. request \in [pc : {"verify", "unlock"}, signed : handed] /\ request.pc = "unlock"
    BY <1>5 DEF unlock, ChallengesCounted, RequestStates
  <2>3. spent' = spent \cup {request.signed} /\ request' = [pc |-> "regenerate"] /\ UNCHANGED fresh
    BY <1>5 DEF unlock
  <2>4. request' \in [pc : {"none", "regenerate", "rearm", "form"}] /\ request'.pc = "regenerate"
    BY <2>3
  <2>5. ChallengesCounted'
    BY <1>1, <2>1, <2>2, <2>3, <2>4, Zenon DEF ChallengesCounted, RequestStates
  <2>6. Challenges'
    BY <2>2, <2>3, <2>4 DEF Challenges
  <2>7. ~crossed => admin.server
    BY <1>2 DEF Serving, ServerTyped
  <2> QED BY <1>1, <1>3, <2>1, <2>5, <2>6, <2>7 DEF ClosedIsLocked
<1>6. CASE unlock_regenerate
  <2>1. fresh' = fresh + 1 /\ request' = [pc |-> "rearm"] /\ UNCHANGED spent /\ request.pc = "regenerate"
    BY <1>6 DEF unlock_regenerate
  <2>2. fresh' \in 1 .. MaxChallenges /\ fresh' \notin spent
    BY <2>1, AdminAssumption DEF Challenges, ChallengesCounted
  <2>3. /\ admin' \in AdminStates /\ admin'.server = admin.server /\ admin'.challenge = fresh'
        /\ admin'.unlocked = admin.unlocked
    BY <1>6, <2>2 DEF unlock_regenerate, ServerTyped, AdminStates
  <2>4. request' \in [pc : {"none", "regenerate", "rearm", "form"}] /\ request'.pc = "rearm"
    BY <2>1
  <2>5. ChallengesCounted'
    BY <1>1, <2>1, <2>2, <2>3, <2>4 DEF ChallengesCounted, RequestStates
  <2>6. Challenges' /\ ClosedIsLocked'
    BY <1>1, <2>1, <2>2, <2>3, <2>4 DEF Challenges, ClosedIsLocked
  <2> QED BY <1>3, <2>3, <2>5, <2>6
<1> QED BY <1>4, <1>5, <1>6 DEF HttpdTask, unlock_post_handler

\* The task of the HTTP server: the next request.
LEMMA NextRequestKeeps == LockInv /\ (challenge_get_handler \/ unlock_begin \/ form_begin) => LockInv'
<1> SUFFICES ASSUME LockInv, challenge_get_handler \/ unlock_begin \/ form_begin PROVE LockInv'
  OBVIOUS
<1> USE DEF LockInv
<1>1. UNCHANGED <<opener, timer, httpd, stops, spent, taskless, crossed>>
  BY DEF challenge_get_handler, unlock_begin, form_begin
<1>2. httpd = "serving" /\ request = NoRequest /\ opener \notin {"idle", "start"}
  BY DEF challenge_get_handler, unlock_begin, form_begin, Serves
<1>3. ASSUME admin' \in AdminStates, admin'.server = admin.server
      PROVE  ServerTyped' /\ Opening' /\ Closing' /\ Serving'
  <2>1. Closing'
    BY <1>1, <1>3 DEF Closing, Starting
  <2> QED BY <1>1, <1>2, <1>3, <2>1 DEF ServerTyped, Opening, Serving
<1>4. CASE challenge_get_handler
  <2>1. UNCHANGED request /\ request.pc = "none" /\ fresh < MaxChallenges
    BY <1>2, <1>4 DEF challenge_get_handler, NoRequest
  <2> DEFINE c == IF admin.challenge = 0 THEN fresh' ELSE admin.challenge
  <2>2. /\ fresh' \in 0 .. MaxChallenges /\ fresh <= fresh' /\ c \in 1 .. fresh'
        /\ c \in 0 .. MaxChallenges /\ c \notin spent
    BY <1>4, <2>1, AdminAssumption
       DEF challenge_get_handler, ChallengesCounted, ServerTyped, AdminStates, Challenges
  <2>3. admin' = [admin EXCEPT !.challenge = c]
    BY <1>4 DEF challenge_get_handler
  <2> HIDE DEF c
  <2>4. /\ admin' \in AdminStates /\ admin'.server = admin.server /\ admin'.challenge = c
        /\ admin'.unlocked = admin.unlocked
    BY <2>2, <2>3 DEF ServerTyped, AdminStates
  <2>5. handed' = handed \cup {c}
    BY <1>4, <2>4 DEF challenge_get_handler
  <2>6. ChallengesCounted'
    <3>1. handed' \subseteq 1 .. fresh'
      BY <2>2, <2>5 DEF ChallengesCounted
    <3>2. request' \in RequestStates'
      BY <1>2, <2>1 DEF NoRequest, RequestStates
    <3> QED BY <1>1, <2>2, <2>4, <2>5, <3>1, <3>2 DEF ChallengesCounted
  <2>7. Challenges' /\ ClosedIsLocked'
    BY <1>1, <2>1, <2>2, <2>4 DEF Challenges, ClosedIsLocked
  <2> QED BY <1>3, <2>4, <2>6, <2>7
<1>5. CASE unlock_begin
  <2>1. UNCHANGED <<admin, fresh, handed>> /\ fresh < MaxChallenges
    BY <1>5 DEF unlock_begin
  <2>2. PICK c \in handed : request' = [pc |-> "verify", signed |-> c]
    BY <1>5 DEF unlock_begin
  <2>3. request' \in [pc : {"verify", "unlock"}, signed : handed] /\ request'.pc = "verify"
    BY <2>2
  <2>4. request.pc = "none"
    BY <1>2 DEF NoRequest
  <2>5. ChallengesCounted' /\ Challenges' /\ ClosedIsLocked'
    BY <1>1, <2>1, <2>3, <2>4 DEF ChallengesCounted, RequestStates, Challenges, ClosedIsLocked
  <2> QED BY <1>3, <2>1, <2>5 DEF ServerTyped
<1>6. CASE form_begin
  <2>1. UNCHANGED <<admin, fresh, handed>> /\ admin.unlocked
    BY <1>6 DEF form_begin
  <2>2. request' \in [pc : {"none", "regenerate", "rearm", "form"}] /\ request'.pc = "form"
    BY <1>6 DEF form_begin
  <2>3. request.pc = "none"
    BY <1>2 DEF NoRequest
  <2>4. ChallengesCounted' /\ Challenges' /\ ClosedIsLocked'
    BY <1>1, <2>1, <2>2, <2>3 DEF ChallengesCounted, RequestStates, Challenges, ClosedIsLocked
  <2> QED BY <1>3, <2>1, <2>4 DEF ServerTyped
<1> QED BY <1>4, <1>5, <1>6

\* Every step of the conscience keeps the lock.
LEMMA LockStep == LockInv /\ [Next]_vars => LockInv'
<1> SUFFICES ASSUME LockInv, AdminStep PROVE LockInv'
  BY StepsOfAdmin
<1>1. CASE UNCHANGED adminvars
  <2> USE <1>1 DEF adminvars, LockInv
  <2>1. ServerTyped'
    BY DEF ServerTyped
  <2>2. ChallengesCounted'
    BY DEF ChallengesCounted, RequestStates
  <2>3. Opening' /\ Serving'
    BY DEF Opening, Serving
  <2>4. Closing'
    BY DEF Closing, Starting
  <2>5. Challenges' /\ ClosedIsLocked'
    BY DEF Challenges, ClosedIsLocked
  <2> QED BY <2>1, <2>2, <2>3, <2>4, <2>5
<1> QED BY <1>1, LockRestart, BeginsKeeps, StartKeeps, StartProceeds, StopKeeps, RequestKeeps,
           NextRequestKeeps
        DEF AdminStep

(***************************************************************************)
(* However the unlocking, the forms, the timer and the stops of            *)
(* admin_server.c interleave, in every boot and however many tasks stop    *)
(* the server at once: a challenge unlocks at most once, a form is worked  *)
(* on only after an unlock and while the server is there, and a server     *)
(* that is stopped is locked.                                              *)
(***************************************************************************)
THEOREM TheLockHolds == Spec => []LockHolds
<1>1. LockInv => LockHolds
  BY DEF LockInv, LockHolds, Challenges, ChallengeUnlocksOnce, FormsFollowUnlock, Opening
<1> QED BY <1>1, LockInit, LockStep, PTL DEF Spec

(***************************************************************************)
(* Once the admin AP is up, G2G and the broker are stopped and stay so,    *)
(* and the state reads Admin between pills, unless the button was held     *)
(* before the boot, or a pill, was done (main.rs:                          *)
(* on_admin_setup_button_hold, transition_to).                             *)
(***************************************************************************)
THEOREM TheAdminModeHolds == Spec => []AdminModeHolds
<1>1. ModeInv => AdminIsQuiet /\ AdminIsLabelled
  BY DEF ModeInv, ModeTyped, Windows, Quieting, Labelling, AdminIsQuiet, AdminIsLabelled
<1>2. LockInv /\ ModeInv => TypeOK
  BY TypedIsAdminTypeOK DEF LockInv, ModeInv, ModeTyped, TypeOK
<1>3. LockInv /\ ModeInv => AdminModeHolds
  BY <1>1, <1>2 DEF AdminModeHolds
<1> QED BY <1>3, LockInit, LockStep, ModeInit, ModeStep, PTL DEF Spec

-----------------------------------------------------------------------------

(***************************************************************************)
(* The strengthening: an armed task has reported nothing since the button  *)
(* was last let go, a button that is up has no reports, and the tasks to   *)
(* come have none.                                                         *)
(***************************************************************************)
ReportsInv ==
  /\ created \in 0 .. MaxTasks
  /\ down \in BOOLEAN
  /\ holds \in [ButtonTasks -> 0 .. 1]
  /\ alive \subseteq 1 .. created
  /\ \A t \in ButtonTasks : t \in armed \/ ~down \/ t > created => holds[t] = 0

\* The invariant holds at the start.
LEMMA ReportsInit == ButtonInit => ReportsInv
BY ButtonAssumption DEF ButtonInit, ReportsInv, ButtonTasks

\* Every step keeps the invariant.
LEMMA ReportsStep == ReportsInv /\ [ButtonNext]_buttonVars => ReportsInv'
<1> SUFFICES ASSUME ReportsInv, [ButtonNext]_buttonVars PROVE ReportsInv'
  OBVIOUS
<1> USE ButtonAssumption DEF ReportsInv, ButtonTasks
<1>1. CASE Finger
  BY <1>1 DEF Finger
<1>2. CASE setup_button_start
  BY <1>2 DEF setup_button_start
<1>3. CASE setup_button_stop
  BY <1>3 DEF setup_button_stop
<1>4. ASSUME NEW t \in ButtonTasks, setup_button_task(t) PROVE ReportsInv'
  <2>1. CASE poll_down(t)
    <3>1. CASE Held(t)
      <4>1. t \in armed /\ holds[t] = 0
        BY <3>1 DEF Held
      <4>2. holds' = [holds EXCEPT ![t] = 1] /\ armed' = armed \ {t}
        BY <2>1, <3>1, <4>1 DEF poll_down
      <4> QED BY <2>1, <4>2 DEF poll_down
    <3>2. CASE ~Held(t)
      <4>1. holds' = holds /\ armed' = armed
        BY <2>1, <3>2 DEF poll_down
      <4> QED BY <2>1, <4>1 DEF poll_down
    <3> QED BY <3>1, <3>2
  <2>2. CASE poll_up(t)
    BY <2>2 DEF poll_up
  <2>3. CASE task_end(t)
    BY <2>3 DEF task_end
  <2> QED BY <1>4, <2>1, <2>2, <2>3 DEF setup_button_task
<1>5. CASE UNCHANGED buttonVars
  BY <1>5 DEF buttonVars
<1> QED BY <1>1, <1>2, <1>3, <1>4, <1>5 DEF ButtonNext

(***************************************************************************)
(* A task calls on_hold at most once per press of the button, for every    *)
(* hold time, poll time and number of tasks (setup_button_task).           *)
(***************************************************************************)
THEOREM PressReportedOnce == ButtonSpec => []OncePerPress
<1>1. ReportsInv => OncePerPress
  BY DEF ReportsInv, OncePerPress
<1> QED BY <1>1, ReportsInit, ReportsStep, PTL DEF ButtonSpec
=============================================================================
