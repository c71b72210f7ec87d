---------------------------- MODULE AdminServer ----------------------------
(***************************************************************************)
(* The admin server (admin_server.c) between its start and its stop: the   *)
(* task that starts it, the task of the HTTP server, which takes one       *)
(* request after the other, the window's timer, and the tasks that stop    *)
(* it.  No lock protects the statics, so every statement that another task *)
(* can observe is a step.  What a form does to the tables is modelled in   *)
(* MembraneStore.                                                          *)
(*                                                                         *)
(* httpd_stop (external) asks the server to end, waits for the request in  *)
(* hand and frees the server, or fails at once.  On a server that another  *)
(* stop has freed it returns anything, if it returns.                      *)
(***************************************************************************)
EXTENDS Naturals, FiniteSets

CONSTANTS
  StopTasks,      \* tasks that may call admin_server_stop at the same time
  CloseTasks,     \* those of them that are close_window_task
  MaxChallenges,  \* bound on the challenges generated in a boot
  TasksFail       \* whether xTaskCreate may fail

ASSUME AdminAssumption ==
  CloseTasks \subseteq StopTasks /\ TasksFail \in BOOLEAN /\ MaxChallenges \in Nat \ {0}

VARIABLES
  admin,     \* the statics: s_mode, s_server # NULL, s_running, s_unlocked,
             \* the challenge (0: not valid), s_on_window_closed # NULL
  opener,    \* where the task is that starts the server
  timer,     \* whether s_window_timer is armed
  httpd,     \* the HTTP server: absent, serving, stopping, gone
  request,   \* the request in hand
  stops,     \* each task in admin_server_stop_internal, with its copies
  fresh,     \* number of challenges generated in this boot
  handed,    \* history: the challenges that were sent out
  spent,     \* history: the challenges whose signature unlocked
  taskless,  \* history: the task for a close or a restart was not created
  crossed    \* history: a stop fell into the start of the server

adminvars ==
  <<admin, opener, timer, httpd, request, stops, fresh, handed, spent, taskless, crossed>>

clear_runtime_state(a) ==
  [a EXCEPT !.server = FALSE, !.running = FALSE, !.unlocked = FALSE,
            !.challenge = 0, !.callback = FALSE]

NoRequest == [pc |-> "none"]
NoStop == [pc |-> "idle"]

\* What a task does once the server is stopped: restart_later_task restarts.
After(t) == IF t = "restart_later" THEN [pc |-> "restart"] ELSE NoStop

AdminBoot ==
  [admin |-> [mode |-> "bootstrap", server |-> FALSE, running |-> FALSE, unlocked |-> FALSE,
              challenge |-> 0, callback |-> FALSE],
   stops |-> [t \in StopTasks |-> NoStop]]

AdminInit ==
  /\ admin = AdminBoot.admin /\ stops = AdminBoot.stops
  /\ opener = "idle" /\ timer = FALSE /\ httpd = "absent" /\ request = NoRequest
  /\ fresh = 0 /\ handed = {} /\ spent = {} /\ taskless = FALSE /\ crossed = FALSE

AdminRestart ==
  /\ admin' = AdminBoot.admin /\ stops' = AdminBoot.stops
  /\ opener' = "idle" /\ timer' = FALSE /\ httpd' = "absent" /\ request' = NoRequest
  /\ fresh' = 0 /\ handed' = {} /\ spent' = {} /\ taskless' = FALSE /\ crossed' = FALSE

-----------------------------------------------------------------------------
(***************************************************************************)
(* admin_server_start, and admin_server_open_window, which also arms the   *)
(* timer.  A boot calls one of them, once, so the port is never to be      *)
(* released first.                                                         *)
(***************************************************************************)
start_begin(mode) ==
  /\ opener = "idle" /\ ~admin.server /\ ~admin.running
  /\ opener' = "start"
  /\ fresh' = IF mode = "maintenance" THEN fresh + 1 ELSE fresh
  /\ admin' = [admin EXCEPT !.mode = mode, !.callback = mode = "maintenance", !.unlocked = FALSE,
                            !.challenge = IF mode = "maintenance" THEN fresh' ELSE 0]
  /\ crossed' = \E t \in StopTasks : stops[t].pc # "idle"
  /\ UNCHANGED <<timer, httpd, request, stops, handed, spent, taskless>>

start_httpd ==
  /\ opener = "start"
  /\ \/ opener' = "register" /\ httpd' = "serving" /\ admin' = [admin EXCEPT !.server = TRUE]
     \/ opener' = "failed" /\ admin' = clear_runtime_state(admin) /\ UNCHANGED httpd
  /\ UNCHANGED <<timer, request, stops, fresh, handed, spent, taskless, crossed>>

\* The registrations fail on a server that is gone, and ESP_ERROR_CHECK aborts.
start_aborts == opener = "register" /\ (~admin.server \/ httpd = "gone")

start_register ==
  /\ opener = "register" /\ admin.server
  /\ opener' = "run"
  /\ UNCHANGED <<admin, timer, httpd, request, stops, fresh, handed, spent, taskless, crossed>>

start_end ==
  /\ opener = "run"
  /\ admin' = [admin EXCEPT !.running = TRUE]
  /\ opener' = IF admin.mode = "maintenance" THEN "timer" ELSE "opened"
  /\ UNCHANGED <<timer, httpd, request, stops, fresh, handed, spent, taskless, crossed>>

open_window_timer ==
  /\ opener = "timer"
  /\ \/ opener' = "opened" /\ timer' = TRUE
     \/ opener' = "failed" /\ UNCHANGED timer
  /\ UNCHANGED <<admin, httpd, request, stops, fresh, handed, spent, taskless, crossed>>

admin_server_start == start_httpd \/ start_register \/ start_end \/ open_window_timer

-----------------------------------------------------------------------------
\* The result of xTaskCreate is not looked at.
CreateTask(t) ==
  /\ stops[t].pc = "idle"
  /\ \/ stops' = [stops EXCEPT ![t] = [pc |-> "begin"]] /\ UNCHANGED taskless
     \/ TasksFail /\ taskless' = TRUE /\ UNCHANGED stops

window_timer_cb ==
  /\ timer
  /\ timer' = FALSE
  /\ \E t \in CloseTasks : CreateTask(t)
  /\ UNCHANGED <<admin, opener, httpd, request, fresh, handed, spent, crossed>>

Starting == opener \in {"start", "register", "run", "timer"}

stop_begin(t) ==
  /\ stops[t].pc = "begin"
  /\ IF admin.server
     THEN /\ timer' = FALSE
          /\ stops' = [stops EXCEPT ![t] = [pc |-> "lock",
                         notify |-> admin.mode = "maintenance" /\ admin.callback]]
     ELSE /\ stops' = [stops EXCEPT ![t] = [pc |-> "clear"]]
          /\ UNCHANGED timer
  /\ crossed' = (crossed \/ Starting)
  /\ UNCHANGED <<admin, opener, httpd, request, fresh, handed, spent, taskless>>

\* There was no server to stop.
stop_clear(t) ==
  /\ stops[t].pc = "clear"
  /\ admin' = clear_runtime_state(admin)
  /\ stops' = [stops EXCEPT ![t] = After(t)]
  /\ UNCHANGED <<opener, timer, httpd, request, fresh, handed, spent, taskless, crossed>>

stop_lock(t) ==
  /\ stops[t].pc = "lock"
  /\ admin' = [admin EXCEPT !.unlocked = FALSE, !.challenge = 0]
  /\ stops' = [stops EXCEPT ![t].pc = "httpd_stop"]
  /\ UNCHANGED <<opener, timer, httpd, request, fresh, handed, spent, taskless, crossed>>

httpd_stop(t) ==
  /\ \/ /\ stops[t].pc = "httpd_stop" /\ httpd # "gone"
        /\ \/ httpd' = "stopping" /\ stops' = [stops EXCEPT ![t].pc = "wait"]
           \/ stops' = [stops EXCEPT ![t].pc = "failed"] /\ UNCHANGED httpd
     \/ /\ stops[t].pc = "wait" /\ httpd = "stopping" /\ request = NoRequest
        /\ httpd' = "gone" /\ stops' = [stops EXCEPT ![t].pc = "stopped"]
     \/ /\ stops[t].pc \in {"httpd_stop", "wait"} /\ httpd = "gone"
        /\ \E pc \in {"stopped", "failed"} : stops' = [stops EXCEPT ![t].pc = pc]
        /\ UNCHANGED httpd
  /\ UNCHANGED <<admin, opener, timer, request, fresh, handed, spent, taskless, crossed>>

\* Faulty variant: the statics are left for the next start to set.
stop_end_uncleared(t) ==
  /\ stops[t].pc \in {"stopped", "failed"}
  /\ admin' = IF stops[t].pc = "stopped" THEN [admin EXCEPT !.server = FALSE, !.running = FALSE]
              ELSE [admin EXCEPT !.callback = FALSE]
  /\ stops' = [stops EXCEPT ![t] = IF @.notify THEN [pc |-> "notify"] ELSE After(t)]
  /\ UNCHANGED <<opener, timer, httpd, request, fresh, handed, spent, taskless, crossed>>

stop_end(t) ==
  /\ stops[t].pc \in {"stopped", "failed"}
  /\ admin' = IF stops[t].pc = "stopped" THEN clear_runtime_state(admin)
              ELSE [admin EXCEPT !.callback = FALSE]
  /\ stops' = [stops EXCEPT ![t] = IF @.notify THEN [pc |-> "notify"] ELSE After(t)]
  /\ UNCHANGED <<opener, timer, httpd, request, fresh, handed, spent, taskless, crossed>>

admin_server_stop_internal(t) ==
  stop_begin(t) \/ stop_clear(t) \/ stop_lock(t) \/ httpd_stop(t) \/ stop_end(t)

-----------------------------------------------------------------------------
\* The task of the HTTP server takes a request, for a handler that is registered.
Serves(mode) ==
  /\ httpd = "serving" /\ request = NoRequest /\ admin.mode = mode
  /\ opener \in {"run", "timer", "opened"}

challenge_get_handler ==
  /\ Serves("maintenance") /\ fresh < MaxChallenges
  /\ fresh' = IF admin.challenge = 0 THEN fresh + 1 ELSE fresh
  /\ admin' = [admin EXCEPT !.challenge = IF @ = 0 THEN fresh' ELSE @]
  /\ handed' = handed \cup {admin'.challenge}
  /\ UNCHANGED <<opener, timer, httpd, request, stops, spent, taskless, crossed>>

\* The body, which may take its time, holds a signature of some challenge.
unlock_begin ==
  /\ Serves("maintenance") /\ fresh < MaxChallenges
  /\ admin.challenge # 0
  /\ \E c \in handed : request' = [pc |-> "verify", signed |-> c]
  /\ UNCHANGED <<admin, opener, timer, httpd, stops, fresh, handed, spent, taskless, crossed>>

verify_admin_signature ==
  /\ request.pc = "verify"
  /\ \/ request.signed = admin.challenge /\ request' = [request EXCEPT !.pc = "unlock"]
     \/ request' = NoRequest
  /\ UNCHANGED <<admin, opener, timer, httpd, stops, fresh, handed, spent, taskless, crossed>>

unlock ==
  /\ request.pc = "unlock"
  /\ admin' = [admin EXCEPT !.unlocked = TRUE]
  /\ spent' = spent \cup {request.signed}
  /\ request' = [pc |-> "regenerate"]
  /\ UNCHANGED <<opener, timer, httpd, stops, fresh, handed, taskless, crossed>>

unlock_regenerate ==
  /\ request.pc = "regenerate"
  /\ fresh' = fresh + 1
  /\ admin' = [admin EXCEPT !.challenge = fresh']
  /\ request' = [pc |-> "rearm"]
  /\ UNCHANGED <<opener, timer, httpd, stops, handed, spent, taskless, crossed>>

\* Faulty variant: the timer is stopped and not started again.
unlock_disarm ==
  /\ request.pc = "rearm"
  /\ timer' = FALSE
  /\ request' = NoRequest
  /\ UNCHANGED <<admin, opener, httpd, stops, fresh, handed, spent, taskless, crossed>>

restart_window_timer ==
  /\ request.pc = "rearm"
  /\ timer' = TRUE
  /\ request' = NoRequest
  /\ UNCHANGED <<admin, opener, httpd, stops, fresh, handed, spent, taskless, crossed>>

unlock_post_handler ==
  verify_admin_signature \/ unlock \/ unlock_regenerate \/ restart_window_timer

\* A form, or the maintenance page: s_unlocked is looked at before the body is
\* read, and not again.
form_begin ==
  /\ Serves("maintenance")
  /\ admin.unlocked
  /\ request' = [pc |-> "form"]
  /\ UNCHANGED <<admin, opener, timer, httpd, stops, fresh, handed, spent, taskless, crossed>>

form_end ==
  /\ request.pc = "form"
  /\ request' = NoRequest
  /\ UNCHANGED <<admin, opener, timer, httpd, stops, fresh, handed, spent, taskless, crossed>>

HttpdTask == unlock_post_handler \/ form_end

-----------------------------------------------------------------------------
AdminTypeOK ==
  /\ admin \in [mode : {"bootstrap", "maintenance"}, server : BOOLEAN, running : BOOLEAN,
                unlocked : BOOLEAN, challenge : 0 .. MaxChallenges, callback : BOOLEAN]
  /\ opener \in {"idle", "start", "register", "run", "timer", "opened", "failed"}
  /\ timer \in BOOLEAN /\ taskless \in BOOLEAN
  /\ httpd \in {"absent", "serving", "stopping", "gone"}
  /\ fresh \in 0 .. MaxChallenges /\ handed \subseteq 1 .. fresh /\ spent \subseteq handed

(***************************************************************************)
(* A challenge unlocks at most once: once it did, the next signature must  *)
(* be of another one, however the unlocking interleaves with a stop, which *)
(* clears the challenge (unlock_post_handler, admin_server_stop_internal). *)
(***************************************************************************)
ChallengeUnlocksOnce == request.pc = "unlock" => request.signed \notin spent

(***************************************************************************)
(* A form is worked on, or the maintenance page shown, only after the      *)
(* signature of a challenge of this window was accepted, and the server is *)
(* not freed under it (the handlers test s_unlocked once, before the body  *)
(* is read; httpd_stop waits for them).                                    *)
(***************************************************************************)
FormsFollowUnlock == request.pc = "form" => spent # {} /\ httpd # "gone"

(***************************************************************************)
(* When the server is stopped it is locked, even when an unlock ran into   *)
(* the stop: the unlock comes after the stop cleared s_unlocked, and the   *)
(* second clearing after httpd_stop takes it back.  Only a stop that fell  *)
(* into the start may forget a server that serves.                         *)
(***************************************************************************)
ClosedIsLocked == ~admin.server /\ ~crossed => ~admin.unlocked

(***************************************************************************)
(* The lock holds: the three above together, through every interleaving of *)
(* unlock, form, timer and stop.                                           *)
(***************************************************************************)
LockHolds == ChallengeUnlocksOnce /\ FormsFollowUnlock /\ ClosedIsLocked
=============================================================================
