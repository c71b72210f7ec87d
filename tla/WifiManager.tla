---------------------------- MODULE WifiManager -----------------------------
(***************************************************************************)
(* The Wi-Fi manager (wifi_manager.c): its handlers run in the task of the *)
(* event loop, its calls in the tasks of their callers; they share statics *)
(* without a lock.  The radio and the event loop are external: the radio   *)
(* posts events, which are handled later, in order.                        *)
(*                                                                         *)
(* There is no Next here: ZoneGateway adds the gateway that polls          *)
(* wifi_manager_has_ip.                                                    *)
(***************************************************************************)
EXTENDS Naturals, Sequences

CONSTANTS
  StaMaxRetries,   \* s_config.sta_max_retries
  MaxClients,      \* ap_max_connections
  MaxEvents,       \* bound on the events that wait when the radio adds one
  MaxCalls         \* bound on the calls of the manager

ASSUME WifiAssumption == StaMaxRetries \in Nat \ {0} /\ MaxClients \in Nat

VARIABLES
  st,       \* started, s_ap_only_active, s_sta_state, s_sta_retry_count, the bits of
            \* s_event_group (which exists while group), s_ap_connected_clients
  call,     \* the call in progress and its next step
  calls,    \* how many calls were made
  radio,    \* mode, the station's link, the number of clients of the access point
  events,   \* the queue of the event loop
  failed,   \* history: disconnections handled since the last connection, or restore
  ignored,  \* history: a disconnection was not answered because of s_ap_only_active, or the
            \* limit was reached while a call was about to reset the count
  refused   \* history: a switch or a restore failed half-way

wifi == <<st, call, calls, radio, events, failed, ignored, refused>>

WifiInit ==
  /\ st = [started |-> FALSE, ap_only |-> FALSE, sta |-> "DISCONNECTED", retry |-> 0, bits |-> {},
           group |-> FALSE, clients |-> 0]
  /\ call = "none" /\ calls = 0
  /\ radio = [mode |-> "off", sta |-> "down", clients |-> 0]
  /\ events = << >> /\ failed = 0 /\ ignored = FALSE /\ refused = FALSE

has_ip == st.group /\ "GOT_IP" \in st.bits

-----------------------------------------------------------------------------
(***************************************************************************)
(* The radio.                                                              *)
(***************************************************************************)
Connected(r) == IF r.mode = "apsta" /\ r.sta = "down" THEN [r EXCEPT !.sta = "connecting"] ELSE r

Times(e, n) == [i \in 1 .. n |-> e]
StaDown == IF radio.sta = "down" THEN << >> ELSE <<"STA_DISCONNECTED">>
AllLeave == Times("AP_LEFT", radio.clients)

Radio ==
  /\ radio.mode # "off" /\ Len(events) < MaxEvents
  /\ \/ /\ radio.sta = "connecting"
        /\ radio' = [radio EXCEPT !.sta = "up"] /\ events' = Append(events, "STA_CONNECTED")
     \/ /\ radio.sta = "up"
        /\ radio' = [radio EXCEPT !.sta = "ip"] /\ events' = Append(events, "GOT_IP")
     \/ /\ radio.sta # "down"
        /\ radio' = [radio EXCEPT !.sta = "down"] /\ events' = Append(events, "STA_DISCONNECTED")
     \/ /\ radio.clients < MaxClients
        /\ radio' = [radio EXCEPT !.clients = @ + 1] /\ events' = Append(events, "AP_JOINED")
     \/ /\ radio.clients > 0
        /\ radio' = [radio EXCEPT !.clients = @ - 1] /\ events' = Append(events, "AP_LEFT")
  /\ UNCHANGED <<st, call, calls, failed, ignored, refused>>

\* The router lets the station in and gives it an address.
RouterServes ==
  /\ radio.mode = "apsta" /\ Len(events) < MaxEvents
  /\ \/ /\ radio.sta = "connecting"
        /\ radio' = [radio EXCEPT !.sta = "up"] /\ events' = Append(events, "STA_CONNECTED")
     \/ /\ radio.sta = "up"
        /\ radio' = [radio EXCEPT !.sta = "ip"] /\ events' = Append(events, "GOT_IP")
  /\ UNCHANGED <<st, call, calls, failed, ignored, refused>>

-----------------------------------------------------------------------------
(***************************************************************************)
(* handle_wifi_event and handle_ip_event, by event.                        *)
(***************************************************************************)
Handled(e) == events # << >> /\ Head(events) = e
Bits(s, new) == IF s.group THEN new ELSE s.bits

sta_start ==
  /\ Handled("STA_START")
  /\ events' = Tail(events)
  /\ st' = [st EXCEPT !.sta = "CONNECTING"]
  /\ radio' = Connected(radio)
  /\ UNCHANGED <<failed, ignored>>

sta_connected ==
  /\ Handled("STA_CONNECTED")
  /\ events' = Tail(events)
  /\ st' = [st EXCEPT !.sta = "CONNECTED", !.retry = 0, !.bits = Bits(st, @ \cup {"CONNECTED"})]
  /\ failed' = 0
  /\ UNCHANGED <<radio, ignored>>

\* Faulty variant: only one of the two bits is cleared.
sta_disconnected_keeps_ip ==
  /\ Handled("STA_DISCONNECTED")
  /\ st' = [st EXCEPT !.sta = "DISCONNECTED", !.bits = @ \ {"CONNECTED"}]
  /\ failed' = IF failed <= StaMaxRetries THEN failed + 1 ELSE failed
  /\ IF st.ap_only THEN events' = Tail(events) /\ ignored' = TRUE
     ELSE events' = <<"RETRY">> \o Tail(events) /\ UNCHANGED ignored
  /\ UNCHANGED radio

\* The first half: up to the test of s_ap_only_active.
sta_disconnected ==
  /\ Handled("STA_DISCONNECTED")
  /\ st' = [st EXCEPT !.sta = "DISCONNECTED", !.bits = {}]
  /\ failed' = IF failed <= StaMaxRetries THEN failed + 1 ELSE failed
  /\ IF st.ap_only THEN events' = Tail(events) /\ ignored' = TRUE
     ELSE events' = <<"RETRY">> \o Tail(events) /\ UNCHANGED ignored
  /\ UNCHANGED radio

\* Faulty variant: the state is set but no connection asked for.
sta_retry_idle ==
  /\ Handled("RETRY")
  /\ events' = Tail(events)
  /\ IF st.retry < StaMaxRetries
     THEN st' = [st EXCEPT !.retry = @ + 1, !.sta = "CONNECTING"]
     ELSE UNCHANGED st
  /\ UNCHANGED <<radio, failed, ignored>>

\* The second half.  A stopped manager has no retries left: its configuration is wiped.
sta_retry ==
  /\ Handled("RETRY")
  /\ events' = Tail(events)
  /\ IF st.retry < StaMaxRetries /\ st.group
     THEN st' = [st EXCEPT !.retry = @ + 1, !.sta = "CONNECTING"] /\ radio' = Connected(radio)
          /\ UNCHANGED ignored
     ELSE ignored' = (ignored \/ call # "none") /\ UNCHANGED <<st, radio>>
  /\ UNCHANGED failed

ap_joined ==
  /\ Handled("AP_JOINED")
  /\ events' = Tail(events)
  /\ st' = [st EXCEPT !.clients = (@ + 1) % 256]
  /\ UNCHANGED <<radio, failed, ignored>>

ap_left ==
  /\ Handled("AP_LEFT")
  /\ events' = Tail(events)
  /\ st' = [st EXCEPT !.clients = IF @ > 0 THEN @ - 1 ELSE @]
  /\ UNCHANGED <<radio, failed, ignored>>

handle_ip_event ==
  /\ Handled("GOT_IP")
  /\ events' = Tail(events)
  /\ st' = [st EXCEPT !.sta = "GOT_IP", !.bits = Bits(st, @ \cup {"GOT_IP"})]
  /\ UNCHANGED <<radio, failed, ignored>>

handle_event ==
  /\ \/ sta_start \/ sta_connected \/ sta_disconnected \/ sta_retry
     \/ ap_joined \/ ap_left \/ handle_ip_event
  /\ UNCHANGED <<call, calls, refused>>

-----------------------------------------------------------------------------
(***************************************************************************)
(* The calls, one at a time.                                               *)
(***************************************************************************)
Begin(name) == call = "none" /\ calls < MaxCalls /\ call' = name /\ calls' = calls + 1
Step(from, to) == call = from /\ call' = to /\ UNCHANGED calls

\* Up to esp_wifi_start.  The statics are in their first state: nothing starts again
\* after wifi_manager_stop.
wifi_manager_start ==
  \/ /\ calls = 0 /\ Begin("start")
     /\ st' = [st EXCEPT !.group = TRUE]
     /\ radio' = [radio EXCEPT !.mode = "apsta"]
     /\ events' = Append(events, "STA_START")
     /\ UNCHANGED <<failed, ignored, refused>>
  \/ /\ Step("start", "none")
     /\ st' = [st EXCEPT !.started = TRUE]
     /\ UNCHANGED <<radio, events, failed, ignored, refused>>

\* The radio is stopped, then the statics are reset.
wifi_manager_stop ==
  \/ /\ st.started /\ Begin("stop")
     /\ radio' = [mode |-> "off", sta |-> "down", clients |-> 0]
     /\ events' = events \o StaDown \o AllLeave
     /\ UNCHANGED <<st, failed, ignored, refused>>
  \/ /\ Step("stop", "none")
     /\ st' = [st EXCEPT !.started = FALSE, !.ap_only = FALSE, !.sta = "DISCONNECTED", !.retry = 0,
                         !.bits = {}, !.group = FALSE, !.clients = 0]
     /\ UNCHANGED <<radio, events, failed, ignored, refused>>

\* Statics first; then esp_wifi_disconnect, the mode and the configuration.  The new
\* configuration makes the clients leave.
wifi_manager_switch_to_ap ==
  \/ /\ st.started /\ Begin("switch")
     /\ st' = [st EXCEPT !.bits = {}, !.sta = "DISCONNECTED", !.retry = 0, !.clients = 0, !.ap_only = TRUE]
     /\ UNCHANGED <<radio, events, failed, ignored, refused>>
  \/ /\ Step("switch", "switch_mode")
     /\ radio' = [radio EXCEPT !.sta = "down"]
     /\ events' = events \o StaDown
     /\ UNCHANGED <<st, failed, ignored, refused>>
  \/ /\ Step("switch_mode", "switch_config")
     /\ radio' = [radio EXCEPT !.mode = "ap", !.sta = "down"]
     /\ events' = events \o StaDown
     /\ UNCHANGED <<st, failed, ignored, refused>>
  \/ /\ Step("switch_config", "none")
     /\ radio' = [radio EXCEPT !.clients = 0]
     /\ events' = events \o AllLeave
     /\ UNCHANGED <<st, failed, ignored, refused>>
  \/ /\ Step("switch_mode", "none") \/ Step("switch_config", "none")
     /\ st' = [st EXCEPT !.ap_only = FALSE]
     /\ refused' = TRUE
     /\ UNCHANGED <<radio, events, failed, ignored>>

\* The radio is stopped, configured, started and told to connect.
wifi_manager_restore_normal ==
  \/ /\ st.started /\ st.ap_only /\ Begin("restore")
     /\ st' = [st EXCEPT !.ap_only = FALSE, !.clients = 0]
     /\ UNCHANGED <<radio, events, failed, ignored, refused>>
  \/ /\ Step("restore", "restore_start")
     /\ radio' = [mode |-> "off", sta |-> "down", clients |-> 0]
     /\ events' = events \o StaDown \o AllLeave
     /\ UNCHANGED <<st, failed, ignored, refused>>
  \/ /\ Step("restore_start", "restore_connect")
     /\ radio' = [radio EXCEPT !.mode = "apsta"]
     /\ events' = Append(events, "STA_START")
     /\ UNCHANGED <<st, failed, ignored, refused>>
  \/ /\ Step("restore_connect", "restore_end")
     /\ radio' = Connected(radio)
     /\ ignored' = FALSE
     /\ UNCHANGED <<st, events, failed, refused>>
  \/ /\ Step("restore_end", "none")
     /\ st' = [st EXCEPT !.sta = "CONNECTING", !.retry = 0]
     /\ UNCHANGED <<radio, events, failed, ignored, refused>>
  \/ /\ Step("restore", "none") \/ Step("restore_start", "none") \/ Step("restore_connect", "none")
     /\ refused' = TRUE
     /\ UNCHANGED <<st, radio, events, failed, ignored>>

WifiCall ==
  \/ wifi_manager_start \/ wifi_manager_stop \/ wifi_manager_switch_to_ap
  \/ wifi_manager_restore_normal

WifiNext == Radio \/ handle_event \/ WifiCall

-----------------------------------------------------------------------------
WifiTypeOK ==
  /\ st \in [started : BOOLEAN, ap_only : BOOLEAN, group : BOOLEAN,
             sta : {"DISCONNECTED", "CONNECTING", "CONNECTED", "GOT_IP"},
             retry : 0 .. StaMaxRetries, bits : SUBSET {"CONNECTED", "GOT_IP"}, clients : 0 .. 255]
  /\ radio \in [mode : {"off", "ap", "apsta"}, sta : {"down", "connecting", "up", "ip"},
                clients : 0 .. MaxClients]

Waits(e) == \E i \in DOMAIN events : events[i] = e

(***************************************************************************)
(* wifi_manager_has_ip is right: it answers yes without an address only    *)
(* until the disconnection that is on its way is handled, also when the    *)
(* event of an address comes after a switch has cleared the bits.          *)
(***************************************************************************)
HasIpIsTrue == has_ip => radio.sta = "ip" \/ Waits("STA_DISCONNECTED")

(***************************************************************************)
(* With all events handled the number of clients is right, although a      *)
(* switch and a restore reset it while events wait, unless one of them     *)
(* failed half-way.                                                        *)
(***************************************************************************)
ClientsCounted ==
  ~refused /\ call = "none" /\ ~Waits("AP_JOINED") /\ ~Waits("AP_LEFT") =>
    st.clients = radio.clients

\* The last retry failed.
GaveUp == st.sta = "DISCONNECTED" /\ st.retry = StaMaxRetries /\ ~Waits("RETRY")

(***************************************************************************)
(* The station gives up only after StaMaxRetries retries in a row failed,  *)
(* the first attempt not counted.                                          *)
(***************************************************************************)
GivesUpLate == st.started /\ GaveUp => failed > StaMaxRetries
=============================================================================
