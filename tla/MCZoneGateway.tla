--------------------------- MODULE MCZoneGateway ----------------------------
(***************************************************************************)
(* Two retries, one client, two events in the queue, three calls of the    *)
(* manager and two starts of the gateway: enough for a switch and a        *)
(* restore with events of the time before still waiting.                   *)
(***************************************************************************)
EXTENDS ZoneGateway
=============================================================================
