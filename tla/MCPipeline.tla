----------------------------- MODULE MCPipeline -----------------------------
(***************************************************************************)
(* Two devices, and for every check of the pipeline a pill that fails it.  *)
(* A torn pill has the capsule of a good one and other active bytes.       *)
(***************************************************************************)
EXTENDS Pipeline, TLC

CONSTANTS d1, d2, d3, d4

Good ==
  [digest |-> d1, wellformed |-> TRUE, expires_ms |-> 2, issuer |-> TRUE,
   active_matches |-> TRUE, signed |-> TRUE, supported |-> TRUE, secret |-> "s_lamp",
   device_id |-> "lamp", amino |-> "TOGGLE", payload |-> "none"]

Torn == [Good EXCEPT !.active_matches = FALSE]
Brief == [Good EXCEPT !.digest = d2, !.expires_ms = 1, !.secret = "s_fan",
                      !.device_id = "fan", !.amino = "SET_SPEED", !.payload = "int"]
Forged == [Good EXCEPT !.digest = d3, !.signed = FALSE]
Foreign == [Good EXCEPT !.digest = d3, !.issuer = FALSE]
Unformed == [Good EXCEPT !.digest = d3, !.wellformed = FALSE]
Misdirected == [Good EXCEPT !.digest = d4, !.device_id = "fan"]
Unexpressed == [Good EXCEPT !.digest = d4, !.amino = "LOCK"]
Unknown == [Good EXCEPT !.digest = d4, !.amino = "DANCE"]
Mistyped == [Good EXCEPT !.digest = d4, !.payload = "int"]
ChaCha == [Good EXCEPT !.digest = d4, !.supported = FALSE]
Elsewhere == [Good EXCEPT !.digest = d4, !.secret = "s_door", !.device_id = "door"]

MCPills ==
  {Good, Torn, Brief, Forged, Foreign, Unformed, Misdirected, Unexpressed,
   Unknown, Mistyped, ChaCha, Elsewhere}

LivePills == {Good, Torn, Brief, Misdirected, Elsewhere}

Lamp == [mqtt_client_id |-> "lamp", secret |-> "s_lamp", template_id |-> 1]
Fan == [mqtt_client_id |-> "fan", secret |-> "s_fan", template_id |-> 2]

\* Both devices known; then the fan's template is gone.
MCMembranes ==
  {[ribosomes |-> <<Lamp, Fan>>,
    templates |-> (1 :> {"TOGGLE", "ON"} @@ 2 :> {"SET_SPEED"})],
   [ribosomes |-> <<Fan, Lamp>>, templates |-> (1 :> {"TOGGLE"})]}
=============================================================================
