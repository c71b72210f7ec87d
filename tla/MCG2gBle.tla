------------------------------ MODULE MCG2gBle ------------------------------
(***************************************************************************)
(* Two connection handles; three small sets of limits: two peers, one      *)
(* after the other; one peer, a second attempt and a failing call; a reset *)
(* of the host and a failing call.                                         *)
(***************************************************************************)
EXTENDS G2gBle

CONSTANTS p1, p2

MCLimits ==
  { [peers |-> {p1, p2}, retries |-> 1, resets |-> 0, fails |-> 0],
    [peers |-> {p1}, retries |-> 2, resets |-> 0, fails |-> 1],
    [peers |-> {p1}, retries |-> 1, resets |-> 1, fails |-> 1] }
=============================================================================
