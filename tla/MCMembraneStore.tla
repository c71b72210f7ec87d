--------------------------- MODULE MCMembraneStore ---------------------------
(***************************************************************************)
(* Two devices, one default template, room for two more; ids of a form     *)
(* past the 16 bits; template forms with a doubled, an unknown or no amino *)
(* acid.                                                                   *)
(***************************************************************************)
EXTENDS MembraneStore

CONSTANTS c1, c2, c3, s0, s1, a1, a2, alien

MCDefaults == <<[id |-> 1, aminos |-> <<a1>>]>>

MCTemplateForms ==
  {[id |-> 0, aminos |-> <<a1>>], [id |-> 1, aminos |-> <<a2, a1>>],
   [id |-> 2, aminos |-> <<a2>>], [id |-> 2, aminos |-> <<a1, a1>>],
   [id |-> 2, aminos |-> <<alien>>], [id |-> 3, aminos |-> <<a1>>],
   [id |-> 3, aminos |-> << >>]}
=============================================================================
