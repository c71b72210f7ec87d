---------------------------- MODULE ReplayWindow ----------------------------
(***************************************************************************)
(* What the capsule cache of the Stomach promises, without the ring: the   *)
(* digests admitted last, oldest first, at most Size of them.  A digest is *)
(* admitted exactly when it is not among them.                             *)
(***************************************************************************)
EXTENDS Naturals, Sequences

CONSTANTS Digests, Size

VARIABLE window

Remembered == {window[i] : i \in 1 .. Len(window)}

Init == window = << >>

\* The oldest digest leaves when the window is full.
Admit(d) ==
  /\ d \notin Remembered
  /\ window' = IF Len(window) < Size THEN Append(window, d)
                                     ELSE Append(Tail(window), d)

Forget == window' = << >>

Next == Forget \/ \E d \in Digests : Admit(d)

Spec == Init /\ [][Next]_window
=============================================================================
