--------------------------- MODULE GuardianIntake ---------------------------
(***************************************************************************)
(* G2G reception and the Stomach of one Guardian.  A pill that Reassembly  *)
(* hands on reaches process_action_pill in the same call of the receive    *)
(* task, and the Stomach looks the same digest up in its own cache: two    *)
(* replay filters in a row, of different sizes.                            *)
(***************************************************************************)
EXTENDS Reassembly, CpCache

(***************************************************************************)
(* The sizes of the two caches: 32 and 16 in the firmware.                 *)
(***************************************************************************)
ASSUME CachesAssumption == CacheSize <= SeenSize \div 2

VARIABLE skipped   \* history: seen_or_add_cp failed since the last restart

intakeVars == <<rx_slots, seen_cache, handed, cache, admitted, skipped>>

IntakeInit == Init /\ CacheInit /\ skipped = FALSE

(***************************************************************************)
(* What the Stomach does with a pill that was just handed on: it computes  *)
(* the digest, which may fail, and asks its cache.                         *)
(***************************************************************************)
seen_or_add_cp(id) ==
  \/ seen_or_add(id) /\ UNCHANGED skipped
  \/ HashMayFail /\ skipped' = TRUE /\ UNCHANGED cacheVars

on_fragment_received(f) ==
  /\ handle_received_fragment(f)
  /\ IF handed' = handed THEN UNCHANGED <<cacheVars, skipped>> ELSE seen_or_add_cp(f.id)

IntakeRestart ==
  /\ Restart
  /\ clear
  /\ skipped' = FALSE

IntakeNext == IntakeRestart \/ \E f \in Arriving : on_fragment_received(f)

IntakeSpec == IntakeInit /\ [][IntakeNext]_intakeVars

-----------------------------------------------------------------------------
IntakeTypeOK == TypeOK /\ CacheTypeOK /\ skipped \in BOOLEAN

(***************************************************************************)
(* As long as no digest computation fails, every pill handed on by G2G is  *)
(* admitted by the Stomach: the capsule cache of process_action_pill never *)
(* refuses a pill that came by radio, because the G2G cache remembers each *)
(* of them at least as long.  It takes SeenSize >= 2 * CacheSize, and the  *)
(* firmware has just that.                                                 *)
(***************************************************************************)
EveryHandedAdmitted == ~skipped => admitted = handed
=============================================================================
