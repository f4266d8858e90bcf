---------------------------- MODULE VerdictSpec ----------------------------
(***************************************************************************)
(* What every driver of ESBMC promises its user: at most one verdict on    *)
(* the program, and a verdict that is a claim (FAILED or SUCCESSFUL) is    *)
(* true of the program.  UNKNOWN claims nothing; a driver that dies leaves *)
(* the verdict at "NONE".                                                  *)
(*                                                                         *)
(* bug is a rigid variable that stands for the program under test: 0 when  *)
(* no execution violates a property, else the least unwinding bound at     *)
(* which some violation is reachable.                                      *)
(***************************************************************************)
EXTENDS Naturals

VARIABLES bug, verdict

Verdicts == {"FAILED", "SUCCESSFUL", "UNKNOWN"}

Init ==
  /\ bug \in Nat
  /\ verdict = "NONE"

(* The one step: a verdict that the program supports.                      *)
Decide ==
  /\ verdict = "NONE"
  /\ verdict' \in Verdicts
  /\ verdict' = "FAILED" => bug # 0
  /\ verdict' = "SUCCESSFUL" => bug = 0
  /\ UNCHANGED bug

Spec == Init /\ [][Decide]_<<bug, verdict>>
=============================================================================
