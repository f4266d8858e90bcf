--------------------------------- MODULE Slice ---------------------------------
(***************************************************************************)
(* The equation of symex_target_equation.cpp as a list of steps, and what  *)
(* slice.cpp removes from it.  An assignment is its symbol and those it is *)
(* computed from; an assumption and an assertion are the worlds where they *)
(* hold and the symbols they name.  Left out: --generate-testcase.         *)
(***************************************************************************)
EXTENDS Integers, Sequences, SequencesExt

Assignment(lhs, syms) == [type |-> "ASSIGNMENT", lhs |-> lhs, syms |-> syms, ignore |-> FALSE]
Assumption(den, syms) == [type |-> "ASSUME", den |-> den, syms |-> syms, ignore |-> FALSE]
Assertion(den, syms, msg) ==
  [type |-> "ASSERT", den |-> den, syms |-> syms, msg |-> msg, ignore |-> FALSE]

Asserts(steps) == {n \in DOMAIN steps : steps[n].type = "ASSERT"}

(* claim_slicer: every assertion but one.                                  *)
claim_slicer(steps, claim_to_keep) ==
  [n \in DOMAIN steps |->
     [steps[n] EXCEPT !.ignore = IF n \in Asserts(steps) THEN n # claim_to_keep ELSE @]]

run_on_assignment_RhsForgotten(step, depends) == depends \ {step.lhs}

(* What the equation depends on before an assignment that is kept.         *)
run_on_assignment(step, depends) == (depends \cup step.syms) \ {step.lhs}

(* symex_slicet: backwards, an assignment goes unless something later      *)
(* depends on it.  Without --slice-assumes all assumptions stay.  The      *)
(* symbols of an assertion that is ignored already count too.              *)
symex_slice(steps) ==
  LET run_on_step(step, after) ==
        IF step.type # "ASSIGNMENT"
          THEN [depends |-> after.depends \cup step.syms, steps |-> <<step>> \o after.steps]
        ELSE IF step.lhs \notin after.depends
          THEN [after EXCEPT !.steps = <<[step EXCEPT !.ignore = TRUE]>> \o @]
        ELSE [depends |-> run_on_assignment(step, after.depends), steps |-> <<step>> \o after.steps]
  IN  FoldRight(run_on_step, steps, [depends |-> {}, steps |-> <<>>]).steps

(* simple_slice, --no-slice: whatever comes after the last assertion.      *)
simple_slice(steps) ==
  [n \in DOMAIN steps |->
     [steps[n] EXCEPT
        !.ignore = @ \/ (Asserts(steps) # {} /\ \A m \in Asserts(steps) : m < n)]]
=============================================================================
