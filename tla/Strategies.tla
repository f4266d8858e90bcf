----------------------------- MODULE Strategies -----------------------------
(***************************************************************************)
(* The sequential drivers of esbmc_parseoptions.cpp (--k-induction,        *)
(* --incremental-bmc, --falsification, --termination): one process that,   *)
(* for growing k, runs the steps of its strategy in order on one shared    *)
(* option table.  Every step rewrites the table before its BMC run, and    *)
(* the run's behaviour depends on what the table then holds, so a flag     *)
(* left over from the previous step changes what is checked.               *)
(*                                                                         *)
(* One action is one step: the early returns, the option writes, do_bmc    *)
(* (with the verdict line report_result prints) and the switch on the      *)
(* result.  A BMC run is an oracle over the program's bug (least k at      *)
(* which a violation is reachable), depth (least k at which every loop is  *)
(* fully unwound) and spawn (least k at which symbolic execution meets a   *)
(* thread creation or a recursive call); 0 stands for "never".             *)
(***************************************************************************)
EXTENDS Integers, Sequences

CONSTANTS
  MaxKStep,         \* --max-k-step
  MaxIncrement,     \* the values of --k-step to consider are 1 .. MaxIncrement
  MaxInductive,     \* --max-inductive-step; its default, -1, is beyond any k
  HiddenSpawn,      \* may the inductive step reach a spawn the base case has not?
  MultiProperty     \* --multi-property

ASSUME ParamAssumption ==
  /\ MaxKStep \in Nat \ {0}
  /\ MaxIncrement \in Nat \ {0}
  /\ MaxInductive \in Nat
  /\ HiddenSpawn \in BOOLEAN
  /\ MultiProperty \in BOOLEAN

Strategy == {"k-induction", "incremental-bmc", "falsification", "termination"}

VARIABLES
  strategy, k_step_inc, user_no_assertions,   \* the command line, fixed
  bug, depth, spawn,                          \* the program, fixed
  opts,                                       \* the shared option table
  k_step, pc, verdict

rigid == <<strategy, k_step_inc, user_no_assertions, bug, depth, spawn>>
vars == <<rigid, opts, k_step, pc, verdict>>

Flags == {"base-case", "forward-condition", "inductive-step",
          "no-unwinding-assertions", "partial-loops", "no-assertions",
          "disable-inductive-step"}

TypeOK ==
  /\ strategy \in Strategy
  /\ k_step_inc \in 1 .. MaxIncrement
  /\ user_no_assertions \in BOOLEAN
  /\ bug \in 0 .. MaxKStep + 1
  /\ depth \in 0 .. MaxKStep + 1
  /\ spawn \in 0 .. MaxKStep + 1
  /\ opts \in [Flags -> BOOLEAN]
  /\ k_step \in Nat
  /\ pc \in {"base", "forward", "inductive", "stopped", "aborted"}
  /\ verdict \in {"NONE", "FAILED", "SUCCESSFUL", "UNKNOWN"}

(* The body of each strategy's loop, as "which step follows".              *)
FirstStep == IF strategy = "termination" THEN "forward" ELSE "base"

NextStep_Mutant(step) ==
  CASE step = "base" /\ strategy # "falsification" -> "forward"
    [] step = "forward" /\ strategy = "k-induction" -> "inductive"
    [] OTHER -> "none"

NextStep(step) ==
  CASE step = "base" /\ strategy # "falsification" -> "forward"
    [] step = "forward" /\ strategy = "k-induction" -> "inductive"
    [] OTHER -> FirstStep

(* A violation reachable at some k is reachable once loops are unwound.    *)
Init ==
  /\ strategy \in Strategy
  /\ k_step_inc \in 1 .. MaxIncrement
  /\ user_no_assertions \in BOOLEAN
  /\ bug \in 0 .. MaxKStep + 1
  /\ depth \in 0 .. MaxKStep + 1
  /\ spawn \in 0 .. MaxKStep + 1
  /\ bug # 0 /\ depth # 0 => bug <= depth
  /\ opts = [f \in Flags |-> f = "no-assertions" /\ user_no_assertions]
  /\ k_step = 1
  /\ pc = FirstStep
  /\ verdict = "NONE"

-----------------------------------------------------------------------------
(* One BMC run *)

Reached(threshold) == threshold # 0 /\ threshold <= k_step

(* The answers a run may give under the option table o: a violated         *)
(* assertion, or a violated unwinding assertion, makes it satisfiable.     *)
(* The inductive step havocs the loop variables; when it proves anything,  *)
(* the claim at k_step is true unless it met a spawn, which it does not    *)
(* support.                                                                *)
Violation == bug # 0 /\ ~user_no_assertions

BoundedSat(o) ==
  \/ ~o["no-assertions"] /\ Reached(bug)
  \/ ~o["no-unwinding-assertions"] /\ ~o["partial-loops"] /\ ~Reached(depth)

Answers(o, meetsSpawn) ==
  IF o["inductive-step"]
    THEN {"SAT"} \cup (IF meetsSpawn \/ ~Violation \/ Reached(bug) THEN {"UNSAT"} ELSE {})
    ELSE {IF BoundedSat(o) THEN "SAT" ELSE "UNSAT"}

MeetsSpawn(o) ==
  IF Reached(spawn) THEN {TRUE}
  ELSE IF o["inductive-step"] /\ HiddenSpawn /\ spawn # 0 THEN BOOLEAN
  ELSE {FALSE}

(* intrinsic_spawn_thread and get_unwind_recursion disable the inductive   *)
(* step from inside the run.                                               *)
AfterRun(o, meetsSpawn) ==
  [o EXCEPT !["disable-inductive-step"] =
     @ \/ (meetsSpawn /\ (strategy = "k-induction" \/ o["inductive-step"]))]

(* The verdict line of bmct::report_result, if it prints one.              *)
ReportResult(o, answer) ==
  CASE answer = "UNSAT" /\ o["inductive-step"] /\ strategy = "termination" -> "FAILED"
    [] answer = "UNSAT" /\ (~o["base-case"] \/ MultiProperty) -> "SUCCESSFUL"
    [] answer = "SAT" /\ ~o["inductive-step"] /\ ~o["forward-condition"] -> "FAILED"
    [] OTHER -> verdict

(* do_bmc aborts the process when the solver fails.                        *)
SolverFails(o) ==
  /\ opts' = o
  /\ pc' = "aborted"
  /\ UNCHANGED <<rigid, k_step, verdict>>

(* The end of a strategy's loop body: the next step, or the next k, or     *)
(* giving up.  line is the verdict line this step has printed so far.      *)
Continue(step, line) ==
  IF NextStep(step) # FirstStep
    THEN /\ pc' = NextStep(step)
         /\ verdict' = line
         /\ UNCHANGED k_step
    ELSE /\ k_step' = k_step + k_step_inc
         /\ IF k_step' <= MaxKStep
              THEN pc' = FirstStep /\ verdict' = line
              ELSE pc' = "stopped" /\ verdict' = "UNKNOWN"

-----------------------------------------------------------------------------
(* The steps *)

BaseCaseOptions_Mutant ==
  [opts EXCEPT !["base-case"] = TRUE,
               !["forward-condition"] = FALSE,
               !["inductive-step"] = FALSE,
               !["partial-loops"] = FALSE]

BaseCaseOptions ==
  [opts EXCEPT !["base-case"] = TRUE,
               !["forward-condition"] = FALSE,
               !["inductive-step"] = FALSE,
               !["no-unwinding-assertions"] = TRUE,
               !["partial-loops"] = FALSE]

do_base_case ==
  /\ pc = "base"
  /\ \/ SolverFails(BaseCaseOptions)
     \/ \E m \in MeetsSpawn(BaseCaseOptions), a \in Answers(BaseCaseOptions, FALSE) :
          /\ opts' = AfterRun(BaseCaseOptions, m)
          /\ IF a = "SAT"
               THEN /\ pc' = "stopped"
                    /\ verdict' = ReportResult(BaseCaseOptions, a)
                    /\ UNCHANGED k_step
               ELSE Continue("base", ReportResult(BaseCaseOptions, a))
          /\ UNCHANGED rigid

ForwardOptions ==
  [opts EXCEPT !["base-case"] = FALSE,
               !["forward-condition"] = TRUE,
               !["inductive-step"] = FALSE,
               !["no-unwinding-assertions"] = FALSE,
               !["partial-loops"] = FALSE,
               !["no-assertions"] = TRUE]

RestoreAssertions_Mutant(o) == o

(* Assertions are off for the run only.                                    *)
RestoreAssertions(o) == [o EXCEPT !["no-assertions"] = opts["no-assertions"]]

do_forward_condition ==
  /\ pc = "forward"
  /\ \/ SolverFails(ForwardOptions)
     \/ \E m \in MeetsSpawn(ForwardOptions), a \in Answers(ForwardOptions, FALSE) :
          /\ opts' = RestoreAssertions(AfterRun(ForwardOptions, m))
          /\ IF a = "UNSAT"
               THEN /\ pc' = "stopped"
                    /\ verdict' = ReportResult(ForwardOptions, a)
                    /\ UNCHANGED k_step
               ELSE Continue("forward", ReportResult(ForwardOptions, a))
          /\ UNCHANGED rigid

InductiveOptions ==
  [opts EXCEPT !["base-case"] = FALSE,
               !["forward-condition"] = FALSE,
               !["inductive-step"] = TRUE,
               !["no-unwinding-assertions"] = TRUE,
               !["partial-loops"] = TRUE]

SkipInductiveStep_Mutant == k_step = 1 \/ MaxInductive < k_step

SkipInductiveStep ==
  \/ k_step = 1
  \/ opts["disable-inductive-step"]
  \/ MaxInductive < k_step

do_inductive_step ==
  /\ pc = "inductive"
  /\ \/ /\ SkipInductiveStep
        /\ Continue("inductive", verdict)
        /\ UNCHANGED <<rigid, opts>>
     \/ ~SkipInductiveStep /\ SolverFails(InductiveOptions)
     \/ /\ ~SkipInductiveStep
        /\ \E m \in MeetsSpawn(InductiveOptions) :
             \E a \in Answers(InductiveOptions, m) :
               /\ opts' = AfterRun(InductiveOptions, m)
               /\ IF a = "UNSAT"
                    THEN /\ pc' = "stopped"
                         /\ verdict' = ReportResult(InductiveOptions, a)
                         /\ UNCHANGED k_step
                    ELSE Continue("inductive", ReportResult(InductiveOptions, a))
        /\ UNCHANGED rigid

Next == do_base_case \/ do_forward_condition \/ do_inductive_step

Spec == Init /\ [][Next]_vars

-----------------------------------------------------------------------------
(* The inductive invariant: what is known when a step is about to run.     *)

BaseCaseRefuted == ~(Violation /\ Reached(bug))

StepInv ==
  /\ pc \in {"base", "forward", "inductive"} => verdict = "NONE"
  /\ pc # "aborted" => opts["no-assertions"] = user_no_assertions
  /\ pc = "base" => strategy # "termination"
  /\ pc = "forward" /\ strategy # "termination" => BaseCaseRefuted
  /\ pc = "inductive" =>
       /\ strategy = "k-induction"
       /\ BaseCaseRefuted
       /\ Reached(spawn) => opts["disable-inductive-step"]
  /\ pc = "forward" /\ strategy = "k-induction" /\ Reached(spawn) =>
       opts["disable-inductive-step"]
  /\ bug # 0 /\ depth # 0 => bug <= depth

-----------------------------------------------------------------------------
(* Properties *)

(* What the verdict is about: non-termination (a loop no k unwinds) for    *)
(* --termination, else a violation with the assertions the user kept.      *)
Defect ==
  IF strategy = "termination"
    THEN IF depth = 0 THEN 1 ELSE 0
    ELSE IF user_no_assertions THEN 0 ELSE bug

(* The verdict lines keep the promise of VerdictSpec: at most one of them, *)
(* and no claim that is false of the program, although the steps share one *)
(* option table (lines 1257-1262, 1296-1318, 1359-1364).                   *)
Abstract == INSTANCE VerdictSpec WITH bug <- Defect
VerdictRefinement == Abstract!Spec

(* UNKNOWN is said only when no step the strategy ran could have decided:  *)
(* neither a violation nor a complete unwinding lies within the last k it  *)
(* tried (k_step has moved one increment past it).                         *)
UnknownIsHonest ==
  verdict = "UNKNOWN" =>
    LET last == k_step - k_step_inc
    IN  /\ strategy # "termination" => ~(Violation /\ bug <= last)
        /\ strategy # "falsification" => ~(depth # 0 /\ depth <= last)

(* No proof by the inductive step is presented once the run that produced  *)
(* it has disabled the inductive step ("k-induction does not support       *)
(* concurrency yet. Disabling inductive step", builtin_functions.cpp:594). *)
DisabledStepProvesNothing ==
  verdict = "SUCCESSFUL" /\ opts["inductive-step"] => ~opts["disable-inductive-step"]
=============================================================================
