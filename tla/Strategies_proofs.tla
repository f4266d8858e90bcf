-------------------------- MODULE Strategies_proofs --------------------------
(***************************************************************************)
(* Proofs about Strategies, for every max-k-step, k-step increment and     *)
(* max-inductive-step.                                                     *)
(***************************************************************************)
EXTENDS Strategies, TLAPS

(* The constants' values under which the verdict lines are claims about    *)
(* the whole program.                                                      *)
Supported == ~HiddenSpawn /\ ~MultiProperty

(* The names of the options are different.                                 *)
LEMMA FlagsDistinct ==
  /\ "base-case" \in Flags /\ "forward-condition" \in Flags /\ "inductive-step" \in Flags
  /\ "no-unwinding-assertions" \in Flags /\ "partial-loops" \in Flags
  /\ "no-assertions" \in Flags /\ "disable-inductive-step" \in Flags
  BY DEF Flags

(* What each step's option table holds when its BMC run starts.            *)
LEMMA StepOptions ==
  ASSUME opts \in [Flags -> BOOLEAN]
  PROVE  /\ BaseCaseOptions \in [Flags -> BOOLEAN]
         /\ BaseCaseOptions["base-case"] /\ ~BaseCaseOptions["inductive-step"]
         /\ ~BaseCaseOptions["forward-condition"]
         /\ BaseCaseOptions["no-unwinding-assertions"]
         /\ BaseCaseOptions["no-assertions"] = opts["no-assertions"]
         /\ ForwardOptions \in [Flags -> BOOLEAN]
         /\ ~ForwardOptions["base-case"] /\ ~ForwardOptions["inductive-step"]
         /\ ForwardOptions["forward-condition"]
         /\ ~ForwardOptions["no-unwinding-assertions"] /\ ~ForwardOptions["partial-loops"]
         /\ ForwardOptions["disable-inductive-step"] = opts["disable-inductive-step"]
         /\ InductiveOptions \in [Flags -> BOOLEAN]
         /\ ~InductiveOptions["base-case"] /\ InductiveOptions["inductive-step"]
         /\ InductiveOptions["no-assertions"] = opts["no-assertions"]
  BY FlagsDistinct DEF BaseCaseOptions, ForwardOptions, InductiveOptions

(* What a run leaves of the options.                                       *)
LEMMA AfterRunOptions ==
  ASSUME NEW o \in [Flags -> BOOLEAN], NEW m \in BOOLEAN
  PROVE  /\ AfterRun(o, m) \in [Flags -> BOOLEAN]
         /\ AfterRun(o, m)["no-assertions"] = o["no-assertions"]
         /\ o["disable-inductive-step"] => AfterRun(o, m)["disable-inductive-step"]
         /\ m /\ strategy = "k-induction" => AfterRun(o, m)["disable-inductive-step"]
  BY FlagsDistinct DEF AfterRun

(* Leaving a step without an answer: the next step of the strategy on the  *)
(* same k, the first step on the next k, or UNKNOWN.                       *)
LEMMA ContinueCases ==
  ASSUME TypeOK, NEW step \in {"base", "forward", "inductive"}, NEW line, Continue(step, line)
  PROVE  \/ /\ NextStep(step) # FirstStep /\ pc' = NextStep(step)
            /\ verdict' = line /\ k_step' = k_step
         \/ /\ k_step' \in Nat /\ pc' = FirstStep /\ verdict' = line
            /\ NextStep(step) = FirstStep
         \/ /\ k_step' \in Nat /\ pc' = "stopped" /\ verdict' = "UNKNOWN"
  BY ParamAssumption DEF Continue, TypeOK

(* Types and step invariant hold at the start.                             *)
LEMMA InitInv == Init => TypeOK /\ StepInv
<1> SUFFICES ASSUME Init PROVE TypeOK /\ StepInv
  OBVIOUS
<1>1. TypeOK
  BY DEF Init, TypeOK, Flags, FirstStep
<1>2. opts["no-assertions"] = user_no_assertions
  BY FlagsDistinct DEF Init
<1>3. StepInv
  BY <1>2 DEF Init, StepInv, FirstStep
<1>4. QED BY <1>1, <1>3

(* A step keeps the invariant and changes the verdict as VerdictSpec       *)
(* allows.                                                                 *)
LEMMA BaseStep ==
  ASSUME Supported, TypeOK, StepInv, do_base_case
  PROVE  TypeOK' /\ StepInv' /\ (UNCHANGED <<Defect, verdict>> \/ Abstract!Decide)
<1> DEFINE o == BaseCaseOptions
<1>0. /\ UNCHANGED rigid
      /\ verdict = "NONE" /\ strategy # "termination"
      /\ opts \in [Flags -> BOOLEAN] /\ opts["no-assertions"] = user_no_assertions
  BY DEF do_base_case, SolverFails, StepInv, TypeOK
<1>1. CASE SolverFails(o)
  <2>1. TypeOK' BY <1>0, <1>1, StepOptions DEF SolverFails, TypeOK, rigid
  <2>2. StepInv' BY <1>0, <1>1 DEF SolverFails, StepInv, rigid
  <2>3. UNCHANGED <<Defect, verdict>> BY <1>1 DEF SolverFails, Defect, rigid
  <2>4. QED BY <2>1, <2>2, <2>3
<1>2. ASSUME NEW m \in MeetsSpawn(o), NEW a \in Answers(o, FALSE),
             opts' = AfterRun(o, m), a = "SAT",
             pc' = "stopped", verdict' = ReportResult(o, a), UNCHANGED k_step
      PROVE  TypeOK' /\ StepInv' /\ (UNCHANGED <<Defect, verdict>> \/ Abstract!Decide)
  <2>1. m \in BOOLEAN BY DEF MeetsSpawn
  <2>2. /\ opts' \in [Flags -> BOOLEAN]
        /\ opts'["no-assertions"] = user_no_assertions
    BY <1>0, <1>2, <2>1, StepOptions, AfterRunOptions
  <2>3. verdict' = "FAILED"
    BY <1>0, <1>2, StepOptions DEF ReportResult
  <2>4. ~user_no_assertions /\ bug # 0
    BY <1>0, <1>2, StepOptions DEF Answers, BoundedSat, Reached
  <2>5. TypeOK' BY <1>0, <1>2, <2>2, <2>3 DEF TypeOK, rigid
  <2>6. StepInv' BY <1>0, <1>2, <2>2 DEF StepInv, rigid
  <2>7. Abstract!Decide
    BY <1>0, <2>3, <2>4 DEF Abstract!Decide, Abstract!Verdicts, Defect, rigid
  <2>8. QED BY <2>5, <2>6, <2>7
<1>3. ASSUME NEW m \in MeetsSpawn(o), NEW a \in Answers(o, FALSE),
             opts' = AfterRun(o, m), a # "SAT", Continue("base", ReportResult(o, a))
      PROVE  TypeOK' /\ StepInv' /\ (UNCHANGED <<Defect, verdict>> \/ Abstract!Decide)
  <2>1. m \in BOOLEAN /\ (Reached(spawn) => m) BY DEF MeetsSpawn
  <2>2. /\ opts' \in [Flags -> BOOLEAN]
        /\ opts'["no-assertions"] = user_no_assertions
        /\ Reached(spawn) /\ strategy = "k-induction" => opts'["disable-inductive-step"]
    BY <1>0, <1>3, <2>1, StepOptions, AfterRunOptions
  <2>3. ReportResult(o, a) = "NONE"
    BY <1>0, <1>3, StepOptions DEF ReportResult, Supported
  <2>4. BaseCaseRefuted
    BY <1>0, <1>3, StepOptions DEF Answers, BoundedSat, BaseCaseRefuted, Violation
  <2>5. \/ /\ pc' = "forward" /\ verdict' = "NONE" /\ k_step' = k_step
        \/ /\ k_step' \in Nat /\ pc' = "base" /\ verdict' = "NONE"
        \/ /\ k_step' \in Nat /\ pc' = "stopped" /\ verdict' = "UNKNOWN"
    BY <1>0, <1>3, <2>3, ContinueCases DEF NextStep, FirstStep
  <2>6. TypeOK' BY <1>0, <2>2, <2>5 DEF TypeOK, rigid
  <2>7. StepInv'
    BY <1>0, <2>2, <2>4, <2>5 DEF StepInv, rigid, BaseCaseRefuted, Violation, Reached
  <2>8. UNCHANGED <<Defect, verdict>> \/ Abstract!Decide
    BY <1>0, <2>5 DEF Abstract!Decide, Abstract!Verdicts, Defect, rigid
  <2>9. QED BY <2>6, <2>7, <2>8
<1>4. QED
  <2>1. CASE ~SolverFails(o)
    <3>1. PICK m \in MeetsSpawn(o), a \in Answers(o, FALSE) :
            /\ opts' = AfterRun(o, m)
            /\ IF a = "SAT"
                 THEN pc' = "stopped" /\ verdict' = ReportResult(o, a) /\ UNCHANGED k_step
                 ELSE Continue("base", ReportResult(o, a))
      BY <2>1 DEF do_base_case
    <3>2. QED BY <3>1, <1>2, <1>3
  <2>2. QED BY <1>1, <2>1

(* The step to the forward condition preserves them.                       *)
LEMMA ForwardStep ==
  ASSUME Supported, TypeOK, StepInv, do_forward_condition
  PROVE  TypeOK' /\ StepInv' /\ (UNCHANGED <<Defect, verdict>> \/ Abstract!Decide)
<1> DEFINE o == ForwardOptions
<1>0. /\ UNCHANGED rigid
      /\ verdict = "NONE" /\ pc = "forward"
      /\ opts \in [Flags -> BOOLEAN] /\ opts["no-assertions"] = user_no_assertions
      /\ strategy # "termination" => BaseCaseRefuted
  BY DEF do_forward_condition, SolverFails, StepInv, TypeOK
<1>a. ASSUME NEW m \in MeetsSpawn(o), opts' = RestoreAssertions(AfterRun(o, m))
      PROVE  /\ opts' \in [Flags -> BOOLEAN]
             /\ opts'["no-assertions"] = user_no_assertions
             /\ opts["disable-inductive-step"] => opts'["disable-inductive-step"]
             /\ Reached(spawn) /\ strategy = "k-induction" => opts'["disable-inductive-step"]
  <2>1. m \in BOOLEAN /\ (Reached(spawn) => m) BY DEF MeetsSpawn
  <2>2. QED BY <1>0, <1>a, <2>1, StepOptions, AfterRunOptions, FlagsDistinct DEF RestoreAssertions
<1>1. CASE SolverFails(o)
  <2>1. TypeOK' BY <1>0, <1>1, StepOptions DEF SolverFails, TypeOK, rigid
  <2>2. StepInv' BY <1>0, <1>1 DEF SolverFails, StepInv, rigid
  <2>3. UNCHANGED <<Defect, verdict>> BY <1>1 DEF SolverFails, Defect, rigid
  <2>4. QED BY <2>1, <2>2, <2>3
<1>2. ASSUME NEW m \in MeetsSpawn(o), NEW a \in Answers(o, FALSE),
             opts' = RestoreAssertions(AfterRun(o, m)), a = "UNSAT",
             pc' = "stopped", verdict' = ReportResult(o, a), UNCHANGED k_step
      PROVE  TypeOK' /\ StepInv' /\ (UNCHANGED <<Defect, verdict>> \/ Abstract!Decide)
  <2>1. verdict' = "SUCCESSFUL"
    BY <1>0, <1>2, StepOptions DEF ReportResult
  <2>2. Reached(depth)
    BY <1>0, <1>2, StepOptions DEF Answers, BoundedSat
  <2>3. Defect = 0
    BY <1>0, <2>2 DEF Defect, BaseCaseRefuted, Violation, Reached, StepInv, TypeOK
  <2>4. TypeOK' BY <1>0, <1>2, <1>a, <2>1 DEF TypeOK, rigid
  <2>5. StepInv' BY <1>0, <1>2, <1>a DEF StepInv, rigid
  <2>6. Abstract!Decide
    BY <1>0, <2>1, <2>3 DEF Abstract!Decide, Abstract!Verdicts, Defect, rigid
  <2>7. QED BY <2>4, <2>5, <2>6
<1>3. ASSUME NEW m \in MeetsSpawn(o), NEW a \in Answers(o, FALSE),
             opts' = RestoreAssertions(AfterRun(o, m)), a # "UNSAT",
             Continue("forward", ReportResult(o, a))
      PROVE  TypeOK' /\ StepInv' /\ (UNCHANGED <<Defect, verdict>> \/ Abstract!Decide)
  <2>1. ReportResult(o, a) = "NONE"
    BY <1>0, <1>3, StepOptions DEF ReportResult, Answers
  <2>2. \/ /\ pc' = "inductive" /\ strategy = "k-induction" /\ verdict' = "NONE" /\ k_step' = k_step
        \/ /\ k_step' \in Nat /\ pc' = FirstStep /\ verdict' = "NONE"
        \/ /\ k_step' \in Nat /\ pc' = "stopped" /\ verdict' = "UNKNOWN"
    BY <1>0, <1>3, <2>1, ContinueCases DEF NextStep, FirstStep
  <2>3. TypeOK' BY <1>0, <1>3, <1>a, <2>2 DEF TypeOK, rigid, FirstStep
  <2>4. StepInv'
    BY <1>0, <1>3, <1>a, <2>2
    DEF StepInv, rigid, BaseCaseRefuted, Violation, Reached, FirstStep
  <2>5. UNCHANGED <<Defect, verdict>> \/ Abstract!Decide
    BY <1>0, <2>2 DEF Abstract!Decide, Abstract!Verdicts, Defect, rigid
  <2>6. QED BY <2>3, <2>4, <2>5
<1>4. QED
  <2>1. CASE ~SolverFails(o)
    <3>1. PICK m \in MeetsSpawn(o), a \in Answers(o, FALSE) :
            /\ opts' = RestoreAssertions(AfterRun(o, m))
            /\ IF a = "UNSAT"
                 THEN pc' = "stopped" /\ verdict' = ReportResult(o, a) /\ UNCHANGED k_step
                 ELSE Continue("forward", ReportResult(o, a))
      BY <2>1 DEF do_forward_condition
    <3>2. QED BY <3>1, <1>2, <1>3
  <2>2. QED BY <1>1, <2>1

(* The step to the inductive step preserves them.                          *)
LEMMA InductiveStep ==
  ASSUME Supported, TypeOK, StepInv, do_inductive_step
  PROVE  TypeOK' /\ StepInv' /\ (UNCHANGED <<Defect, verdict>> \/ Abstract!Decide)
<1> DEFINE o == InductiveOptions
<1>0. /\ UNCHANGED rigid
      /\ verdict = "NONE" /\ strategy = "k-induction" /\ BaseCaseRefuted
      /\ Reached(spawn) => opts["disable-inductive-step"]
      /\ opts \in [Flags -> BOOLEAN] /\ opts["no-assertions"] = user_no_assertions
  BY DEF do_inductive_step, SolverFails, StepInv, TypeOK
<1>a. ASSUME NEW line, line = "NONE", Continue("inductive", line),
             opts' \in [Flags -> BOOLEAN], opts'["no-assertions"] = user_no_assertions
      PROVE  TypeOK' /\ StepInv' /\ (UNCHANGED <<Defect, verdict>> \/ Abstract!Decide)
  <2>1. \/ /\ k_step' \in Nat /\ pc' = "base" /\ verdict' = "NONE"
        \/ /\ k_step' \in Nat /\ pc' = "stopped" /\ verdict' = "UNKNOWN"
    BY <1>0, <1>a, ContinueCases DEF NextStep, FirstStep
  <2>2. TypeOK' BY <1>0, <1>a, <2>1 DEF TypeOK, rigid
  <2>3. StepInv' BY <1>0, <1>a, <2>1 DEF StepInv, rigid
  <2>4. UNCHANGED <<Defect, verdict>> \/ Abstract!Decide
    BY <1>0, <2>1 DEF Abstract!Decide, Abstract!Verdicts, Defect, rigid
  <2>5. QED BY <2>2, <2>3, <2>4
<1>1. CASE Continue("inductive", verdict) /\ UNCHANGED opts
  BY <1>0, <1>a, <1>1
<1>2. CASE SolverFails(o)
  <2>1. TypeOK' BY <1>0, <1>2, StepOptions DEF SolverFails, TypeOK, rigid
  <2>2. StepInv' BY <1>0, <1>2 DEF SolverFails, StepInv, rigid
  <2>3. UNCHANGED <<Defect, verdict>> BY <1>2 DEF SolverFails, Defect, rigid
  <2>4. QED BY <2>1, <2>2, <2>3
<1>3. ASSUME NEW m \in MeetsSpawn(o), NEW a \in Answers(o, m),
             ~SkipInductiveStep, opts' = AfterRun(o, m),
             IF a = "UNSAT"
               THEN pc' = "stopped" /\ verdict' = ReportResult(o, a) /\ UNCHANGED k_step
               ELSE Continue("inductive", ReportResult(o, a))
      PROVE  TypeOK' /\ StepInv' /\ (UNCHANGED <<Defect, verdict>> \/ Abstract!Decide)
  <2>1. m = FALSE
    BY <1>0, <1>3 DEF MeetsSpawn, Supported, SkipInductiveStep
  <2>2. /\ opts' \in [Flags -> BOOLEAN]
        /\ opts'["no-assertions"] = user_no_assertions
    BY <1>0, <1>3, <2>1, StepOptions, AfterRunOptions
  <2>3. CASE a = "UNSAT"
    <3>1. verdict' = "SUCCESSFUL" /\ pc' = "stopped" /\ k_step' = k_step
      BY <1>0, <1>3, <2>3, StepOptions DEF ReportResult
    <3>2. ~Violation
      BY <1>0, <1>3, <2>1, <2>3, StepOptions DEF Answers, BaseCaseRefuted
    <3>3. Defect = 0
      BY <1>0, <3>2 DEF Defect, Violation
    <3>4. TypeOK' BY <1>0, <2>2, <3>1 DEF TypeOK, rigid
    <3>5. StepInv' BY <1>0, <2>2, <3>1 DEF StepInv, rigid
    <3>6. Abstract!Decide
      BY <1>0, <3>1, <3>3 DEF Abstract!Decide, Abstract!Verdicts, Defect, rigid
    <3>7. QED BY <3>4, <3>5, <3>6
  <2>4. CASE a # "UNSAT"
    <3>1. a = "SAT"
      BY <1>3, <2>4 DEF Answers
    <3>2. ReportResult(o, a) = "NONE"
      BY <1>0, <3>1, StepOptions DEF ReportResult
    <3>3. QED BY <1>a, <1>3, <2>2, <2>4, <3>2
  <2>5. QED BY <2>3, <2>4
<1>4. QED
  <2>1. CASE ~SolverFails(o) /\ ~(Continue("inductive", verdict) /\ UNCHANGED opts)
    <3>1. PICK m \in MeetsSpawn(o) : \E a \in Answers(o, m) :
            /\ ~SkipInductiveStep
            /\ opts' = AfterRun(o, m)
            /\ IF a = "UNSAT"
                 THEN pc' = "stopped" /\ verdict' = ReportResult(o, a) /\ UNCHANGED k_step
                 ELSE Continue("inductive", ReportResult(o, a))
      BY <2>1 DEF do_inductive_step
    <3>2. QED BY <3>1, <1>3
  <2>2. QED BY <1>1, <1>2, <2>1

(* Every step preserves them.                                              *)
LEMMA StepPreserves ==
  ASSUME Supported
  PROVE  TypeOK /\ StepInv /\ [Next]_vars =>
           TypeOK' /\ StepInv' /\ [Abstract!Decide]_<<Defect, verdict>>
<1> SUFFICES ASSUME TypeOK, StepInv, [Next]_vars
             PROVE  TypeOK' /\ StepInv' /\ [Abstract!Decide]_<<Defect, verdict>>
  OBVIOUS
<1>1. CASE UNCHANGED vars
  <2>1. TypeOK' BY <1>1 DEF TypeOK, vars, rigid
  <2>2. StepInv' BY <1>1 DEF StepInv, vars, rigid, BaseCaseRefuted, Violation, Reached
  <2>3. UNCHANGED <<Defect, verdict>> BY <1>1 DEF Defect, vars, rigid
  <2>4. QED BY <2>1, <2>2, <2>3
<1>2. CASE Next
  BY <1>2, BaseStep, ForwardStep, InductiveStep DEF Next
<1>3. QED BY <1>1, <1>2

(* The option table keeps its shape through every step and run.            *)
THEOREM StrategiesTypeCorrect ==
  ASSUME Supported
  PROVE  Spec => []TypeOK
  BY InitInv, StepPreserves, PTL DEF Spec

(* Every sequential strategy prints at most one verdict and only a true    *)
(* one, for every max-k-step and k-step: the steps share the option table  *)
(* without misleading one another.                                         *)
THEOREM StrategiesRefineVerdict ==
  ASSUME Supported
  PROVE  Spec => VerdictRefinement
<1>1. Init => Abstract!Init
  BY ParamAssumption DEF Init, Abstract!Init, Defect
<1>2. QED
  BY <1>1, InitInv, StepPreserves, PTL DEF Spec, VerdictRefinement, Abstract!Spec
-----------------------------------------------------------------------------
(* What a verdict means for the steps that were run or skipped.  UNKNOWN   *)
(* comes after the last step of a strategy, and k-induction's last step is *)
(* the inductive one: that the forward condition has failed at this k has  *)
(* to be remembered.                                                       *)
DepthRefuted == pc = "inductive" => ~Reached(depth)

HonestInv ==
  /\ DepthRefuted
  /\ UnknownIsHonest
  /\ DisabledStepProvesNothing

(* What has been refuted at k_step when Continue gives up after it.        *)
LEMMA ContinueIsHonest ==
  ASSUME TypeOK, NEW step \in {"base", "forward", "inductive"},
         UNCHANGED rigid, Continue(step, "NONE"),
         strategy # "termination" => BaseCaseRefuted,
         NextStep(step) = FirstStep /\ strategy # "falsification" => ~Reached(depth)
  PROVE  UnknownIsHonest' /\ DisabledStepProvesNothing'
<1>1. CASE verdict' # "UNKNOWN"
  BY <1>1, ContinueCases DEF UnknownIsHonest, DisabledStepProvesNothing
<1>2. CASE verdict' = "UNKNOWN"
  <2>1. NextStep(step) = FirstStep /\ k_step' = k_step + k_step_inc
    BY <1>2 DEF Continue
  <2>2. k_step' - k_step_inc' = k_step
    BY <2>1 DEF TypeOK, rigid
  <2>3. UnknownIsHonest'
    BY <2>1, <2>2 DEF UnknownIsHonest, BaseCaseRefuted, Violation, Reached, TypeOK, rigid
  <2>4. QED BY <1>2, <2>3 DEF DisabledStepProvesNothing
<1>3. QED BY <1>1, <1>2

(* What is concluded from a base case is honest.                           *)
LEMMA HonestBase ==
  ASSUME Supported, TypeOK, StepInv, do_base_case
  PROVE  HonestInv'
<1> DEFINE o == BaseCaseOptions
<1>0. /\ UNCHANGED rigid /\ strategy # "termination" /\ verdict = "NONE"
      /\ opts \in [Flags -> BOOLEAN]
  BY DEF do_base_case, SolverFails, StepInv, TypeOK
<1>1. CASE SolverFails(o)
  BY <1>0, <1>1 DEF SolverFails, HonestInv, DepthRefuted, UnknownIsHonest, DisabledStepProvesNothing
<1>2. ASSUME NEW m \in MeetsSpawn(o), NEW a \in Answers(o, FALSE),
             a = "SAT", pc' = "stopped", verdict' = ReportResult(o, a)
      PROVE  HonestInv'
  <2>1. verdict' = "FAILED"
    BY <1>0, <1>2, StepOptions DEF ReportResult
  <2>2. QED
    BY <1>2, <2>1 DEF HonestInv, DepthRefuted, UnknownIsHonest, DisabledStepProvesNothing
<1>3. ASSUME NEW m \in MeetsSpawn(o), NEW a \in Answers(o, FALSE),
             a # "SAT", Continue("base", ReportResult(o, a))
      PROVE  HonestInv'
  <2>1. ReportResult(o, a) = "NONE"
    BY <1>0, <1>3, StepOptions DEF ReportResult, Supported
  <2>2. BaseCaseRefuted
    BY <1>0, <1>3, StepOptions DEF Answers, BoundedSat, BaseCaseRefuted, Violation, StepInv, do_base_case
  <2>3. NextStep("base") = FirstStep => strategy = "falsification"
    BY <1>0 DEF NextStep, FirstStep
  <2>4. UnknownIsHonest' /\ DisabledStepProvesNothing'
    BY <1>0, <1>3, <2>1, <2>2, <2>3, ContinueIsHonest
  <2>5. pc' # "inductive"
    BY <1>0, <1>3, <2>1, ContinueCases DEF NextStep, FirstStep
  <2>6. QED BY <2>4, <2>5 DEF HonestInv, DepthRefuted
<1>4. QED
  <2>1. CASE ~SolverFails(o)
    <3>1. PICK m \in MeetsSpawn(o), a \in Answers(o, FALSE) :
            IF a = "SAT"
              THEN pc' = "stopped" /\ verdict' = ReportResult(o, a)
              ELSE Continue("base", ReportResult(o, a))
      BY <2>1 DEF do_base_case
    <3>2. QED BY <3>1, <1>2, <1>3
  <2>2. QED BY <1>1, <2>1

(* So is what is concluded from a forward condition.                       *)
LEMMA HonestForward ==
  ASSUME Supported, TypeOK, StepInv, do_forward_condition
  PROVE  HonestInv'
<1> DEFINE o == ForwardOptions
<1>0. /\ UNCHANGED rigid /\ verdict = "NONE"
      /\ opts \in [Flags -> BOOLEAN]
      /\ strategy # "termination" => BaseCaseRefuted
  BY DEF do_forward_condition, SolverFails, StepInv, TypeOK
<1>1. CASE SolverFails(o)
  BY <1>0, <1>1 DEF SolverFails, HonestInv, DepthRefuted, UnknownIsHonest, DisabledStepProvesNothing
<1>2. ASSUME NEW m \in MeetsSpawn(o), NEW a \in Answers(o, FALSE),
             opts' = RestoreAssertions(AfterRun(o, m)),
             a = "UNSAT", pc' = "stopped", verdict' = ReportResult(o, a)
      PROVE  HonestInv'
  <2>1. verdict' = "SUCCESSFUL"
    BY <1>0, <1>2, StepOptions DEF ReportResult
  <2>2. ~opts'["inductive-step"]
    BY <1>0, <1>2, StepOptions, FlagsDistinct DEF RestoreAssertions, AfterRun
  <2>3. QED
    BY <1>2, <2>1, <2>2 DEF HonestInv, DepthRefuted, UnknownIsHonest, DisabledStepProvesNothing
<1>3. ASSUME NEW m \in MeetsSpawn(o), NEW a \in Answers(o, FALSE),
             a # "UNSAT", Continue("forward", ReportResult(o, a))
      PROVE  HonestInv'
  <2>1. ReportResult(o, a) = "NONE"
    BY <1>0, <1>3, StepOptions DEF ReportResult, Answers
  <2>2. ~Reached(depth)
    <3>1. o["no-assertions"]
      BY <1>0, FlagsDistinct DEF ForwardOptions
    <3>2. QED BY <1>0, <1>3, <3>1, StepOptions DEF Answers, BoundedSat
  <2>3. UnknownIsHonest' /\ DisabledStepProvesNothing'
    BY <1>0, <1>3, <2>1, <2>2, ContinueIsHonest
  <2>4. pc' = "inductive" => k_step' = k_step
    BY <1>3, ContinueCases DEF NextStep, FirstStep
  <2>5. QED BY <1>0, <2>2, <2>3, <2>4 DEF HonestInv, DepthRefuted, Reached, rigid
<1>4. QED
  <2>1. CASE ~SolverFails(o)
    <3>1. PICK m \in MeetsSpawn(o), a \in Answers(o, FALSE) :
            /\ opts' = RestoreAssertions(AfterRun(o, m))
            /\ IF a = "UNSAT"
                 THEN pc' = "stopped" /\ verdict' = ReportResult(o, a)
                 ELSE Continue("forward", ReportResult(o, a))
      BY <2>1 DEF do_forward_condition
    <3>2. QED BY <3>1, <1>2, <1>3
  <2>2. QED BY <1>1, <2>1

(* So is what is concluded from an inductive step.                         *)
LEMMA HonestInductive ==
  ASSUME Supported, TypeOK, StepInv, DepthRefuted, do_inductive_step
  PROVE  HonestInv'
<1> DEFINE o == InductiveOptions
<1>0. /\ UNCHANGED rigid /\ verdict = "NONE" /\ strategy = "k-induction"
      /\ BaseCaseRefuted /\ ~Reached(depth)
      /\ Reached(spawn) => opts["disable-inductive-step"]
      /\ opts \in [Flags -> BOOLEAN]
  BY DEF do_inductive_step, SolverFails, StepInv, TypeOK, DepthRefuted
<1>1. CASE SolverFails(o)
  BY <1>0, <1>1 DEF SolverFails, HonestInv, DepthRefuted, UnknownIsHonest, DisabledStepProvesNothing
<1>2. ASSUME Continue("inductive", "NONE")
      PROVE  HonestInv'
  <2>1. UnknownIsHonest' /\ DisabledStepProvesNothing'
    BY <1>0, <1>2, ContinueIsHonest
  <2>2. pc' # "inductive"
    BY <1>0, <1>2, ContinueCases DEF NextStep, FirstStep
  <2>3. QED BY <2>1, <2>2 DEF HonestInv, DepthRefuted
<1>3. ASSUME NEW m \in MeetsSpawn(o), NEW a \in Answers(o, m),
             ~SkipInductiveStep, opts' = AfterRun(o, m),
             IF a = "UNSAT"
               THEN pc' = "stopped" /\ verdict' = ReportResult(o, a)
               ELSE Continue("inductive", ReportResult(o, a))
      PROVE  HonestInv'
  <2>1. CASE a = "UNSAT"
    <3>1. verdict' = "SUCCESSFUL" /\ pc' = "stopped"
      BY <1>0, <1>3, <2>1, StepOptions DEF ReportResult
    <3>2. m = FALSE /\ ~opts["disable-inductive-step"]
      BY <1>0, <1>3 DEF MeetsSpawn, Supported, SkipInductiveStep
    <3>3. ~opts'["disable-inductive-step"]
      BY <1>0, <1>3, <3>2, FlagsDistinct DEF AfterRun, InductiveOptions
    <3>4. QED
      BY <3>1, <3>3 DEF HonestInv, DepthRefuted, UnknownIsHonest, DisabledStepProvesNothing
  <2>2. CASE a # "UNSAT"
    <3>1. a = "SAT"
      BY <1>3, <2>2 DEF Answers
    <3>2. ReportResult(o, a) = "NONE"
      BY <1>0, <3>1, StepOptions DEF ReportResult
    <3>3. QED BY <1>2, <1>3, <2>2, <3>2
  <2>3. QED BY <2>1, <2>2
<1>4. QED
  <2>1. CASE ~SolverFails(o) /\ ~Continue("inductive", verdict)
    <3>1. PICK m \in MeetsSpawn(o) : \E a \in Answers(o, m) :
            /\ ~SkipInductiveStep
            /\ opts' = AfterRun(o, m)
            /\ IF a = "UNSAT"
                 THEN pc' = "stopped" /\ verdict' = ReportResult(o, a)
                 ELSE Continue("inductive", ReportResult(o, a))
      BY <2>1 DEF do_inductive_step
    <3>2. QED BY <3>1, <1>3
  <2>2. QED BY <1>0, <1>1, <1>2, <2>1

(* Every step keeps the verdict honest.                                    *)
LEMMA HonestPreserved ==
  ASSUME Supported
  PROVE  TypeOK /\ StepInv /\ HonestInv /\ [Next]_vars => HonestInv'
<1> SUFFICES ASSUME TypeOK, StepInv, HonestInv, [Next]_vars
             PROVE  HonestInv'
  OBVIOUS
<1>1. CASE UNCHANGED vars
  BY <1>1 DEF HonestInv, DepthRefuted, UnknownIsHonest, DisabledStepProvesNothing,
              Violation, Reached, vars, rigid
<1>2. CASE Next
  BY <1>2, HonestBase, HonestForward, HonestInductive DEF Next, HonestInv
<1>3. QED BY <1>1, <1>2

(* UNKNOWN is never said too early: whatever the increment and the bound   *)
(* on k, neither a violation nor a complete unwinding lay within the last  *)
(* k the strategy tried.                                                   *)
THEOREM UnknownTheorem ==
  ASSUME Supported
  PROVE  Spec => []UnknownIsHonest
<1>1. Init => HonestInv
  BY DEF Init, HonestInv, DepthRefuted, UnknownIsHonest, DisabledStepProvesNothing, FirstStep
<1>2. HonestInv => UnknownIsHonest
  BY DEF HonestInv
<1>3. QED BY <1>1, <1>2, InitInv, StepPreserves, HonestPreserved, PTL DEF Spec

(* A run that disabled the inductive step is not presented as a proof by   *)
(* it, when the base case meets every spawn the inductive step meets.      *)
THEOREM DisabledStepTheorem ==
  ASSUME Supported
  PROVE  Spec => []DisabledStepProvesNothing
<1>1. Init => HonestInv
  BY DEF Init, HonestInv, DepthRefuted, UnknownIsHonest, DisabledStepProvesNothing, FirstStep
<1>2. HonestInv => DisabledStepProvesNothing
  BY DEF HonestInv
<1>3. QED BY <1>1, <1>2, InitInv, StepPreserves, HonestPreserved, PTL DEF Spec
=============================================================================
