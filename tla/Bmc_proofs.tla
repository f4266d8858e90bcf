----------------------------- MODULE Bmc_proofs -----------------------------
(***************************************************************************)
(* bmct::run and multi_property_check, for every program, every option and *)
(* every order in which jobs run: the driver is one of the explorer's      *)
(* behaviours, its jobs share their result correctly, and the verdict is   *)
(* as exact as what the explorer checked.                                  *)
(***************************************************************************)
EXTENDS Bmc, ReachabilityTree_proofs

Places == {"ready", "satisfiable", "locked", "reporting", "reported", "done"}

(* The outcomes that violate a claim.                                      *)
Violating(outcomes) == {o \in outcomes : o[3] = 0}

(* Where the driver is, and what its jobs can be.                          *)
PlaceInv ==
  /\ config \in Configs
  /\ at \in {"symex", "jobs", "solved", "returned", "aborted"}
  /\ at \in {"jobs", "solved", "aborted"} => phase = "formula"
  /\ at = "symex" => job = <<>>
  /\ job # <<>> => phase = "formula" /\ job \in [1 .. Len(Top.claims) -> Places]
  /\ at = "jobs" => config.multi_property /\ job \in [1 .. Len(Top.claims) -> Places]
  /\ final_result \in {"SAT", "UNSAT"}
  /\ res \in {"SAT", "UNSAT", "ERROR"}
  /\ interleaving_failed \in BOOLEAN
  /\ unsolved \in BOOLEAN

(* The mutex is held by the job that is between its lock and its unlock.   *)
MutexInv ==
  /\ result_mutex \in {0} \cup DOMAIN job
  /\ \A i \in DOMAIN job : job[i] \in {"locked", "reporting"} <=> result_mutex = i
  /\ at \notin {"jobs", "aborted"} => result_mutex = 0

(* The result follows the jobs that have reported.                         *)
ResultInv ==
  /\ \A i \in DOMAIN job :
       job[i] \in {"satisfiable", "locked", "reporting", "reported"} => ClaimSatisfiable(i)
  /\ \A i \in DOMAIN job : job[i] = "reported" => Top.claims[i].about \in reported
  /\ at = "jobs" => (final_result = "SAT" <=> \E i \in DOMAIN job : job[i] = "reported")
  /\ config.fail_fast =>
       /\ at = "jobs" /\ final_result = "SAT" => \A i \in DOMAIN job : job[i] # "reporting"
       /\ \A i, j \in DOMAIN job :
            job[i] \in {"reporting", "reported"} /\ job[j] \in {"reporting", "reported"} => i = j
  /\ \A i \in DOMAIN job :
       at = "jobs" /\ ~unsolved /\ job[i] = "done" /\ (final_result = "UNSAT" \/ ~config.fail_fast)
         => ~ClaimSatisfiable(i)

(* What is said to be violated is.                                         *)
SatInv ==
  /\ reported \subseteq Violating(checked \cup FormulaOutcomes)
  /\ res = "SAT" \/ interleaving_failed => Violating(checked \cup FormulaOutcomes) # {}

(* What is not said to be violated is not.                                 *)
UnsatInv ==
  /\ at = "solved" /\ res = "ERROR" => unsolved
  /\ at = "solved" /\ res = "UNSAT" /\ ~Forgotten => Violating(FormulaOutcomes) = {}
  /\ at = "returned" /\ res = "UNSAT" => phase = "done" /\ ~interleaving_failed
  /\ at = "returned" /\ config.all_runs => phase = "done"
  /\ ~interleaving_failed /\ ~Forgotten => Violating(checked) = {}

(* With --multi-property and no fail-fast, nothing violated is left out.   *)
ReportInv ==
  config.multi_property /\ ~config.fail_fast /\ ~unsolved =>
    /\ Violating(checked) \subseteq reported
    /\ at = "solved" => Violating(FormulaOutcomes) \subseteq reported

BmcInv == PlaceInv /\ MutexInv /\ ResultInv /\ SatInv /\ UnsatInv /\ ReportInv

-----------------------------------------------------------------------------
(* The driver and the explorer *)

(* Every step of the driver is a step of the explorer or leaves it alone.  *)
LEMMA DriverStep == [BmcNext]_allVars => [Next]_vars
PROOF
<1> SUFFICES ASSUME [BmcNext]_allVars PROVE [Next]_vars
  OBVIOUS
<1>1. CASE get_next_formula
  BY <1>1 DEF get_next_formula, Next
<1>2. CASE setup_next_formula
  BY <1>2 DEF setup_next_formula, Next
<1>3. CASE NoClaimRemains \/ run_decision_procedure \/ JoinJobs
  BY <1>3 DEF NoClaimRemains, run_decision_procedure, JoinJobs, RunReturns
<1>4. CASE multi_property_check \/ ReturnEarly \/ ReturnLate
  BY <1>4 DEF multi_property_check, ReturnEarly, ReturnLate
<1>5. ASSUME NEW i \in DOMAIN job, Job(i) PROVE UNCHANGED vars
  BY <1>5 DEF Job, SolveClaim, SolverThrows, LockResult, TestResult, ReportTrace, JobStep
<1>6. CASE UNCHANGED allVars
  BY <1>6 DEF allVars
<1> QED BY <1>1, <1>2, <1>3, <1>4, <1>5, <1>6 DEF BmcNext

(* The driver asks for formulas only when the explorer can give one: what  *)
(* it does to the explorer is a behaviour of the explorer's specification  *)
(* (bmct::run, bmc.cpp:405-450).                                           *)
THEOREM DriverExplores == BmcSpec => Spec
PROOF
<1>1. BmcInit => Init
  BY DEF BmcInit
<1>2. [BmcNext]_allVars => [Next]_vars
  BY DriverStep
<1> QED BY <1>1, <1>2, PTL DEF BmcSpec, Spec

(* The explorer's invariant holds under the driver, which only runs it.    *)
LEMMA TreeInvOfDriver == BmcSpec => []TreeInv
BY DriverExplores, TreeInvariant, PTL

-----------------------------------------------------------------------------
(* The formula that is being solved *)

(* Where an execution is complete, the claims of its interleaving are      *)
(* those of the state on top.                                              *)
LEMMA TopClaims ==
  ASSUME TreeInv, phase # "done"
  PROVE  /\ Top.claims \in Seq(Claim)
         /\ Len(Top.claims) \in Nat
         /\ DOMAIN Top.claims = 1 .. Len(Top.claims)
         /\ Top.remaining_claims = Len(Top.claims)
PROOF
<1>1. Top.claims \in Seq(Claim) /\ Top.remaining_claims = Len(Top.claims)
  BY StackTop DEF LevelOK, StateOK
<1> QED BY <1>1, LenProperties

(* What a formula says to be violated are the claims a job can satisfy.    *)
LEMMA FormulaViolations ==
  ASSUME TreeInv, phase = "formula", NEW o
  PROVE  o \in Violating(FormulaOutcomes) <=>
           \E i \in 1 .. Len(Top.claims) : ClaimSatisfiable(i) /\ o = Top.claims[i].about
PROOF
<1>1. /\ DOMAIN Top.claims = 1 .. Len(Top.claims)
      /\ \A i \in 1 .. Len(Top.claims) : Top.claims[i] \in Claim
  BY TopClaims, ElementOfSeq
<1>2. o \in FormulaOutcomes <=>
        \E i \in 1 .. Len(Top.claims) : ~Top.claims[i].vacuous /\ o = Top.claims[i].about
  BY <1>1 DEF FormulaOutcomes, Solved, Range
<1> QED BY <1>1, <1>2 DEF Violating, ClaimSatisfiable, Violated

(* A formula without remaining claims says nothing, so that nothing is     *)
(* lost when it is not solved.                                             *)
LEMMA FormulaChecked ==
  ASSUME TreeInv, CheckAndBacktrack
  PROVE  /\ checked' = checked \cup FormulaOutcomes
         /\ FormulaOutcomes' = {}
PROOF
<1>1. phase = "formula" /\ FormulaOutcomes = Solved(Top)
  BY DEF CheckAndBacktrack, FormulaOutcomes
<1>2. Top.remaining_claims = 0 => Solved(Top) = {}
  BY <1>1, TopClaims DEF Solved, Range
<1>3. phase' \in {"symex", "done"}
  BY DEF CheckAndBacktrack
<1> QED BY <1>1, <1>2, <1>3 DEF CheckAndBacktrack, FormulaOutcomes

(* Claims and verdict depend on the tree and on what was counted, nothing  *)
(* else.                                                                   *)
LEMMA FormulaStays ==
  ASSUME UNCHANGED vars
  PROVE  /\ Top' = Top /\ FormulaOutcomes' = FormulaOutcomes
         /\ phase' = phase /\ checked' = checked
         /\ \A i : ClaimSatisfiable(i)' <=> ClaimSatisfiable(i)
BY DEF vars, Top, FormulaOutcomes, ClaimSatisfiable

-----------------------------------------------------------------------------
(* The steps of the driver *)

(* The invariant holds at the start.                                       *)
LEMMA BmcInitial == BmcInit => BmcInv
PROOF
<1> SUFFICES ASSUME BmcInit PROVE BmcInv
  OBVIOUS
<1>1. PlaceInv
  BY DEF BmcInit, Init, PlaceInv
<1>2. MutexInv /\ ResultInv
  BY DEF BmcInit, MutexInv, ResultInv
<1>3. checked = {} /\ FormulaOutcomes = {}
  BY DEF BmcInit, Init, FormulaOutcomes
<1>4. SatInv /\ UnsatInv /\ ReportInv
  BY <1>3 DEF BmcInit, SatInv, UnsatInv, ReportInv, Violating
<1> QED BY <1>1, <1>2, <1>4 DEF BmcInv

(* A step of the explorer disturbs nothing the driver has recorded.        *)
LEMMA ExplorePreserves ==
  ASSUME TreeInv, BmcInv, get_next_formula
  PROVE  BmcInv'
PROOF
<1>1. /\ at = "symex" /\ UNCHANGED bmcVars /\ checked' = checked
      /\ phase = "symex" /\ job = <<>>
  BY DEF get_next_formula, symex_step, SwitchPoint, BmcInv, PlaceInv
<1>2. FormulaOutcomes = {}
  BY <1>1 DEF FormulaOutcomes
<1>3. PlaceInv'
  BY <1>1 DEF BmcInv, PlaceInv, bmcVars, solving
<1>4. MutexInv' /\ ResultInv'
  BY <1>1 DEF BmcInv, MutexInv, ResultInv, bmcVars, solving
<1>5. SatInv' /\ UnsatInv' /\ ReportInv'
  BY <1>1, <1>2 DEF BmcInv, SatInv, UnsatInv, ReportInv, Violating, Forgotten, bmcVars, solving
<1> QED BY <1>3, <1>4, <1>5 DEF BmcInv

(* run_thread without --multi-property.                                    *)
LEMMA SolvePreserves ==
  ASSUME TreeInv, BmcInv, NoClaimRemains \/ run_decision_procedure
  PROVE  BmcInv'
PROOF
<1>1. /\ at = "symex" /\ phase = "formula" /\ job = <<>>
      /\ at' = "solved" /\ res' \in {"SAT", "UNSAT", "ERROR"}
      /\ UNCHANGED <<vars, config, interleaving_failed, job, final_result, result_mutex, reported>>
      /\ unsolved' = unsolved \/ unsolved' = TRUE
  BY DEF NoClaimRemains, run_decision_procedure, RunReturns, solving, BmcInv, PlaceInv
<1>2. /\ Top' = Top /\ FormulaOutcomes' = FormulaOutcomes /\ phase' = phase /\ checked' = checked
  BY <1>1, FormulaStays
<1>3. PlaceInv'
  BY <1>1, <1>2 DEF BmcInv, PlaceInv
<1>4. MutexInv' /\ ResultInv'
  BY <1>1, <1>2 DEF BmcInv, MutexInv, ResultInv
<1>5. /\ res' = "SAT" => Violating(FormulaOutcomes) # {}
      /\ res' = "UNSAT" => Violating(FormulaOutcomes) = {}
      /\ res' = "ERROR" => unsolved'
      /\ config.multi_property => Violating(FormulaOutcomes) = {}
  <2>1. CASE NoClaimRemains
    <3>1. Len(Top.claims) = 0 /\ res' = "UNSAT"
      BY <2>1, <1>1, TopClaims DEF NoClaimRemains, RunReturns
    <3>2. Violating(FormulaOutcomes) = {}
      BY <3>1, <1>1, FormulaViolations
    <3> QED BY <3>1, <3>2
  <2>2. CASE run_decision_procedure
    <3> DEFINE found == \E c \in Range(Top.claims) : Violated(c)
    <3>1. /\ ~config.multi_property
          /\ \/ res' = IF found THEN "SAT" ELSE "UNSAT"
             \/ res' = "ERROR" /\ unsolved'
      BY <2>2 DEF run_decision_procedure, RunReturns
    <3>2. found <=> Violating(FormulaOutcomes) # {}
      <4>1. DOMAIN Top.claims = 1 .. Len(Top.claims)
        BY <1>1, TopClaims
      <4>2. found <=> \E i \in 1 .. Len(Top.claims) : ClaimSatisfiable(i)
        BY <4>1 DEF Range, ClaimSatisfiable
      <4>3. (\E o : o \in Violating(FormulaOutcomes)) <=>
              \E i \in 1 .. Len(Top.claims) : ClaimSatisfiable(i)
        BY <1>1, FormulaViolations
      <4> QED BY <4>2, <4>3
    <3> HIDE DEF found
    <3> QED BY <3>1, <3>2
  <2> QED BY <2>1, <2>2
<1>6. SatInv'
  BY <1>1, <1>2, <1>5 DEF BmcInv, SatInv, Violating
<1>7. UnsatInv'
  BY <1>1, <1>2, <1>5 DEF BmcInv, UnsatInv, Forgotten
<1>8. ReportInv'
  BY <1>1, <1>2, <1>5 DEF BmcInv, ReportInv
<1> QED BY <1>3, <1>4, <1>6, <1>7, <1>8 DEF BmcInv

(* An equation is handed over to one job per claim.                        *)
LEMMA JobsStartPreserves ==
  ASSUME TreeInv, BmcInv, multi_property_check
  PROVE  BmcInv'
PROOF
<1>1. /\ at = "symex" /\ phase = "formula" /\ at' = "jobs"
      /\ job' = [i \in 1 .. Top.remaining_claims |-> "ready"]
      /\ final_result' = "UNSAT" /\ config.multi_property
      /\ UNCHANGED <<vars, config, result_mutex, res, interleaving_failed, reported, unsolved>>
  BY DEF multi_property_check
<1>2. /\ Top' = Top /\ FormulaOutcomes' = FormulaOutcomes /\ phase' = phase /\ checked' = checked
  BY <1>1, FormulaStays
<1>3. /\ job' \in [1 .. Len(Top.claims) -> {"ready"}]
      /\ DOMAIN job' = 1 .. Len(Top.claims) /\ Len(Top.claims) \in Nat
  BY <1>1, TopClaims
<1>4. PlaceInv'
  BY <1>1, <1>2, <1>3 DEF BmcInv, PlaceInv, Places
<1>5. MutexInv'
  BY <1>1, <1>3 DEF BmcInv, PlaceInv, MutexInv
<1>6. ResultInv'
  BY <1>1, <1>3 DEF ResultInv
<1>7. SatInv' /\ UnsatInv' /\ ReportInv'
  BY <1>1, <1>2 DEF BmcInv, SatInv, UnsatInv, ReportInv, Forgotten, Violating
<1> QED BY <1>4, <1>5, <1>6, <1>7 DEF BmcInv

-----------------------------------------------------------------------------
(* The steps of a job *)

(* What is known of a job while the jobs run.                              *)
LEMMA JobContext ==
  ASSUME TreeInv, BmcInv, at = "jobs"
  PROVE  /\ phase = "formula"
         /\ job \in [1 .. Len(Top.claims) -> Places]
         /\ DOMAIN job = 1 .. Len(Top.claims)
         /\ DOMAIN Top.claims = 1 .. Len(Top.claims)
         /\ Len(Top.claims) \in Nat
         /\ 0 \notin DOMAIN job
PROOF
<1>1. phase = "formula" /\ job \in [1 .. Len(Top.claims) -> Places]
  BY DEF BmcInv, PlaceInv
<1> QED BY <1>1, TopClaims

(* What a job leaves alone: the explorer, and so the formula, and all that *)
(* the invariant says of the other parts of the driver.                    *)
LEMMA JobFrame ==
  ASSUME TreeInv, BmcInv, at = "jobs", JobStep, NEW i \in DOMAIN job, NEW place \in Places,
         Goto(i, place), final_result' \in {"SAT", "UNSAT"}, unsolved' \in BOOLEAN,
         unsolved => unsolved', reported \subseteq reported'
  PROVE  /\ PlaceInv'
         /\ UnsatInv'
         /\ ReportInv'
         /\ job' = [job EXCEPT ![i] = place] /\ DOMAIN job' = DOMAIN job
         /\ Top' = Top /\ FormulaOutcomes' = FormulaOutcomes /\ checked' = checked
         /\ \A j : ClaimSatisfiable(j)' <=> ClaimSatisfiable(j)
PROOF
<1>1. /\ UNCHANGED <<vars, config, at, res, interleaving_failed>>
      /\ job' = [job EXCEPT ![i] = place]
  BY DEF JobStep, Goto
<1>2. /\ Top' = Top /\ FormulaOutcomes' = FormulaOutcomes /\ phase' = phase /\ checked' = checked
      /\ \A j : ClaimSatisfiable(j)' <=> ClaimSatisfiable(j)
  BY <1>1, FormulaStays
<1>3. job' \in [1 .. Len(Top.claims) -> Places] /\ DOMAIN job' = DOMAIN job
  BY <1>1, JobContext
<1>4. PlaceInv'
  BY <1>1, <1>2, <1>3, JobContext DEF BmcInv, PlaceInv
<1>5. UnsatInv'
  BY <1>1, <1>2 DEF BmcInv, UnsatInv, Forgotten
<1>6. ReportInv'
  BY <1>1, <1>2 DEF BmcInv, ReportInv, Violating
<1> QED BY <1>1, <1>2, <1>3, <1>4, <1>5, <1>6

(* A job asks the solver.                                                  *)
LEMMA SolveClaimPreserves ==
  ASSUME TreeInv, BmcInv, at = "jobs", NEW i \in DOMAIN job, SolveClaim(i)
  PROVE  BmcInv'
PROOF
<1>1. PICK place \in {"satisfiable", "done"} :
        /\ Goto(i, place)
        /\ place = "satisfiable" => ClaimSatisfiable(i)
        /\ place = "done" /\ ~unsolved' => ~ClaimSatisfiable(i)
  BY DEF SolveClaim
<1>2. /\ JobStep /\ UNCHANGED <<final_result, result_mutex, reported>>
      /\ job[i] = "ready" /\ place \in Places
      /\ unsolved' \in BOOLEAN /\ (unsolved => unsolved')
  <2>1. /\ JobStep /\ UNCHANGED <<final_result, result_mutex, reported>>
        /\ job[i] = "ready" /\ place \in Places
    BY <1>1 DEF SolveClaim, Places
  <2>2. unsolved' = unsolved \/ unsolved' = TRUE
    BY DEF SolveClaim
  <2>3. unsolved \in BOOLEAN
    BY DEF BmcInv, PlaceInv
  <2>4. unsolved' \in BOOLEAN
    BY <2>2, <2>3
  <2>5. unsolved => unsolved'
    BY <2>2, <2>3
  <2> QED BY <2>1, <2>4, <2>5
<1>3. final_result' \in {"SAT", "UNSAT"}
  BY <1>2 DEF BmcInv, PlaceInv
<1>4. /\ PlaceInv' /\ UnsatInv' /\ ReportInv'
      /\ job' = [job EXCEPT ![i] = place] /\ DOMAIN job' = DOMAIN job
      /\ Top' = Top /\ FormulaOutcomes' = FormulaOutcomes /\ checked' = checked
      /\ \A j : ClaimSatisfiable(j)' <=> ClaimSatisfiable(j)
  BY <1>1, <1>2, <1>3, JobFrame
<1>5. \A j \in DOMAIN job : job'[j] = IF j = i THEN place ELSE job[j]
  BY <1>4
<1>6. UNCHANGED <<at, config, res, interleaving_failed>>
  BY <1>2 DEF JobStep
<1>7. MutexInv'
  BY <1>1, <1>2, <1>4, <1>5, <1>6 DEF BmcInv, MutexInv
<1>8. ResultInv'
  BY <1>1, <1>2, <1>4, <1>5, <1>6 DEF BmcInv, ResultInv
<1>9. SatInv'
  BY <1>2, <1>4, <1>6 DEF BmcInv, SatInv
<1> QED BY <1>4, <1>7, <1>8, <1>9 DEF BmcInv

(* A job's solver throws.                                                  *)
LEMMA ThrowPreserves ==
  ASSUME TreeInv, BmcInv, at = "jobs", NEW i \in DOMAIN job, SolverThrows(i)
  PROVE  BmcInv'
PROOF
<1>1. /\ at' = "aborted"
      /\ UNCHANGED <<vars, config, res, interleaving_failed, job, final_result, result_mutex,
                     reported, unsolved>>
  BY DEF SolverThrows, solving
<1>2. /\ Top' = Top /\ FormulaOutcomes' = FormulaOutcomes /\ phase' = phase /\ checked' = checked
      /\ \A j : ClaimSatisfiable(j)' <=> ClaimSatisfiable(j)
  BY <1>1, FormulaStays
<1>3. PlaceInv'
  BY <1>1, <1>2, JobContext DEF BmcInv, PlaceInv
<1>4. MutexInv' /\ ResultInv'
  BY <1>1, <1>2 DEF BmcInv, MutexInv, ResultInv
<1>5. SatInv' /\ UnsatInv' /\ ReportInv'
  BY <1>1, <1>2 DEF BmcInv, SatInv, UnsatInv, ReportInv, Forgotten
<1> QED BY <1>3, <1>4, <1>5 DEF BmcInv

(* The mutex is free, so no other job is between lock and unlock.          *)
LEMMA LockPreserves ==
  ASSUME TreeInv, BmcInv, at = "jobs", NEW i \in DOMAIN job, LockResult(i)
  PROVE  BmcInv'
PROOF
<1>1. /\ Goto(i, "locked") /\ JobStep /\ UNCHANGED <<final_result, reported, unsolved>>
      /\ job[i] = "satisfiable" /\ result_mutex = 0 /\ result_mutex' = i
      /\ "locked" \in Places /\ unsolved' \in BOOLEAN /\ (unsolved => unsolved')
      /\ final_result' \in {"SAT", "UNSAT"} /\ reported \subseteq reported'
  BY DEF LockResult, MutexFree, Places, BmcInv, PlaceInv
<1>2. /\ PlaceInv' /\ UnsatInv' /\ ReportInv'
      /\ job' = [job EXCEPT ![i] = "locked"] /\ DOMAIN job' = DOMAIN job
      /\ Top' = Top /\ FormulaOutcomes' = FormulaOutcomes /\ checked' = checked
      /\ \A j : ClaimSatisfiable(j)' <=> ClaimSatisfiable(j)
  BY <1>1, JobFrame
<1>3. \A j \in DOMAIN job : job'[j] = IF j = i THEN "locked" ELSE job[j]
  BY <1>2
<1>4. UNCHANGED <<at, config, res, interleaving_failed>>
  BY <1>1 DEF JobStep
<1>5. MutexInv'
  BY <1>1, <1>2, <1>3, <1>4, JobContext DEF BmcInv, MutexInv
<1>6. ResultInv'
  BY <1>1, <1>2, <1>3, <1>4 DEF BmcInv, ResultInv
<1>7. SatInv'
  BY <1>1, <1>2, <1>4 DEF BmcInv, SatInv
<1> QED BY <1>2, <1>5, <1>6, <1>7 DEF BmcInv

(* The holder of the mutex alone decides whether it is to report.          *)
LEMMA TestPreserves ==
  ASSUME TreeInv, BmcInv, at = "jobs", NEW i \in DOMAIN job, TestResult(i)
  PROVE  BmcInv'
PROOF
<1> DEFINE place == IF FoundByOther THEN "done" ELSE "reporting"
<1>1. /\ Goto(i, place) /\ JobStep /\ UNCHANGED <<final_result, reported, unsolved>>
      /\ job[i] = "locked"
      /\ place \in Places /\ unsolved' \in BOOLEAN /\ (unsolved => unsolved')
      /\ final_result' \in {"SAT", "UNSAT"} /\ reported \subseteq reported'
      /\ FoundByOther => result_mutex' = 0
      /\ ~FoundByOther => result_mutex' = result_mutex
  BY DEF TestResult, AfterThrow, Places, BmcInv, PlaceInv
<1> HIDE DEF place
<1>2. /\ PlaceInv' /\ UnsatInv' /\ ReportInv'
      /\ job' = [job EXCEPT ![i] = place] /\ DOMAIN job' = DOMAIN job
      /\ Top' = Top /\ FormulaOutcomes' = FormulaOutcomes /\ checked' = checked
      /\ \A j : ClaimSatisfiable(j)' <=> ClaimSatisfiable(j)
  BY <1>1, JobFrame
<1>3. \A j \in DOMAIN job : job'[j] = IF j = i THEN place ELSE job[j]
  BY <1>2
<1>4. UNCHANGED <<at, config, res, interleaving_failed>>
  BY <1>1 DEF JobStep
<1>5. result_mutex = i /\ \A j \in DOMAIN job : job[j] \in {"locked", "reporting"} => j = i
  BY <1>1 DEF BmcInv, MutexInv
<1>6. MutexInv'
  BY <1>1, <1>2, <1>3, <1>4, <1>5, JobContext DEF BmcInv, MutexInv, place
<1>7. ResultInv'
  <2>1. CASE FoundByOther
    BY <2>1, <1>1, <1>2, <1>3, <1>4 DEF BmcInv, ResultInv, place, FoundByOther
  <2>2. CASE ~FoundByOther
    BY <2>2, <1>1, <1>2, <1>3, <1>4, <1>5 DEF BmcInv, PlaceInv, ResultInv, place, FoundByOther
  <2> QED BY <2>1, <2>2
<1>8. SatInv'
  BY <1>1, <1>2, <1>4 DEF BmcInv, SatInv
<1> QED BY <1>2, <1>6, <1>7, <1>8 DEF BmcInv

(* A job takes the lock and reports its claim.                             *)
LEMMA ReportPreserves ==
  ASSUME TreeInv, BmcInv, at = "jobs", NEW i \in DOMAIN job, ReportTrace(i)
  PROVE  BmcInv'
PROOF
<1>1. /\ Goto(i, "reported") /\ JobStep /\ UNCHANGED unsolved
      /\ job[i] = "reporting" /\ result_mutex' = 0
      /\ reported' = reported \cup {Top.claims[i].about}
      /\ final_result' = "SAT"
      /\ "reported" \in Places /\ unsolved' \in BOOLEAN /\ (unsolved => unsolved')
      /\ final_result' \in {"SAT", "UNSAT"} /\ reported \subseteq reported'
  BY DEF ReportTrace, Places, BmcInv, PlaceInv
<1>2. /\ PlaceInv' /\ UnsatInv' /\ ReportInv'
      /\ job' = [job EXCEPT ![i] = "reported"] /\ DOMAIN job' = DOMAIN job
      /\ Top' = Top /\ FormulaOutcomes' = FormulaOutcomes /\ checked' = checked
      /\ \A j : ClaimSatisfiable(j)' <=> ClaimSatisfiable(j)
  BY <1>1, JobFrame
<1>3. \A j \in DOMAIN job : job'[j] = IF j = i THEN "reported" ELSE job[j]
  BY <1>2
<1>4. UNCHANGED <<at, config, res, interleaving_failed>>
  BY <1>1 DEF JobStep
<1>5. result_mutex = i /\ \A j \in DOMAIN job : job[j] \in {"locked", "reporting"} => j = i
  BY <1>1 DEF BmcInv, MutexInv
<1>6. MutexInv'
  BY <1>1, <1>2, <1>3, <1>4, <1>5, JobContext DEF BmcInv, MutexInv
<1>7. ResultInv'
  BY <1>1, <1>2, <1>3, <1>4, <1>5 DEF BmcInv, ResultInv
<1>8. Top.claims[i].about \in Violating(FormulaOutcomes)
  <2>1. ClaimSatisfiable(i) /\ i \in 1 .. Len(Top.claims) /\ phase = "formula"
    BY <1>1, JobContext DEF BmcInv, ResultInv
  <2> QED BY <2>1, FormulaViolations
<1>9. SatInv'
  BY <1>1, <1>2, <1>4, <1>8 DEF BmcInv, SatInv, Violating
<1> QED BY <1>2, <1>6, <1>7, <1>9 DEF BmcInv

-----------------------------------------------------------------------------
(* The loop of bmct::run *)

(* When every job has ended, the result says what they found.              *)
LEMMA JoinPreserves ==
  ASSUME TreeInv, BmcInv, JoinJobs
  PROVE  BmcInv'
PROOF
<1>1. /\ at = "jobs" /\ at' = "solved" /\ res' = final_result
      /\ \A i \in DOMAIN job : job[i] \in {"reported", "done"}
      /\ UNCHANGED <<vars, config, interleaving_failed, job, final_result, result_mutex, reported,
                     unsolved>>
  BY DEF JoinJobs, RunReturns, solving, Ended
<1>2. /\ Top' = Top /\ FormulaOutcomes' = FormulaOutcomes /\ phase' = phase /\ checked' = checked
      /\ \A j : ClaimSatisfiable(j)' <=> ClaimSatisfiable(j)
  BY <1>1, FormulaStays
<1>3. /\ phase = "formula" /\ DOMAIN job = 1 .. Len(Top.claims)
  BY <1>1, JobContext
<1>4. config.multi_property /\ final_result \in {"SAT", "UNSAT"}
  BY <1>1 DEF BmcInv, PlaceInv
<1>5. PlaceInv'
  BY <1>1, <1>2, <1>3, <1>4 DEF BmcInv, PlaceInv
<1>6. MutexInv'
  BY <1>1 DEF BmcInv, MutexInv
<1>7. ResultInv'
  BY <1>1, <1>2 DEF BmcInv, ResultInv
<1>8. SatInv'
  <2>1. final_result = "SAT" => reported # {}
    BY <1>1 DEF BmcInv, ResultInv
  <2> QED BY <2>1, <1>1, <1>2 DEF BmcInv, SatInv
<1>9. ASSUME ~unsolved, NEW o \in Violating(FormulaOutcomes),
             final_result = "UNSAT" \/ ~config.fail_fast
      PROVE  final_result = "SAT" /\ o \in reported
  <2>1. PICK i \in DOMAIN job : ClaimSatisfiable(i) /\ o = Top.claims[i].about
    BY <1>3, FormulaViolations
  <2>2. job[i] # "done"
    BY <2>1, <1>1, <1>9 DEF BmcInv, ResultInv
  <2>3. job[i] = "reported"
    BY <2>1, <2>2, <1>1
  <2> QED BY <2>1, <2>3, <1>1 DEF BmcInv, ResultInv
<1>10. UnsatInv'
  <2>1. final_result = "UNSAT" /\ ~Forgotten => Violating(FormulaOutcomes) = {}
    BY <1>4, <1>9 DEF Forgotten
  <2> QED BY <2>1, <1>1, <1>2, <1>4 DEF BmcInv, UnsatInv, Forgotten
<1>11. ReportInv'
  <2>1. ~unsolved /\ ~config.fail_fast => Violating(FormulaOutcomes) \subseteq reported
    BY <1>9
  <2> QED BY <2>1, <1>1, <1>2 DEF BmcInv, ReportInv, Violating
<1> QED BY <1>5, <1>6, <1>7, <1>8, <1>10, <1>11 DEF BmcInv

(* The run returns with the first violation.                               *)
LEMMA ReturnEarlyPreserves ==
  ASSUME TreeInv, BmcInv, ReturnEarly
  PROVE  BmcInv'
PROOF
<1>1. /\ at = "solved" /\ at' = "returned" /\ res # "UNSAT" /\ ~config.all_runs
      /\ interleaving_failed' = (interleaving_failed \/ res = "SAT")
      /\ UNCHANGED <<vars, config, res, job, final_result, result_mutex, reported, unsolved>>
  BY DEF ReturnEarly, solving
<1>2. /\ Top' = Top /\ FormulaOutcomes' = FormulaOutcomes /\ phase' = phase /\ checked' = checked
      /\ \A j : ClaimSatisfiable(j)' <=> ClaimSatisfiable(j)
  BY <1>1, FormulaStays
<1>3. interleaving_failed' \in BOOLEAN
  BY <1>1
<1>4. PlaceInv'
  BY <1>1, <1>2, <1>3 DEF BmcInv, PlaceInv
<1>5. MutexInv' /\ ResultInv'
  BY <1>1, <1>2 DEF BmcInv, MutexInv, ResultInv
<1>6. SatInv'
  BY <1>1, <1>2 DEF BmcInv, SatInv
<1>7. UnsatInv'
  BY <1>1, <1>2 DEF BmcInv, UnsatInv, Forgotten
<1>8. ReportInv'
  BY <1>1, <1>2 DEF BmcInv, ReportInv
<1> QED BY <1>4, <1>5, <1>6, <1>7, <1>8 DEF BmcInv

(* The verdict on a formula is put with that on the interleavings before.  *)
LEMMA SetupPreserves ==
  ASSUME TreeInv, BmcInv, setup_next_formula
  PROVE  BmcInv'
PROOF
<1>1. /\ at = "solved" /\ at' = "symex" /\ job' = <<>>
      /\ res = "UNSAT" \/ config.all_runs
      /\ interleaving_failed' = (interleaving_failed \/ res = "SAT")
      /\ UNCHANGED <<config, final_result, result_mutex, res, reported, unsolved>>
  BY DEF setup_next_formula
<1>2. checked' = checked \cup FormulaOutcomes /\ FormulaOutcomes' = {}
  BY FormulaChecked DEF setup_next_formula
<1>3. interleaving_failed' \in BOOLEAN
  BY <1>1
<1>4. PlaceInv'
  BY <1>1, <1>3 DEF BmcInv, PlaceInv
<1>5. MutexInv' /\ ResultInv'
  BY <1>1 DEF BmcInv, MutexInv, ResultInv
<1>6. checked' \cup FormulaOutcomes' = checked \cup FormulaOutcomes
  BY <1>2
<1>7. SatInv'
  BY <1>1, <1>6 DEF BmcInv, SatInv
<1>8. ~interleaving_failed' /\ ~Forgotten => Violating(checked') = {}
  <2> SUFFICES ASSUME ~interleaving_failed', ~Forgotten PROVE Violating(checked') = {}
    OBVIOUS
  <2>1. ~interleaving_failed /\ res # "SAT"
    BY <1>1
  <2>2. res # "ERROR"
    BY <1>1 DEF BmcInv, UnsatInv, Forgotten
  <2>3. res = "UNSAT"
    BY <2>1, <2>2 DEF BmcInv, PlaceInv
  <2>4. Violating(checked) = {} /\ Violating(FormulaOutcomes) = {}
    BY <2>1, <2>3, <1>1 DEF BmcInv, UnsatInv
  <2> QED BY <2>4, <1>2 DEF Violating
<1>9. UnsatInv'
  BY <1>1, <1>8 DEF UnsatInv, Forgotten
<1>10. ReportInv'
  BY <1>1, <1>2 DEF BmcInv, ReportInv, Violating
<1> QED BY <1>4, <1>5, <1>7, <1>9, <1>10 DEF BmcInv

(* The run returns when all was explored.                                  *)
LEMMA ReturnLatePreserves ==
  ASSUME TreeInv, BmcInv, ReturnLate
  PROVE  BmcInv'
PROOF
<1>1. /\ at = "symex" /\ phase = "done" /\ at' = "returned"
      /\ res' = IF interleaving_failed THEN "SAT" ELSE res
      /\ UNCHANGED <<vars, config, job, final_result, result_mutex, reported, unsolved,
                     interleaving_failed>>
  BY DEF ReturnLate, solving, Verdict
<1>2. /\ Top' = Top /\ FormulaOutcomes' = FormulaOutcomes /\ phase' = phase /\ checked' = checked
      /\ \A j : ClaimSatisfiable(j)' <=> ClaimSatisfiable(j)
  BY <1>1, FormulaStays
<1>3. PlaceInv'
  BY <1>1, <1>2 DEF BmcInv, PlaceInv
<1>4. MutexInv' /\ ResultInv'
  BY <1>1, <1>2 DEF BmcInv, MutexInv, ResultInv
<1>5. SatInv'
  BY <1>1, <1>2 DEF BmcInv, SatInv
<1>6. UnsatInv'
  BY <1>1, <1>2 DEF BmcInv, UnsatInv, Forgotten
<1>7. ReportInv'
  BY <1>1, <1>2 DEF BmcInv, ReportInv
<1> QED BY <1>3, <1>4, <1>5, <1>6, <1>7 DEF BmcInv

(* Nothing happens.                                                        *)
LEMMA BmcStutterPreserves ==
  ASSUME BmcInv, UNCHANGED allVars
  PROVE  BmcInv'
PROOF
<1>1. UNCHANGED <<vars, config, at, job, final_result, result_mutex, reported, unsolved, res,
                  interleaving_failed>>
  BY DEF allVars, bmcVars, solving
<1>2. /\ Top' = Top /\ FormulaOutcomes' = FormulaOutcomes /\ phase' = phase /\ checked' = checked
      /\ \A j : ClaimSatisfiable(j)' <=> ClaimSatisfiable(j)
  BY <1>1, FormulaStays
<1>3. PlaceInv' /\ MutexInv' /\ ResultInv'
  BY <1>1, <1>2 DEF BmcInv, PlaceInv, MutexInv, ResultInv
<1>4. SatInv' /\ UnsatInv' /\ ReportInv'
  BY <1>1, <1>2 DEF BmcInv, SatInv, UnsatInv, ReportInv, Forgotten
<1> QED BY <1>3, <1>4 DEF BmcInv

(* Every step of the run preserves the invariant.                          *)
LEMMA BmcNextPreserves == TreeInv /\ BmcInv /\ [BmcNext]_allVars => BmcInv'
PROOF
<1> SUFFICES ASSUME TreeInv, BmcInv, [BmcNext]_allVars PROVE BmcInv'
  OBVIOUS
<1>1. CASE get_next_formula
  BY <1>1, ExplorePreserves
<1>2. CASE NoClaimRemains \/ run_decision_procedure
  BY <1>2, SolvePreserves
<1>3. CASE multi_property_check
  BY <1>3, JobsStartPreserves
<1>4. ASSUME NEW i \in DOMAIN job, Job(i) PROVE BmcInv'
  <2>1. /\ at = "jobs"
        /\ SolveClaim(i) \/ SolverThrows(i) \/ LockResult(i) \/ TestResult(i) \/ ReportTrace(i)
    BY <1>4 DEF Job
  <2> QED BY <2>1, SolveClaimPreserves, ThrowPreserves, LockPreserves, TestPreserves,
             ReportPreserves
<1>5. CASE JoinJobs
  BY <1>5, JoinPreserves
<1>6. CASE ReturnEarly
  BY <1>6, ReturnEarlyPreserves
<1>7. CASE setup_next_formula
  BY <1>7, SetupPreserves
<1>8. CASE ReturnLate
  BY <1>8, ReturnLatePreserves
<1>9. CASE UNCHANGED allVars
  BY <1>9, BmcStutterPreserves
<1> QED BY <1>1, <1>2, <1>3, <1>4, <1>5, <1>6, <1>7, <1>8, <1>9 DEF BmcNext

(* The invariant of the driver, for every order in which the jobs of a     *)
(* formula run and whatever the solver gives up on (bmc.cpp:405-450,       *)
(* 711-880): the mutex is held by the job between its lock and its unlock, *)
(* the result is that of the jobs that have reported, and the verdict so   *)
(* far is that on the outcomes checked so far.                             *)
THEOREM BmcInvariant == BmcSpec => []BmcInv
PROOF
<1>1. BmcInit => BmcInv
  BY BmcInitial
<1>2. TreeInv /\ BmcInv /\ [BmcNext]_allVars => BmcInv'
  BY BmcNextPreserves
<1> QED BY <1>1, <1>2, TreeInvOfDriver, PTL DEF BmcSpec

(* Every state of the driver is well typed: there is a job for each claim  *)
(* of the formula that is being solved, and the holder of the mutex is one *)
(* of them (bmc.cpp:711-880).                                              *)
THEOREM BmcTypeCorrect == BmcSpec => []BmcTypeOK
PROOF
<1>1. TreeInv /\ BmcInv => BmcTypeOK
  <2> SUFFICES ASSUME TreeInv, BmcInv PROVE BmcTypeOK
    OBVIOUS
  <2>1. TypeOK
    BY TreeTyped
  <2>2. job = <<>> \/ job \in [1 .. Len(Top.claims) ->
                              {"ready", "satisfiable", "locked", "reporting", "reported", "done"}]
    BY DEF BmcInv, PlaceInv, Places
  <2>3. result_mutex \in {0} \cup DOMAIN job
    BY DEF BmcInv, MutexInv
  <2>4. interleaving_failed \in BOOLEAN /\ unsolved \in BOOLEAN
    BY DEF BmcInv, PlaceInv
  <2> QED BY <2>1, <2>2, <2>3, <2>4 DEF BmcInv, PlaceInv, BmcTypeOK
<1> QED BY <1>1, BmcInvariant, TreeInvOfDriver, PTL

(* With --multi-fail-fast at most one job of a formula reports, however    *)
(* many claims can be violated and however the jobs overlap: the test of   *)
(* final_result and its update are under one lock (bmc.cpp:800-824).       *)
THEOREM FailFastTheorem == BmcSpec => []FailFastReportsOne
PROOF
<1> DEFINE reporters == {i \in DOMAIN job : job[i] \in {"reporting", "reported"}}
<1>1. BmcInv => FailFastReportsOne
  <2> SUFFICES ASSUME BmcInv, config.fail_fast PROVE Cardinality(reporters) <= 1
    BY DEF FailFastReportsOne
  <2>1. \A i, j \in reporters : i = j
    BY DEF BmcInv, ResultInv
  <2> HIDE DEF reporters
  <2>2. CASE reporters = {}
    BY <2>2, FS_EmptySet
  <2>3. CASE \E i : reporters = {i}
    <3>1. PICK i : reporters = {i}
      BY <2>3
    <3>2. Cardinality({i}) = 1
      BY FS_Singleton
    <3> QED BY <3>1, <3>2
  <2> QED BY <2>1, <2>2, <2>3
<1> QED BY <1>1, BmcInvariant, PTL

-----------------------------------------------------------------------------
(* The verdict *)

(* What the driver gives to the solver is an outcome of the program.       *)
LEMMA DriverChecksReal == BmcSpec => []CheckedReal
BY DriverExplores, CheckedIsReal, PTL

NoFalseAlarm ==
  /\ at = "returned" /\ res = "SAT" => ViolatedWithin(-1) # {}
  /\ reported \subseteq ViolatedWithin(-1)

(* What is reported, and what the verdict says is violated, is violated    *)
(* under some interleaving, with every option and whatever the solver      *)
(* gives up on (bmc.cpp:405-450, 711-880).                                 *)
THEOREM NoFalseAlarmTheorem == BmcSpec => []NoFalseAlarm
PROOF
<1>1. BmcInv /\ CheckedReal => NoFalseAlarm
  <2> SUFFICES ASSUME BmcInv, CheckedReal PROVE NoFalseAlarm
    OBVIOUS
  <2>1. reported \subseteq ViolatedWithin(-1)
    BY DEF BmcInv, SatInv, CheckedReal, Violating, ViolatedWithin
  <2>2. ASSUME res = "SAT" PROVE ViolatedWithin(-1) # {}
    <3>1. Violating(checked \cup FormulaOutcomes) # {}
      BY <2>2 DEF BmcInv, SatInv
    <3> QED BY <3>1 DEF CheckedReal, Violating, ViolatedWithin
  <2> QED BY <2>1, <2>2 DEF NoFalseAlarm
<1> QED BY <1>1, DriverChecksReal, BmcInvariant, PTL

(* The verdict of bmct::run is exact if the explorer misses nothing:       *)
(* nothing the driver and its jobs do to the answers, in any order, with   *)
(* any options, makes a violation of them, and only a claim that was left  *)
(* unsolved and forgotten loses one (bmc.cpp:405-450, 711-880).            *)
THEOREM VerdictExactTheorem == BmcSpec /\ []EveryOutcomeChecked => []VerdictExact
PROOF
<1>1. BmcInv /\ NoFalseAlarm /\ EveryOutcomeChecked => VerdictExact
  <2> SUFFICES ASSUME BmcInv, NoFalseAlarm, EveryOutcomeChecked, at = "returned"
               PROVE  /\ res = "SAT" => ViolatedWithin(-1) # {}
                      /\ res = "UNSAT" /\ ~Forgotten => ViolatedWithin(options.CS_bound) = {}
    BY DEF VerdictExact
  <2>1. ASSUME res = "UNSAT", ~Forgotten PROVE ViolatedWithin(options.CS_bound) = {}
    <3>1. phase = "done" /\ Violating(checked) = {}
      BY <2>1 DEF BmcInv, UnsatInv
    <3> QED BY <3>1 DEF EveryOutcomeChecked, Violating, ViolatedWithin
  <2> QED BY <2>1 DEF NoFalseAlarm
<1> QED BY <1>1, NoFalseAlarmTheorem, BmcInvariant, PTL

(* With --multi-property and --all-runs every violation the explorer's     *)
(* formulas hold is reported, and nothing else (bmc.cpp:729,               *)
(* slice.cpp:158-176).                                                     *)
THEOREM EveryViolationReportedTheorem ==
  BmcSpec /\ []EveryOutcomeChecked => []EveryViolationReported
PROOF
<1>1. BmcInv /\ NoFalseAlarm /\ EveryOutcomeChecked => EveryViolationReported
  <2> SUFFICES ASSUME BmcInv, NoFalseAlarm, EveryOutcomeChecked, at = "returned"
               PROVE  EveryViolationReported
    BY DEF EveryViolationReported
  <2>1. ASSUME config.multi_property, config.all_runs, ~config.fail_fast, ~unsolved
        PROVE  ViolatedWithin(options.CS_bound) \subseteq reported
    <3>1. phase = "done" /\ Violating(checked) \subseteq reported
      BY <2>1 DEF BmcInv, UnsatInv, ReportInv
    <3> QED BY <3>1 DEF EveryOutcomeChecked, Violating, ViolatedWithin
  <2> QED BY <2>1 DEF EveryViolationReported, NoFalseAlarm
<1> QED BY <1>1, NoFalseAlarmTheorem, BmcInvariant, PTL
=============================================================================
