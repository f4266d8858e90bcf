--------------------------------- MODULE Bmc ---------------------------------
(***************************************************************************)
(* esbmc/bmc.cpp: bmct::run takes interleaving after interleaving from the *)
(* explorer, has run_thread solve its formula, and puts one verdict        *)
(* together.  With --multi-property the formula is solved claim by claim,  *)
(* with --parallel-solving by one thread for each claim; what they share   *)
(* is final_result, the counterexamples and a mutex.  --multi-fail-fast    *)
(* wants one counterexample only.                                          *)
(*                                                                         *)
(* The solver is an oracle: it says what is true of a claim or, when       *)
(* solver_fails, gives up (P_ERROR) or throws.  Left out: the options that *)
(* only print the formula, --schedule, --interactive-ileaves,              *)
(* --cache-asserts, the coverage counters, and bidirectional_search.       *)
(***************************************************************************)
EXTENDS ReachabilityTree

CONSTANT Configs    \* the driver options to consider

ASSUME ConfigAssumption ==
  Configs \subseteq [multi_property : BOOLEAN, parallel_solving : BOOLEAN,
                     fail_fast : BOOLEAN, all_runs : BOOLEAN, solver_fails : BOOLEAN]

VARIABLES
  config,               \* the driver options, fixed
  at,                   \* the driver: "symex", "jobs", "solved", "returned", "aborted"
  job,                  \* claim |-> where its job is; <<>> outside multi_property_check
  final_result,         \* multi_property_check's result so far
  result_mutex,         \* the job that holds it, 0 when free
  res,                  \* what run_thread, or run, returned last
  interleaving_failed,  \* was some interleaving satisfiable?
  reported,             \* the outcomes counterexamples were shown of
  unsolved              \* did the solver ever give up?

solving == <<job, final_result, result_mutex, reported, unsolved>>
bmcVars == <<config, at, solving, res, interleaving_failed>>
allVars == <<vars, bmcVars>>

BmcInit ==
  /\ Init
  /\ config \in Configs
  /\ at = "symex"
  /\ job = <<>>
  /\ final_result = "UNSAT"
  /\ result_mutex = 0
  /\ res = "UNSAT"
  /\ interleaving_failed = FALSE
  /\ reported = {}
  /\ unsolved = FALSE

get_next_formula ==
  /\ at = "symex"
  /\ symex_step \/ SwitchPoint
  /\ UNCHANGED bmcVars

-----------------------------------------------------------------------------
(* run_thread *)

Violated(c) == ~c.vacuous /\ c.about[3] = 0

RunReturns(answer) ==
  /\ at' = "solved"
  /\ res' = answer
  /\ UNCHANGED <<vars, config, interleaving_failed>>

NoClaimRemains ==
  /\ at = "symex" /\ phase = "formula"
  /\ Top.remaining_claims = 0
  /\ RunReturns("UNSAT")
  /\ UNCHANGED solving

(* All claims at once.                                                     *)
run_decision_procedure ==
  /\ at = "symex" /\ phase = "formula"
  /\ Top.remaining_claims # 0
  /\ ~config.multi_property
  /\ \/ /\ RunReturns(IF \E c \in Range(Top.claims) : Violated(c) THEN "SAT" ELSE "UNSAT")
        /\ UNCHANGED solving
     \/ /\ config.solver_fails
        /\ RunReturns("ERROR")
        /\ unsolved' = TRUE
        /\ UNCHANGED <<job, final_result, result_mutex, reported>>

multi_property_check ==
  /\ at = "symex" /\ phase = "formula"
  /\ Top.remaining_claims # 0
  /\ config.multi_property
  /\ at' = "jobs"
  /\ job' = [i \in 1 .. Top.remaining_claims |-> "ready"]
  /\ final_result' = "UNSAT"
  /\ UNCHANGED <<vars, config, result_mutex, res, interleaving_failed, reported, unsolved>>

-----------------------------------------------------------------------------
(* One job of multi_property_check *)

Ended(i) == job[i] \in {"reported", "done"}

(* A thread of its own, or one after the other in the order of a hash set. *)
MayRun(i) ==
  \/ config.parallel_solving
  \/ \A j \in DOMAIN job \ {i} : job[j] = "ready" \/ Ended(j)

Goto(i, place) == job' = [job EXCEPT ![i] = place]

JobStep == UNCHANGED <<vars, config, at, res, interleaving_failed>>

(* claim_slicer keeps the i-th assertion of a copy of the equation.        *)
ClaimSatisfiable(i) == i \in DOMAIN Top.claims /\ Violated(Top.claims[i])

SolveClaim(i) ==
  /\ job[i] = "ready"
  /\ MayRun(i)
  /\ \/ /\ Goto(i, IF ClaimSatisfiable(i) THEN "satisfiable" ELSE "done")
        /\ UNCHANGED unsolved
     \/ /\ config.solver_fails
        /\ Goto(i, "done")
        /\ unsolved' = TRUE
  /\ JobStep
  /\ UNCHANGED <<final_result, result_mutex, reported>>

(* An exception that leaves a thread ends the process.                     *)
SolverThrows(i) ==
  /\ job[i] = "ready"
  /\ MayRun(i)
  /\ config.solver_fails
  /\ at' = "aborted"
  /\ UNCHANGED <<vars, config, solving, res, interleaving_failed>>

MutexFree_NoLock == TRUE

MutexFree == result_mutex = 0

LockResult(i) ==
  /\ job[i] = "satisfiable"
  /\ MutexFree
  /\ result_mutex' = i
  /\ Goto(i, "locked")
  /\ JobStep
  /\ UNCHANGED <<final_result, reported, unsolved>>

FoundByOther_AnyClaim == final_result = "SAT"

FoundByOther == config.fail_fast /\ final_result = "SAT"

AfterThrow_StillLocked == result_mutex

(* The lock guard goes with the exception.                                 *)
AfterThrow == 0

TestResult(i) ==
  /\ job[i] = "locked"
  /\ IF FoundByOther
       THEN Goto(i, "done") /\ result_mutex' = AfterThrow
       ELSE Goto(i, "reporting") /\ UNCHANGED result_mutex
  /\ JobStep
  /\ UNCHANGED <<final_result, reported, unsolved>>

ReportTrace(i) ==
  /\ job[i] = "reporting"
  /\ reported' = reported \cup {Top.claims[i].about}
  /\ final_result' = "SAT"
  /\ result_mutex' = 0
  /\ Goto(i, "reported")
  /\ JobStep
  /\ UNCHANGED unsolved

JoinJobs ==
  /\ at = "jobs"
  /\ \A i \in DOMAIN job : Ended(i)
  /\ RunReturns(final_result)
  /\ UNCHANGED solving

-----------------------------------------------------------------------------
(* The loop of bmct::run *)

ReturnEarly ==
  /\ at = "solved"
  /\ res # "UNSAT" /\ ~config.all_runs
  /\ at' = "returned"
  /\ interleaving_failed' = (interleaving_failed \/ res = "SAT")
  /\ UNCHANGED <<vars, config, solving, res>>

setup_next_formula ==
  /\ at = "solved"
  /\ res = "UNSAT" \/ config.all_runs
  /\ CheckAndBacktrack
  /\ at' = "symex"
  /\ job' = <<>>
  /\ interleaving_failed' = (interleaving_failed \/ res = "SAT")
  /\ UNCHANGED <<config, final_result, result_mutex, res, reported, unsolved>>

Verdict_OfLastInterleaving == res

Verdict == IF interleaving_failed THEN "SAT" ELSE res

ReturnLate ==
  /\ at = "symex" /\ phase = "done"
  /\ at' = "returned"
  /\ res' = Verdict
  /\ UNCHANGED <<vars, config, solving, interleaving_failed>>

Job(i) ==
  at = "jobs" /\ \/ SolveClaim(i) \/ SolverThrows(i) \/ LockResult(i)
                 \/ TestResult(i) \/ ReportTrace(i)

BmcNext ==
  \/ get_next_formula
  \/ NoClaimRemains \/ run_decision_procedure \/ multi_property_check
  \/ \E i \in DOMAIN job : Job(i)
  \/ JoinJobs
  \/ ReturnEarly \/ setup_next_formula \/ ReturnLate

(* A solver ends, and a thread that can run does.                          *)
Fairness == WF_bmcVars(\E i \in DOMAIN job : Job(i)) /\ WF_bmcVars(JoinJobs)

BmcSpec == BmcInit /\ [][BmcNext]_allVars /\ Fairness

-----------------------------------------------------------------------------
(* Properties *)

BmcTypeOK ==
  /\ TypeOK
  /\ config \in Configs
  /\ at \in {"symex", "jobs", "solved", "returned", "aborted"}
  /\ job = <<>> \/ job \in [1 .. Len(Top.claims) ->
                              {"ready", "satisfiable", "locked", "reporting", "reported", "done"}]
  /\ final_result \in {"SAT", "UNSAT"}
  /\ result_mutex \in {0} \cup DOMAIN job
  /\ res \in {"SAT", "UNSAT", "ERROR"}
  /\ interleaving_failed \in BOOLEAN
  /\ unsolved \in BOOLEAN

ViolatedWithin(bound) == {o \in OutcomesWithin[<<program, bound>>] : o[3] = 0}

(* With these options a formula or claim the solver gave up on can be      *)
(* forgotten (bmc.cpp:449, 800).                                           *)
Forgotten == unsolved /\ (config.multi_property \/ config.all_runs)

(* The verdict over all interleavings is exact: a violation is reported    *)
(* only if some interleaving has one, and none is said to exist only if no *)
(* interleaving within the context bound has one, unless a claim was left  *)
(* unsolved and forgotten (bmc.cpp:405-450, 711-880).                      *)
VerdictExact ==
  at = "returned" =>
    /\ res = "SAT" => ViolatedWithin(-1) # {}
    /\ res = "UNSAT" /\ ~Forgotten => ViolatedWithin(options.CS_bound) = {}

(* "verify satisfiability of all claims" (options.cpp:257): with           *)
(* --all-runs every violation of every claim gets its counterexample,      *)
(* whatever the order in which interleavings are explored and jobs end,    *)
(* although the claims of a common prefix are erased and jobs are counted  *)
(* by remaining_claims (bmc.cpp:729, slice.cpp:158-176).                   *)
EveryViolationReported ==
  /\ at = "returned" /\ config.multi_property /\ config.all_runs /\ ~config.fail_fast /\ ~unsolved
       => ViolatedWithin(options.CS_bound) \subseteq reported
  /\ at = "returned" => reported \subseteq ViolatedWithin(-1)

(* With --multi-fail-fast the jobs of a formula report one counterexample, *)
(* though several may find one at the same time (bmc.cpp:800-824).         *)
FailFastReportsOne ==
  config.fail_fast => Cardinality({i \in DOMAIN job : job[i] \in {"reporting", "reported"}}) <= 1

(* No job waits for ever for another: the check of a formula comes to an   *)
(* end, although a job may leave by an exception while it holds the mutex  *)
(* (bmc.cpp:800-842, 862-865).                                             *)
JobsEnd == at = "jobs" ~> at # "jobs"
=============================================================================
