# A TLA+ verification project for ESBMC

ESBMC is a bounded model checker for C, C++ and other languages. It compiles the
program under test to a goto program, executes it symbolically up to an unwinding
bound k (exploring the interleavings of its threads when it has some), turns each
interleaving into a formula over static single assignments, and asks an SMT solver
whether an assertion can fail. *Drivers* on top repeat that for growing k
(k-induction, incremental BMC, falsification, termination), in one process or in
four.

A wrong verdict rarely comes from one function. It comes from the order in which
processes report and die, from an option left over from the previous step, or from an
interleaving that an optimisation dropped. These models are about those parts.

All paths below are relative to `src/`, the repository.

## 1. Inventory

| Component | Code | State it keeps | Operations | Hard behaviour |
|---|---|---|---|---|
| Parallel k-induction driver | `src/esbmc/esbmc_parseoptions.cpp`, `doit_k_induction_parallel` | two pipes, per-child `k_step`, the parent's `*_finished`, `*_solution`, `a_result` | fork, one BMC run per k, `write`/`read` of a result, `waitpid`, question to the base case, kill, verdict | interleaving of four processes, crashes, end of file, a question that races with the loop it is about |
| Sequential strategies | same file, `doit_k_induction`, `doit_falsification`, `doit_incremental`, `doit_termination`, `do_*` steps | one option table shared by all steps, k | base case, forward condition, inductive step | stale options; an option set from inside a run |
| Thread interleaving explorer | `src/goto-symex/reachability_tree.cpp`, `execution_state.cpp` | stack of execution states; in each: program counters, dependency matrix, access sets, claim counts, context switches | step, switch point, partial-order reduction (MPOR), clone, backtrack | every missed interleaving is a missed bug; counters must survive cloning |
| BMC run | `src/esbmc/bmc.cpp` | result over interleavings, the set of claims of `--multi-property` | `run`, `run_thread`, `report_result`, `multi_property_check` | when to stop; parallel jobs over one result |
| pthread operational model | `src/c2goto/library/pthread_lib.c` | running and blocked thread counts, ended/joined flags, key lists | create, join, mutex, condition, key functions | deadlock is decided from two counters |
| Symbolic execution | `src/goto-symex/symex_*.cpp`, `builtin_functions.cpp` | call frames, guards, phi queues, unwinding counters | assign, goto, merge, call, claim, assume | when a loop is cut and by what |
| SSA equation and slicer | `symex_target_equation.cpp`, `slice.cpp` | list of SSA steps | append, convert, erase assertions, slice, push/pop | slicing away what a claim depends on |
| Goto program transformations | `src/goto-programs` | program graphs | conversion, instrumentation, loop havoc | havoc of all modified variables |
| Abstract interpretation | `src/goto-programs/abstract-interpretation` | abstract states per location | transfer, join, fixpoint | termination, overflow of bounds |
| Pointer analysis | `src/pointer-analysis` | value sets | assign, join, dereference | joins |
| Solvers, irep2/util, front ends, C library | `src/solvers`, `src/irep2`, `src/util`, `src/*-frontend`, `src/c2goto` | data structures | conversions | large input spaces, no protocol |

How they interact: a driver writes options and constructs a `bmct`; `bmct::run` asks
the `reachability_treet` for one formula after another; that one runs
`execution_statet::symex_step`, which executes one instruction of the active thread
(the pthread library's instructions included) and appends to the equation; the solver
answers; `report_result` prints a verdict line from the option table; the driver
moves on to the next step or k. Communication is by return values and shared options
inside a process, and by pipes, signals and exit status between processes.

What makes each correct: a driver's verdict is *true* and there is at most one; a
driver ends and leaves no process behind; the explorer's formulas contain every
outcome the threads can produce and no other; counters that decide whether a formula
is solved are exact.

`PROJECT.json` lists every component with its status and every hazard at its line.

## 2. Modules

| Module | Models | Correspondence |
|---|---|---|
| `VerdictSpec` | what every driver promises: one verdict, and it is true | abstract; no code |
| `KInductionParallel` | the four processes of `--k-induction-parallel` | one action per system call (`ReadResult`, `WaitChild`, `AskBaseCase`, `Exit`, ...) or whole BMC run (`CheckBaseCase`, `CheckProof`); `ppc` and `cpc` are the program points between them |
| `KInductionParallel_proofs` | theorems about it | |
| `Strategies` | the four sequential strategies | one action per step: early returns, option writes, run, verdict line, switch |
| `Strategies_proofs` | theorems about it | |
| `ThreadProgram` | one instruction of one thread as symbolic execution sees it, and the reference `Outcomes`: what every claim can see under any interleaving | operators only |
| `SetLemmas` | lemmas about numbers, sequences and their ranges, and an induction principle, used by the proofs below | no code |
| `ReachabilityTree` | the explorer | `execution_states` is the stack; `symex_step`, `SwitchPoint` (MPOR, choice, clone) and `CheckAndBacktrack` (solve, reset) are the three things `bmct::run` and `get_next_formula` do in turn |
| `ReachabilityTree_proofs` | theorems about it | |
| `Bmc` | the BMC run on top of the explorer (it EXTENDS `ReachabilityTree`): the loop over interleavings and the jobs of `multi_property_check` | `at` is where the driver stands, `job` where each claim's thread stands; `final_result`, `result_mutex`, `interleaving_failed` and `res` are the code's; one action per piece of a job between two accesses to what jobs share |
| `Bmc_proofs` | theorems about it, on top of those about the explorer | |
| `PthreadLib` | the pthread library under `--deadlock-check` | one operator per library function, from the state before to the state after; `lib` holds the library's globals under their names and the threads |
| `PthreadLib_proofs` | theorems about it | |
| `PosixThreads` | the reference: the same programs under POSIX, where a thread that cannot go on waits | operators only |
| `GotoProgram` | a sequential goto program and what it does when it runs (`Moves`, `Steps`): the reference for the next five modules | operators only |
| `IntervalDomain` | intervals and the abstract state of `--interval-analysis`: transfer functions, `Join`, extrapolation | operators only, one per method of `interval_domaint` and `interval_templatet` |
| `IntervalAnalysis` | the work-list fixpoint `ai_baset` over functions and calls, and the assumptions inserted from it | `visit` and `do_function_call` are one iteration of `fixpoint`; `Return` the end of a callee's fixpoint; `instrument_intervals` the rest; `stack` is the C++ call stack |
| `IntervalAnalysis_proofs` | theorems about it | |
| `KInduction` | the loop transformation of the inductive step | operators only; `goto_k_induction` from a program to a program |
| `Guards` | `guardt`: the conjuncts of a path condition, their common part and their disjunction | operators only |
| `Symex` | symbolic execution of one thread, up to k, for each of the three steps of k-induction | one action per instruction kind of `symex_step` (`GotoStep`, `AssumeStep`, `CallStep`, ...), `SkipInductive` and `Unreachable` for its early returns; `cur_state` and `SSA_steps` are the code's |
| `Symex_proofs` | theorems about it | |
| `Slice` | the equation as a list of SSA steps, and the slicers | operators only |
| `MC...` | values of constants | |

Operators named `..._Mutant` or with a suffix such as `_NoKill` are plausible
mistakes in the definition that follows them. They are used by nothing: putting one in
the place of the original makes the property named for it in `PROJECT.json` fail,
which is evidence that the property depends on that piece of code.

### Abstractions

*SMT answers are an oracle.* A program is reduced to `bug`, the least k at which a
violation is reachable (0: none). The base case is satisfiable at k exactly when
`bug # 0` and `bug <= k`. A proof at k by the forward condition or the inductive step
is possible only if `bug = 0` or `bug <= k`: the forward condition says that every
loop is unwound by k, the induction hypothesis needs a base case of k. That is what
makes a prover's answer useless until it has been confronted with the base case, and
it is the reason for the question protocol. `Strategies` adds `depth` (least k at which all
loops are unwound) and `spawn` (least k at which a thread creation or recursive call
is met), so that forward condition and base case are computed rather than chosen.

*KInductionParallel.* Messages fit in one `write`, so they arrive whole; a read of the
question pipe never blocks (the pipe is non-blocking). The Windows branch is left
out. A `SIGKILL` is a set of doomed children; a doomed child may still act until it
dies, including sending its result, as the kernel allows. `Uninit` is what the parent's
never-initialised `a_result` may hold when the pipe ends before any result came; it is
interpreted like a result (5.1). `heard`, whether the parent ever read a result, is history: it
guards nothing. A
child's front-end failure is the same for all three, being the same input. Whether a run
of the base case may end in an exception (`throws`) is likewise part of the program under test;
it leaves the loop as if there were no bug, so a SUCCESSFUL of such a session is worth no more
than UNKNOWN, and that is how the refinement maps it; so is a FAILED of a parent that heard no
child (`Worthless` names the two). What the children print is left out.

*Strategies.* `do_forward_condition` also returns early on
`disable-forward-condition` (line 1293), which nothing in these strategies sets.

*ReachabilityTree.* Threads run straight-line bodies of store, increment, load,
assert, assume, claim on a local, atomic begin/end, yield, spawn, join and end.
Branches inside a thread and phi merging are in `Symex`, for one thread; the culling of paths
at a switch is left out. An assumption that fails does not stop the
exploration of an interleaving (the code finds out only in the solver): it goes on and
its claims are vacuous, so `checked` leaves them out. When main ends and neither
`--memory-leak-check` nor `--deadlock-check` was given, the trampoline's `assume(false)`
makes the guard constant false, and the rest of the interleaving records nothing.
Access sets are recorded only once two threads exist, as in the code. Not
modelled: `--state-hashing`, `--schedule`, interactive and directed exploration,
monitor threads. By itself this module solves nothing and explores to the end.

*Bmc.* In a straight-line interleaving a claim has one value, so it is violated when that is 0
and no assumption before it failed. The polling loop `while(!solver_job.joinable())` is left
out because a thread just started is joinable: its body never runs. `solver_fails` lets the
solver give up in any call; in a job it may also throw, which ends the process, for that exception
leaves a `std::thread`. The order of jobs without `--parallel-solving` is that of an
`unordered_set`, so any order. `unsolved` and `reported` are history. Left out: the options
that only print the formula, `--interactive-ileaves`, `--cache-asserts` and
`bidirectional_search`.

*PthreadLib.* A thread is a straight line of library calls; `set` makes a predicate
true, and `await` is the loop `while(!predicate) pthread_cond_wait(c, m)`. Every atomic
block of the library is one step, since the explorer switches nowhere else in it. A
thread on which the library assumes false (after it blocked, or in an end while another
is blocked) has no step. The wake-up from a condition wait is always possible,
`nondet_bool` standing for the spurious one; the reference allows spurious wake-ups
too but counts a state as a deadlock if only such a wake-up leads out of it. In both,
the other threads go on when main returns, as they do in ESBMC. An assertion that
fails ends the interleaving.

*GotoProgram, IntervalDomain, IntervalAnalysis.* Instructions are declarations, assignments of
a constant, a variable, a variable plus a constant or an unknown value, gotos with
comparisons (and conjunctions and disjunctions of them), assumptions, calls and returns. An
absent bound of an interval is written 0, and a float is a whole number of units in the
last place, so that the two neighbours of a float, which is all the code asks of them, are one
apart. `fixpoint_map` counts how often an interval grew, as in the code. The working set is a
set, and any element may come out: the code keeps an `unordered_map`. Left out: typecasts in
conditions, bit and modular operators, wrapped intervals, `make_expression` of a bottom
state, and the simplification of assertions. `Executed` enumerates the real executions, against
which intervals and inserted assumptions are judged.

*KInduction.* Instruction lists are spliced as in the code (`insert_swap` moves the
instruction, so that jumps to it arrive at what was inserted), because that is what decides
where an assumption ends up. Left out: the second half of `adjust_loop_head_and_exit`,
pointers, and the names `check_var_name` turns away.

*Symex, Guards, Slice.* The unknown inputs of a program are a `World`, a number that fixes all
of them; an expression is its value in every world, together with the symbols it names and
whether simplification makes it a constant. So the equation needs no solver: a claim is
satisfiable if some world satisfies the assumptions up to it and not the claim. Arithmetic is
modulo `2^Width`. Guards are sets of conjuncts where the code has lists and
`std::set_intersection`, which on an unsorted list may find fewer common conjuncts. All
variables are global, conditions are comparisons, and pointers, dereferencing, exceptions,
threads and floats are left out. A goto to itself is cut by an assumption, as in the code
(`symex_goto.cpp:78-98`), and the reference takes it as the end of the execution: the forward
condition may hold of a program that spins there for ever.

## 3. What is checked

### Runs that pass

- **kind_parallel**: every interleaving of parent and children at `MaxKStep = 3`,
  with child crashes at any point, a front end that rejects the program, exceptions in the
  base case, and garbage of every kind in `a_result`: no type, a proof, "no bug", a bug.
  `SuccessSound` and `HeardFailureSound` relate the parent's verdict to the program,
  `VerdictRefinement` states both as an implementation of `VerdictSpec`, `NoOrphans` covers
  every way the parent can stop (verdict, `abort`, `SIGPIPE`), and `Terminates` is liveness under
  fair scheduling. About 1.2 million states.
- **strategies**: all strategies, `--k-step` 1 to 3, `MaxKStep = 5`, all
  combinations of bug, depth, spawn and the user's `--no-assertions`, with a solver
  that may fail in any step. `UnknownIsHonest` says that giving up is never hasty;
  `DisabledStepProvesNothing` that a step found unsupported is not presented as a proof.
- **reachability_tree**: `Bmc` over the explorer. With every formula solved as a whole and
  `--all-runs`: default options on 245 programs with two spawned threads, and `--no-por
  --context-bound 3` on 56 of them. At the end of the search the set of outcomes in solved formulas is compared
  with the reference (with a bound: the outcomes within three switches), in both directions.
  `NoInterleavingTwice` says that interleavings come in strictly increasing lexicographic order,
  from which the end of the search follows too (there are finitely many); `ClaimsCounted`
  that `remaining_claims`, which decides whether a formula is solved at all, equals the
  assertions in the equation at every level. On 8 programs with claims in several threads, two of which fail only
  together, the other ways of solving: `VerdictExact` compares what `run` returns with the
  reference, `EveryViolationReported` the counterexamples of `--multi-property`;
  `FailFastReportsOne` and `JobsEnd` are about the jobs and their mutex. About 590 thousand states.
- **pthread_lib**: 90 programs of main and two threads. `EveryDeadlockReported`
  compares the library with the reference program by program: of each program that can
  deadlock, some interleaving must fail a deadlock assertion in a state that is a deadlock,
  unless all its deadlocks are `Abandoned`, and then none may (two programs; see the end of section 5).
  `CountsExact` ties the two counters the assertion compares to the threads,
  `MutualExclusion` covers a mutex given up and taken again around a condition wait.
- **interval_analysis**: branches, floats, loops with and without a bound, and nested calls of
  one function from several places, under four settings of the arithmetic and extrapolation
  options. `NothingForgotten` says in every state that a location outside all working sets has had
  its state carried along its edges; at the end `IntervalsSound` and `AssumptionsHold` compare with
  the executions, and `OrderDoesNotMatter` with the least fixpoint. `Terminates` covers loops that
  only extrapolation can end. About 62 thousand states.
- **symex**: eight families of programs (nested branches, loops of every shape, one after and
  inside the other, functions that return early, recursion), k from 1 to 3, in the steps of k-induction
  each family is sound for. `OnePathPerInput` and `SymbolsAssignedOnce` hold at every step; at the
  end the satisfiable claims are compared with the executions that turn no loop k times
  (`BaseCaseExact`), the unwinding assertions with whether an execution goes further
  (`ForwardConditionExact`), and a proof by the inductive step with all executions
  (`InductiveStepSound`). These discharge, for one thread, what the drivers' models assume of
  an SMT answer. `SlicedEquationClosed` slices the finished equation in the three ways of the code.
  Deadlock is checked here, and the graph of states is finite: every execution ends.

### Bounds and why they are enough

| Bound | Value | Why |
|---|---|---|
| `MaxKStep` (parallel) | 3 | provers start at 2, so a proof at 2 is conclusive, one at 3 = `max_k_step` meets the sentinel, and a base case may be ahead, level or behind; the theorems remove the bound |
| `bug` (parallel) | 0 .. MaxKStep + KStep | beyond the last k any process can try, and so also "present but out of reach"; with exceptions 0 and 2 only, since there the question is how the session ends |
| `Uninit` | 4 values | one for each thing line 711 and the tests behind it can make of garbage: abort, a proof, "no bug", a bug; the theorems remove the bound |
| `MaxKStep`, `MaxIncrement`, `MaxInductive` | 5, 3, 4 | several full rounds of three steps for each increment, and k beyond the last allowed inductive step |
| threads, variables, instructions | 3, 2, up to 5 | two accesses conflict in three ways (WW, RW, WR); a chain of dependencies through a third thread needs three threads and two variables |
| `CS_bound` | 3 | main to A to B and back: enough to be hit in the middle of every program |
| mutexes, condition variables | 2, 1 | the smallest lock-order deadlock, and a deadlock by a join or a wait with a mutex held |
| waiters (`PthreadLib`) | 1 | `pthread_cond_signal` of the library wakes every waiter, so with two a program may deadlock by a lost signal and the library not; that hazard is listed as open |
| `MaxDepth` | 40 | above the longest shortest path to any state of these programs (calls, plus a wait and a wake-up for each); the frontier of the search is empty before |
| `Depth` (intervals) | 30 | layers of executions of the reference; a bounded loop ends within them, and an open one has by then passed every constant of its program |
| `IntVars`, `FloatVars`, `Nondet` | 2, 1, 3 values | a relation between two variables, one below, at and above the constants |
| `Width`, `Inputs`, `Vars` (symex) | 2, 3, 2 | values wrap around within a loop; three unknowns are more than a path of these programs reads within k |
| `Depth` (symex) | 60 | the last layer is empty for every program: the reference is complete |
| k (symex) | 1 to 3 | k = 1 enters no loop twice, 2 and 3 differ in which claims of the inductive step are assumed |
| a body is spawned at most once | | bounds the interleavings by construction, and lets the reference be a finite number of layers |

Deadlock checking is off, except in the runs of `Symex` (where `Terminating` is the only
way to stay), because every modelled driver really stops, and so does an interleaving that
ends, fails an assertion or is discarded.

### Fairness

`KInductionParallel`, `IntervalAnalysis` and `Bmc` have a liveness property. In the first, the operating
system schedules every runnable process (weak fairness of the parent, and of each child), and one
BMC run ends, being bounded. Nothing obliges a child to crash, and a front-end failure is part of the
program. A read with an open, empty pipe is a disabled action, not a stutter that
fairness could force. `IntervalAnalysis` is one sequential computation: `Fairness` is the weak fairness
of `Next`, written out with `Done` for "`Next` is not enabled" because TLC is slow in
finding that out. In `Bmc` the operating system schedules the threads of the jobs, and a solver call
ends; the fairness is that of the jobs as a whole, which is enough as each takes finitely many steps.

## 4. What is proved

TLAPS checks what follows for every value of the constants: any number of threads,
variables, claims, inputs, any bound, not only those of the runs. `PROJECT.json` lists the
theorems with the properties they state.

**What the proofs assume of the constants.** Each assumption is a named `ASSUME` that TLC
evaluates on the instances of the runs.

- `ParamAssumption`, `ConfigAssumption`: options are options, bounds are numbers.
- `ProgramAssumption` (`ReachabilityTree`, `PthreadLib`, `Symex`, `IntervalAnalysis`): a program is one a front end can
  produce; jumps, calls and names lead somewhere, and in `Symex` no variable is called `guard` or `nondet`, the names
  that stand there for the symbols of branches and inputs. In `Symex` it also says this of the *output* of
  `goto_k_induction`: the transformation is a recursion over the program text, which the prover
  cannot follow, so that it keeps programs well formed is checked by TLC on every case.
- `ReferenceAssumption` (`IntervalAnalysis`): unknown inputs are integers, and the reference follows executions for some
  number of steps, any one.
- `ReferenceAssumption` (`ReachabilityTree`): the reference is computed in enough layers that no thread can
  go on in the last one. It is about the reference and not about the code; that a sum of lengths suffices is an induction
  over data.

**Parallel driver** (`KInductionParallel_proofs`).

- `TypeCorrect`, `InvariantHolds`: the session is well typed and `IInv` is inductive.
- `SuccessTheorem`: SUCCESSFUL implies no violation, for `--k-step 1`, of a session
  whose base case does not throw (`Lockstep` names the two in the invariant). Crashes and
  front-end failures are allowed.
- `FailureTheorem`: FAILED implies a violation once the parent has heard a child
  (`HeardFailureSound`). Any `--k-step`, any fault, any garbage.
- `NoOrphansTheorem`: no assumption but the constants'.
- `VerdictRefinementTheorem`: the session implements `VerdictSpec`, under `--k-step 1`, with
  the verdicts that are `Worthless` taken for UNKNOWN.

Nothing is assumed of `Uninit` but that it is a set of results; `FailureSound` without `heard` is false (5.1).

"The verdict is true" is not inductive: it
depends on what messages in flight say. `IInv` gives each holder of information a
conjunct. `BaseCaseInv`: the base case has refuted every k below its own, and its bound
never drops below a bug that `--max-k-step` would have reached. `PipeInv`: every result
in `forward_pipe` is a `GoodResult`, every question in `backward_pipe` is about a
possible proof. `ParentInv`: what a parent that has heard a child holds comes from results
(`HeardResults`); what one that has not holds is nothing, or garbage met when no child is left
(`HeardNothing`), and in that case there is nobody to be asked, and no SUCCESSFUL, which takes two
solutions. `NoOrphans` is inductive together with these.
`ChildFrame`, `ChildResults` and `ParentResults` say what a step of either side does to them;
`ConcludeSound` draws the verdict.

**Sequential drivers** (`Strategies_proofs`): `StrategiesTypeCorrect`; `StrategiesRefineVerdict`, they implement
the same `VerdictSpec`, when no spawn is hidden from the base case and
`--multi-property` is off; `UnknownTheorem`, UNKNOWN is said only when no step of any k within the bound could have
decided; `DisabledStepTheorem`, under the same condition on spawns. The invariant is `StepInv`: before each step, what the
previous ones have refuted and which options they must have left behind.

**Explorer** (`ReachabilityTree_proofs`). `ClaimsCountedTheorem`, `NoInterleavingTwiceTheorem`, `TreeTypeCorrect`,
the action property `PathsIncrease`, and `OnlyRealOutcomesTheorem`: whatever the reduction, the bound and
backtracking do, no outcome is invented.
The properties look at the top of the stack, but a backtrack makes any state of it the top again, so the
invariant `TreeInv` speaks of all of them: `StackInv`, what an execution state at level m
is (its path has m threads, its count is that of its claims); `PathInv`, each state was reached from the one below by a
thread lower than every one that is still to be tried there; `OrderInv`, the interleaving completed last is
lexicographically before the one on the stack. For `OnlyRealOutcomes` `RealInv` adds that every state
in which no assumption has failed is a configuration the reference reaches; the proof
maps each step of the explorer to the same step of the reference, which switches after every instruction.

**BMC run** (`Bmc_proofs`). `DriverExplores`: `BmcSpec` implements the explorer's `Spec`, so all of the above
holds under the driver. `BmcTypeCorrect`, `FailFastTheorem` and `NoFalseAlarmTheorem` (what is reported, or said to be
violated, is) have no premise. `VerdictExactTheorem` and `EveryViolationReportedTheorem` have one,
`[]EveryOutcomeChecked`: the driver is exact provided the explorer misses nothing. That premise is the property the
run `reachability_tree` checks, and the run `reachability_tree_nested` shows where it is false. The invariant `BmcInv`
says who holds `result_mutex` (`MutexInv`), that `final_result` is the disjunction of the jobs
that have reported, with at most one of them past the lock under `--multi-fail-fast` (`ResultInv`), and
what the verdict so far says of the outcomes checked so far (`SatInv`, `UnsatInv`).

**pthread library** (`PthreadLib_proofs`). `CountsExactTheorem`: the two counters of the deadlock assertion
are the threads they stand for. `MutualExclusionTheorem`: a mutex has one holder, in
programs whose threads release only what they locked (`OnlyOwnersRelease`, which `OwnersAssumption` checks of
all programs of the runs); for such programs `NoFalseOwnershipAlarm` says that the library's own assertions on unlocking
do not fail. The invariants are `PthreadInv` (threads are numbered without gaps, a thread in a wait
is at a wait call, the counts) and `OwnershipInv`: `Balance`, locks minus unlocks in the part of a body already run, is
0 or 1, is 1 for one thread at most, and then the flag is set. Without the part about the flag
a wake-up from a condition wait could take a mutex twice.

**Symbolic execution** (`Symex_proofs`). `SymbolsAssignedOnceTheorem` and `OnePathPerInputTheorem`, for every
program, k, number of inputs and step of k-induction. The invariant `SymexInv` has three parts. `NamesInv`: every symbol of the
equation has a number not above its counter. `StackOK`: what was put aside in a frame waits in the function of that frame, and
ahead of the place control returns to, so that nothing is put aside where control has passed. `PathsOK`: in each frame
the guard at hand (for a frame below the top, the guard its callee was entered with) and the guards of the
states put aside divide the inputs that entered it. The last one needs to know what guards mean:
operator `|=` turns a literal and its opposite into the constant true, which is right only if both are
sides of one branch, so the invariant carries `sides`, where the condition of every branch so far
holds, and `GuardOK`, that each literal of every guard agrees with it. `OrIsDisjunction` then says that `|=` is a
disjunction, `BranchKeeps` that a branch divides, `MergeAll` that a join of any number of states unites.
The handlers are functions from configurations to configurations, so there is a lemma for each handler, and
`NextInv` has one case per action. Folds over sets and lists (`phi_function`, `assign_each`,
`merge_gotos`) are handled by `FoldExists` and `FoldInduction`, an induction on the size of the set.

`SlicedEquationClosedTheorem`: a slice never drops an assignment that a step it keeps depends on. That the slicer is right
needs two facts about what it is given, and neither is in the slicer. Each symbol is assigned once (above), else an assignment
could be kept and an earlier one of the same symbol go. And no step names a symbol that it or a later step assigns
(`AssignedFirst`), else the pass, which goes backwards and forgets a symbol at its assignment, would go past one that is
needed; for the slice behind the last claim this is all there is to show. `AssignedFirst` is not inductive: a phi, a
guard that is joined or returned to, an assumption name symbols that were put aside many steps ago. So `SymsInv` says of
the guard at hand, and of every state put aside in every frame, that what they name has been given out (`Named`). Names
given out stay so (`NamedStays`), and what is assigned next is one above its counter, so nothing has named it
(`StepSyms`). `SliceStepKeeps` is the invariant of the pass: what the kept steps name is assigned by kept steps, or still in
`depends`. The slice for one claim runs on an equation that was sliced before; `SliceClosed` is stated for any closed equation,
so it applies twice.

**Interval analysis** (`IntervalAnalysis_proofs`). `IntervalTypeCorrect`, for every program and all options, and
`NothingForgottenTheorem`: however the unordered working set hands out its locations, and through loops, extrapolation,
nested calls and recursion, what is not pending has been carried along all its edges. The invariant `AnalysisInv` says
what the states are, that the stack is a chain of calls with each working set inside the function its
fixpoint is for, and that every location is pending or `Carried`. Two facts about the code make the last part inductive.
`JoinContains`: a join contains both its arguments (each of `JoinMap`'s cases does, extrapolation
included), and one that reports no change has changed nothing. `Grown`: in a step states only grow, and each one that
changes is put in a working set, so what was carried stays so (`CarriedStays`). `Advances` says this of an edge,
a visit (`VisitedCarries`; the fold over the edges unfolds into at most two merges, by `LeftFoldExists`) and the return from a
callee (`ReturnAdvances`); `TopReplaced`, `Pushed` and `Popped` say what the three shapes of step do to the stack.
The two hypotheses are needed: narrowing takes intervals back (`Interpolate` does not contain its arguments), and a
join in which the integers grew does not join the floats (section 5), so a program is to have variables of one kind
(`OneKind`). That states are a post-fixpoint is not yet that
they are sound: for recursive programs the theorem holds and `AssumptionsHold` does not, because there it is the edge out of
the callee that is missing.

`IntervalsSoundTheorem` and `AssumptionsHoldTheorem` close that gap: when the analysis is done, no execution, however
long, leaves the intervals, and no assumption inserted removes one. They hold of the programs and options that are `Plain`:
no narrowing and one kind of variable, as above; `Width = 0`, because the analysis reckons with unbounded integers where the
program's may wrap around (with `Width > 0` and `--interval-analysis-arithmetic` the interval of `x + 1` is wrong); and `Layered`. That is two things: no
function calls itself, not even through others (`CallOrder`), and no variable a call returns into is named by what runs
during the call (`ReturnsApart`). Neither can be dropped: `RecursiveCases` and `OverwritingCases`
(section 5.5) are the counterexamples. `PlainCases` has TLC evaluate, on every case of the passing run, what the
theorems assume of it (`Layered` is true of all but `CallsIntoRead`).

The argument. *One instruction*: `EffectAdmits`, what an abstract state admits before an instruction, its effect admits
after it, comparison by comparison of an assumption (`AssumeLessAdmits`, `AssumeCmpAdmits`) and through its conjunctions and
disjunctions; with `Refines`, so does every state it was carried to (`CarriedAdmits`). *One function*: a `Run` is a
function, the values it was entered with, a location of it and the values there; `Real` is the least set of runs `Closed`
under entering, a step, and a call whose callee has a run to its end. Least sets replace induction over executions, which
the prover has no way to state: to show that the states admit all real runs, show that the runs they admit are a closed
set (`FunctionAdmits`). *One call*: the analysis merges all calls of a function into one state, and forgets the returned-into
variables on the way in, so the state at the end of the callee need not admit the values of this call but those
of the same run with other values of these variables. `RunsApart` says that this too is a run, since
nothing in it names them, and that is where `ReturnsApart` is used. So a call is `Summarized` (what it can return is admitted
behind it) once its callee is `Complete` (all its locations carried, all its calls summarized) and its end carried behind the
call (`CallSummarized`). *The analysis*: `SoundInv` says that each call is summarized unless it is pending or the stack is
inside it. When a callee's fixpoint ends, nothing below it in the order of calls is pending or in progress
(`BelowIsQuiet`, by `StackChain`), so it is complete, which summarizes the call that started it; and a summary stays good
while states grow, unless the state at the call does, and then the call is pending (`SummarizedStays`). *Executions*: `Traced`
splits a configuration with its stack of calls into one real run per function being executed, each admitted where it was
entered; a step, a call and a return keep that (`TraceLocal`, `TraceCall`, `TraceReturn`), so all layers of the
reference `Steps` are admitted (`StepsStay`).

**Only model-checked**, and why.

- `Terminates`, `JobsEnd`: liveness under fairness is outside the prover.
- `EveryOutcomeChecked`, `EveryDeadlockReported`: a statement about all interleavings of a program,
  for each of which another one with the same outcome must be constructed: an induction over executions (data) that
  partial-order reduction is built on.
- `BaseCaseExact`, `ForwardConditionExact`, `InductiveStepSound` compare with the executions of the program, and `LoopConversionEnds`
  is about a recursion over program text.
- `TypeOK` of `Symex`: that `Inputs` unknowns suffice depends on the programs.
- `OrderDoesNotMatter` compares the analysis with a least fixpoint computed in rounds; that the rounds suffice is an
  induction over data.

## 5. Where code and documentation disagree

Each of these is a run that is expected to be violated, with the trace TLC finds.

1. **kind_parallel_garbage.** `esbmc_parseoptions.cpp:637` says of the end of the children's pipe
   "continue on, but don't interpret the result", and line 711 interprets it. If all children leave
   without a result, as they do when parsing fails, `a_result` is what the stack held at line 623; type 0 is
   `BASE_CASE`, and the parent says FAILED of a program nobody has checked. In the passing run
   `HeardFailureSound` shows that this is the only way to a false FAILED.
2. **strategies_hidden_spawn.** The run that disables the inductive step is accepted as a proof
   if it is the first to meet the spawn.
3. **reachability_tree_nested.** When a spawned thread spawns another, `add_thread` writes
   "has not run yet" into rows of threads that have run; the reduction then rejects an
   order that is not equivalent to any other, and a failing assertion is in no formula.
   The main run therefore has all its threads spawned by main.
4. **pthread_lib_false_alarm.** `blocked_threads_count` is not taken back when the mutex
   a thread was counted for is released. A consumer that then enters a condition wait
   finds everybody "blocked", and a correct program is reported as deadlocked.
5. **interval_analysis_recursion.** While the fixpoint of a function runs, its end is still bottom,
   which a recursive call takes for "exit point not reachable". What follows the inner call is not
   analysed again, and the assumption behind the outer call excludes what the program does. The
   passing run has calls of functions, nested and repeated, but no recursion. With `Cases <- OverwritingCases` in
   the cfg the same property fails in another way: `ai_domain.h:30-32` wants the edge out of a callee to set the left-hand side
   of the call ("this also needs to set the LHS, if applicable"), but `transform` forgets it on the edge *into* the callee
   (`interval_domain.cpp:683-690`) and does nothing on the edge back. After `x = f()` with an f that assigns
   or tests x, x has the interval f left it with and not one of the value returned. In the passing run f reads what it is returned
   into (`CallsIntoRead`) but learns nothing of it that the returned value does not satisfy.
6. **symex_inductive.** The entry condition of a loop is assumed where it was found, not
   before the loop: for a `break` in the middle of the body that is in every iteration, and the
   code behind the loop becomes unreachable in the inductive step. With `Cases <- SequentialCases` or
   `NestedCases` in the cfg the same property fails in two more ways: the entry condition of a loop
   that may not be entered at all is assumed, and in nested loops a claim is turned into an
   assumption by the iterations of the outer loop only (`symex_main.cpp:54-62`). The passing run checks
   these families in the base case and the forward condition.

Seen while modelling, without a run of its own:

- `pthread_lib.c:175-177` says "A thread terminating during a search for a deadlock means there's no deadlock or it
  can be found down a different path. Proof left as exercise to the reader." Not so after a condition wait.
  `do_pthread_cond_wait` takes its mutex again with `pthread_mutex_lock` (line 608), in the precompiled library
  the variant that assumes the mutex free and counts nothing (`clang_c_language.cpp:84-91`). If that is where a
  thread gets stuck, because the thread that woke it ended with the mutex, no interleaving reports it. The run
  pthread_lib has two such programs (`HoldingPrograms`), and `EveryDeadlockReported` states it as it is:
  deadlocks that are all `Abandoned` are reported by none, all others are.
- With `--k-step 3 --max-k-step 6` the base case of the parallel driver tries 1 and 4 and ends with
  "no bug"; a proof at k = 5 is then presented although k = 5 was checked by nobody
  (`esbmc_parseoptions.cpp:857`, 743). With `KStep = 3` and `MaxKStep = 6` `SuccessSound` fails;
  that is why the theorem assumes `KStep = 1`.
- A prover child prints VERIFICATION SUCCESSFUL from its own `report_result`
  (`bmc.cpp:349-352`), before the base case is asked.
- With `--multi-property` a claim the solver gave up on (`P_ERROR`) counts as proved: nothing but a
  satisfiable answer changes `final_result` (`bmc.cpp:800`), so the verdict can be VERIFICATION
  SUCCESSFUL where a run that solves the formula as a whole says "SMT solver failed". With `--all-runs` the same happens
  to an interleaving followed by one without a violation (`bmc.cpp:449`). `VerdictExact` fails without `Forgotten`.
- `--multi-fail-fast` "stops after first VCC violation" (`options.cpp:158`), but the loop that would stop
  the other jobs never runs: they are solved to the end and only their counterexamples dropped.
- `ce_counter` starts at 0 for every interleaving (`bmc.cpp:722`), so with `--all-runs` and `--cex-output`
  a later counterexample overwrites the file of an earlier one.
- At `--context-bound` a thread that has ended is still switched away from, so `CS_number`
  passes the bound, which `reachability_tree.h:107` says it does not. The completeness check with a
  bound is not affected: its reference counts every switch.
- `interval_domaint::join` is `join(int) || join(real) || join(wrapped)`: when the integers grew, the
  floats are not joined. `MixedCases` of `MCIntervalAnalysis` violates `IntervalsSound`.
- `--interval-analysis-narrowing` together with extrapolation undoes what was widened, and then need not
  end; `narrowing` is FALSE in every case.
- The test in `instrument_intervals` for the location behind a call asks for a guard that no call
  has, so that branch is never taken. `--interval-analysis-extrapolate-limit` says its default is 5
  and sets 1.
- Two activations of a function share the counter of a loop in it
  (`symex_goto.cpp:100`), so a recursion from inside a loop can keep resetting it and need not end
  under `--unwind`. The recursive family calls from outside a loop.
- `marked_branch` (`goto_k_induction.cpp:163-164`) remembers only whether the two sides differ, so the
  condition of an if-then-else in front of a `break` can be assumed as well.
- `--slice-assumes` may drop an assumption that is false, as its own TODO asks
  (`slice.h:160`).

## 6. Plan

Done: the drivers, the explorer and the BMC run over it, the core of the pthread library, the interval analysis, one-threaded
symbolic execution with the loop transformation and the slicers.

Next theorems: the values of a phi, that is, what a variable holds after a join in each input.

Next modules, if there is room for their runs:

1. The rest of the pthread library: keys (in `ThreadProgram` too, since `search_key`
   leaves its atomic block open and the thread is never switched away from again),
   reader-writer locks, `trylock`, destroy and detach; two waiters with a signal that
   wakes one.
2. Value-set joins (`pointer-analysis`), state hashing in `ReachabilityTree`, push and pop of the
   runtime-encoded equation.

## 7. Not modelled

Most of the repository's lines are not the program: `regression/` holds the C, C++ and Python programs
ESBMC is tested on, and large parts of `src/` are vendored or generated. Of the rest, front ends, goto
conversion and instrumentation, solver wrappers, expression data structures and the C library other than
threads are translations over large inputs, without interleaving or protocol; the repository's
regression and unit tests are the better instrument for them. `--memory-leak-check`, floating-point and
bit-precise arithmetic, memory layouts and dereferencing are about C semantics and would need a model of it.
