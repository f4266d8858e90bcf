-------------------------- MODULE ReachabilityTree --------------------------
(***************************************************************************)
(* goto-symex/reachability_tree.cpp and execution_state.cpp: the explorer  *)
(* of thread interleavings.  execution_states is the stack of the          *)
(* depth-first search, one execution state per context switch point of the *)
(* current interleaving.  get_next_formula runs the top state up to a      *)
(* switch point, lets the partial-order reduction (MPOR) reject the        *)
(* transition or picks the lowest thread not yet tried from there, and so  *)
(* on to the end of an interleaving, whose formula bmct::run solves before *)
(* reset_to_unexplored_state backtracks.                                   *)
(*                                                                         *)
(* Paths inside a thread are straight lines: phi merging and the culling   *)
(* of paths at a switch are symex's business.  An interleaving found to    *)
(* be infeasible is explored on, and claims nothing.                       *)
(***************************************************************************)
EXTENDS ThreadProgram, FiniteSetsExt, SequencesExt

CONSTANTS
  Programs,   \* the programs under test
  Vars,       \* their shared variables
  Options     \* CS_bound: --context-bound, -1 when not given; por: ~ --no-por

ASSUME ParamAssumption == Options \subseteq [CS_bound : Nat \cup {-1}, por : BOOLEAN]

(* A body is a sequence, names only shared variables that exist, and       *)
(* spawns only bodies that exist; main has one.                            *)
ASSUME ProgramAssumption ==
  \A p \in Programs :
    /\ 1 \in DOMAIN p.bodies
    /\ \A b \in DOMAIN p.bodies :
         /\ Len(p.bodies[b]) \in Nat
         /\ DOMAIN p.bodies[b] = 1 .. Len(p.bodies[b])
         /\ \A n \in DOMAIN p.bodies[b] :
              LET i == p.bodies[b][n]
              IN  /\ i.op \in {"store", "inc", "load", "assert", "assume"} => i.x \in Vars
                  /\ i.op = "spawn" => i.x \in DOMAIN p.bodies

VARIABLES
  program,            \* the program under test
  options,            \* the options it is explored with
  execution_states,   \* the stack; the last one is *cur_state_it
  phase,              \* "symex", "formula" (an interleaving is complete), "done"
  checked,            \* outcomes of the claims in the formulas solved
  last_path           \* the interleaving whose formula was built last

vars == <<program, options, execution_states, phase, checked, last_path>>

Top == execution_states[Len(execution_states)]
Lower == SubSeq(execution_states, 1, Len(execution_states) - 1)

SharedVar == Vars \cup {LibVar}

-----------------------------------------------------------------------------
(* One execution state *)

InitialState ==
  [conf |-> InitialConf(program, Vars),
   active_thread |-> 0,
   CS_number |-> 0,
   DFS_traversed |-> {},                     \* the threads marked true
   thread_last_reads |-> [t \in {0} |-> {}],
   thread_last_writes |-> [t \in {0} |-> {}],
   dependancy_chain |-> [t \in {0} |-> [u \in {0} |-> 0]],
   mpor_says_no |-> FALSE,
   cswitch_forced |-> FALSE,
   claims |-> <<>>,                          \* the assertions in the target equation
   remaining_claims |-> 0,
   path |-> <<0>>]                           \* the active threads so far

(* A new thread extends the access records and the dependency matrix, in   *)
(* which 0 is to mean "has not run yet".                                   *)
Extend(record, threads, default) ==
  [t \in threads |-> IF t \in DOMAIN record THEN record[t] ELSE default]

ExtendMatrix(chain, threads) ==
  [t \in threads |->
     Extend(IF t \in DOMAIN chain THEN chain[t] ELSE [u \in {} |-> 0], threads, 0)]

(* analyze_assign and analyze_read record what the active thread accesses  *)
(* once there are thread_cswitch_threshold = 2 threads.                    *)
Accessed(record, threads, t, accesses) ==
  [Extend(record, threads, {}) EXCEPT
     ![t] = @ \cup (IF Cardinality(threads) >= 2 THEN accesses ELSE {})]

(* symex_step: the instruction, its accesses, and the claims it adds to    *)
(* the equation.                                                           *)
StepState(s) ==
  LET t == s.active_thread
      conf == Step(program, s.conf, t)
      threads == Thread(conf)
      i == Instr(program, s.conf, t)
      claims == {[about |-> c, vacuous |-> ~s.conf.feasible] : c \in Claims(program, s.conf, t)}
  IN  [s EXCEPT
        !.conf = conf,
        !.thread_last_reads = Accessed(@, threads, t, Reads(program, s.conf, t)),
        !.thread_last_writes = Accessed(@, threads, t, Writes(program, s.conf, t)),
        !.dependancy_chain = ExtendMatrix(@, threads),
        !.cswitch_forced = @ \/ (i.op \in {"spawn", "yield"} /\ ~s.conf.guard_false),
        !.claims = @ \o SetToSeq(claims),
        !.remaining_claims = @ + Cardinality(claims)]

has_cswitch_point_occured(s) ==
  \/ s.cswitch_forced
  \/ s.thread_last_reads[s.active_thread] # {}
  \/ s.thread_last_writes[s.active_thread] # {}

check_if_ileaves_blocked_NoAtomic(s) ==
  \/ options.CS_bound # -1 /\ s.CS_number >= options.CS_bound
  \/ Cardinality(Thread(s.conf)) < 2

check_if_ileaves_blocked(s) ==
  \/ options.CS_bound # -1 /\ s.CS_number >= options.CS_bound
  \/ s.conf.threads[s.active_thread].atomic > 0
  \/ Cardinality(Thread(s.conf)) < 2

can_execution_continue(s) == ~s.conf.threads[s.active_thread].thread_ended

-----------------------------------------------------------------------------
(* Partial-order reduction *)

check_mpor_dependancy_NoAntiDependency(s, j, l) ==
  \/ s.thread_last_writes[j] \cap s.thread_last_writes[l] # {}
  \/ s.thread_last_reads[j] \cap s.thread_last_writes[l] # {}

check_mpor_dependancy(s, j, l) ==
  \/ s.thread_last_writes[j] \cap s.thread_last_writes[l] # {}
  \/ s.thread_last_reads[j] \cap s.thread_last_writes[l] # {}
  \/ s.thread_last_writes[j] \cap s.thread_last_reads[l] # {}

(* The dependency matrix after the transition just taken: DC[j][i] is -1   *)
(* without a relation, 0 when j has not run, 1 with a dependency of i's    *)
(* last transition on j's, direct or through other threads.                *)
NewDependancyChain(s) ==
  LET threads == Thread(s.conf)
      old == s.dependancy_chain
      active == s.active_thread
      depends(j) == \E l \in threads : old[j][l] = 1 /\ check_mpor_dependancy(s, active, l)
  IN  [j \in threads |->
         IF j = active THEN [i \in threads |-> IF i = active THEN 1 ELSE -1]
         ELSE [old[j] EXCEPT ![active] = IF @ # 0 /\ depends(j) THEN 1 ELSE @]]

(* A transition out of thread order needs, for every higher thread that    *)
(* ran before it, a dependency on it or one on a lower thread.             *)
calculate_mpor_constraints(s) ==
  LET threads == Thread(s.conf)
      active == s.active_thread
      chain == NewDependancyChain(s)
      can_run ==
        \A j \in threads : j > active =>
          \/ chain[j][active] # -1
          \/ \E l \in threads : l < active /\ s.dependancy_chain[j][l] = 1
  IN  [s EXCEPT !.dependancy_chain = chain, !.mpor_says_no = ~can_run]

-----------------------------------------------------------------------------
(* The search *)

check_thread_viable(s, tid) ==
  tid \notin s.DFS_traversed /\ ~s.conf.threads[tid].thread_ended

Viable(s) == {tid \in Thread(s.conf) : check_thread_viable(s, tid)}

decide_ileave_direction(s) == Min(Viable(s))

MarkTraversed_InCloneOnly(s) == s

(* dfs_explore_thread: the choice is remembered in the state it was made.  *)
MarkTraversed(s) ==
  [s EXCEPT !.DFS_traversed = @ \cup {decide_ileave_direction(s)}]

(* create_next_state, with update_after_switch_point.                      *)
NextState(s) ==
  LET tid == decide_ileave_direction(s)
  IN  [s EXCEPT
        !.CS_number = @ + (IF tid = s.active_thread THEN 0 ELSE 1),
        !.active_thread = tid,
        !.DFS_traversed = {},
        !.thread_last_reads[tid] = {},
        !.thread_last_writes[tid] = {},
        !.cswitch_forced = FALSE,
        !.path = Append(@, tid)]

MustStep ==
  /\ ~has_cswitch_point_occured(Top) \/ check_if_ileaves_blocked(Top)
  /\ can_execution_continue(Top)

Init ==
  /\ program \in Programs
  /\ options \in Options
  /\ execution_states = <<InitialState>>
  /\ phase = "symex"
  /\ checked = {}
  /\ last_path = <<>>

symex_step ==
  /\ phase = "symex"
  /\ MustStep
  /\ execution_states' = Append(Lower, StepState(Top))
  /\ UNCHANGED <<program, options, phase, checked, last_path>>

(* At a switch point: the transition is rejected, or the search goes one   *)
(* level deeper, or no thread is left and the interleaving is complete.    *)
SwitchPoint ==
  /\ phase = "symex"
  /\ ~MustStep
  /\ LET s == IF options.por THEN calculate_mpor_constraints(Top) ELSE Top
     IN  IF (options.por /\ s.mpor_says_no) \/ Viable(s) = {}
           THEN /\ phase' = "formula"
                /\ execution_states' = Append(Lower, s)
           ELSE /\ execution_states' = Lower \o <<MarkTraversed(s), NextState(s)>>
                /\ UNCHANGED phase
  /\ UNCHANGED <<program, options, checked, last_path>>

ClearAssertions_NotCounted(s) == [s EXCEPT !.claims = <<>>]

ClearAssertions_CountedTwice(s) ==
  [s EXCEPT !.claims = <<>>, !.remaining_claims = @ - 2 * Len(s.claims)]

ClearAssertions(s) ==
  [s EXCEPT !.claims = <<>>, !.remaining_claims = @ - Len(s.claims)]

Solved(s) == {c.about : c \in {d \in Range(s.claims) : ~d.vacuous}}

(* bmct::run_thread solves the formula unless no claim remains, and when   *)
(* bmct::run goes on (module Bmc), reset_to_unexplored_state drops the top *)
(* state and every state below it that has no thread left to try, and      *)
(* starts a new branch, without the assertions of the common prefix.       *)
CheckAndBacktrack ==
  /\ phase = "formula"
  /\ last_path' = Top.path
  /\ checked' = IF Top.remaining_claims = 0 THEN checked ELSE checked \cup Solved(Top)
  /\ LET unexplored == {n \in 1 .. Len(execution_states) - 1 :
                          Viable(execution_states[n]) # {}}
     IN  IF unexplored = {}
           THEN execution_states' = <<>> /\ phase' = "done"
           ELSE LET n == Max(unexplored)
                    s == execution_states[n]
                IN  /\ execution_states' =
                         SubSeq(execution_states, 1, n - 1)
                           \o <<MarkTraversed(s), ClearAssertions(NextState(s))>>
                    /\ phase' = "symex"
  /\ UNCHANGED <<program, options>>

Next == symex_step \/ SwitchPoint \/ CheckAndBacktrack

Spec == Init /\ [][Next]_vars

-----------------------------------------------------------------------------
(* Properties *)

TypeOK ==
  /\ phase \in {"symex", "formula", "done"}
  /\ phase = "done" <=> execution_states = <<>>
  /\ phase # "done" =>
       LET s == Top
           threads == Thread(s.conf)
       IN  /\ threads = 0 .. Cardinality(threads) - 1
           /\ s.active_thread \in threads
           /\ s.CS_number \in 0 .. Len(execution_states) - 1
           /\ s.DFS_traversed \subseteq threads
           /\ s.thread_last_reads \in [threads -> SUBSET SharedVar]
           /\ s.thread_last_writes \in [threads -> SUBSET SharedVar]
           /\ s.dependancy_chain \in [threads -> [threads -> {-1, 0, 1}]]
           /\ s.mpor_says_no \in BOOLEAN
           /\ s.cswitch_forced \in BOOLEAN
           /\ s.remaining_claims \in Nat
           /\ Len(s.path) = Len(execution_states)

Bounds == {o.CS_bound : o \in Options} \cup {-1}
OutcomesWithin == [search \in Programs \X Bounds |-> Outcomes(search[1], Vars, search[2])]

(* The reference is complete: when it stops, no thread can go on.          *)
ASSUME ReferenceAssumption ==
  \A p \in Programs :
    /\ Longest(p) \in Nat
    /\ \A node \in Layers(p, Vars, -1)[Longest(p)] : Enabled(node.conf) = {}

(* No bug is missed: when the search is over, every outcome that a claim   *)
(* has under some interleaving of the threads (within the context bound)   *)
(* was in a formula that was solved, although transitions are rejected,    *)
(* assertions are erased on backtracking and formulas without remaining    *)
(* claims are skipped (reachability_tree.cpp:228-267 and 524-569).         *)
EveryOutcomeChecked == phase = "done" => OutcomesWithin[<<program, options.CS_bound>>] \subseteq checked

(* No bug is invented: what a formula said of a claim happens under some   *)
(* interleaving that respects atomic blocks and the ends of threads        *)
(* (execution_state.cpp:414-441, reachability_tree.cpp:481-522).           *)
OnlyRealOutcomes == phase = "done" => checked \subseteq OutcomesWithin[<<program, -1>>]

(* No interleaving is explored twice: they come in lexicographic order,    *)
(* because what a state has tried survives the exploration and destruction *)
(* of everything above it (reachability_tree.cpp:131-197, 228-267).        *)
NoInterleavingTwice ==
  phase = "formula" /\ last_path # <<>> =>
    \E n \in 1 .. Min({Len(last_path), Len(Top.path)}) :
      /\ last_path[n] < Top.path[n]
      /\ \A m \in 1 .. n - 1 : last_path[m] = Top.path[m]

(* The count that decides whether a formula is solved at all stays the     *)
(* number of assertions in it, through cloning, backtracking and erasing   *)
(* (reachability_tree.cpp:251-264, bmc.cpp:646-656).                       *)
ClaimsCounted ==
  \A n \in 1 .. Len(execution_states) :
    execution_states[n].remaining_claims = Len(execution_states[n].claims)
=============================================================================
