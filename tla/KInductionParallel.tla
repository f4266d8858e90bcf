------------------------- MODULE KInductionParallel -------------------------
(***************************************************************************)
(* esbmc --k-induction-parallel: a parent process forks three children,    *)
(* one per step of k-induction (base case, forward condition, inductive    *)
(* step).  Each child runs BMC for growing k and sends at most one result  *)
(* through forward_pipe; the parent reads results, polls the children with *)
(* waitpid(WNOHANG), asks the base case about a proof through              *)
(* backward_pipe, and decides the verdict.                                 *)
(*                                                                         *)
(* The atomic steps are the system calls (read, waitpid, write, kill,      *)
(* exit) and one whole BMC run (do_bmc) of a child.  The SMT answers are   *)
(* an oracle: the base case is satisfiable at k exactly when a violation   *)
(* is reachable within k unwindings, and a proof at k by the forward       *)
(* condition or the inductive step is only possible when there is no       *)
(* violation or one that the base case at k would show.                    *)
(***************************************************************************)
EXTENDS Integers, Sequences, FiniteSets

CONSTANTS
  MaxKStep,   \* --max-k-step
  KStep,      \* --k-step
  Faults,     \* what may go wrong in a child, a subset of AllFaults
  Uninit      \* what the stack may hold where a_result is declared

BASE_CASE == "BASE_CASE"
FORWARD_CONDITION == "FORWARD_CONDITION"
INDUCTIVE_STEP == "INDUCTIVE_STEP"
PARENT == "PARENT"

Child == {BASE_CASE, FORWARD_CONDITION, INDUCTIVE_STEP}
Prover == {FORWARD_CONDITION, INDUCTIVE_STEP}

resultt == [type : Child \cup {PARENT, "invalid"}, k : Nat]

Message == [type : Child, k : Nat]
Question == [type : {PARENT}, k : Nat]

(* "crash": a child dies without sending (P_ERROR makes do_bmc abort, a    *)
(* signal, a resource limit).  "front_end": parsing fails.  "exception":   *)
(* a C++ exception escapes the base case's do_bmc.                         *)
AllFaults == {"crash", "front_end", "exception"}

ASSUME ParamAssumption ==
  /\ MaxKStep \in Nat \ {0}
  /\ KStep \in Nat \ {0}
  /\ Faults \subseteq AllFaults
  /\ Uninit \subseteq resultt
  /\ Uninit # {}

VARIABLES
  \* the program under test
  bug,            \* 0, or the least k at which a violation is reachable
  parses,         \* does the front end accept it
  throws,         \* may a BMC run of the base case end in an exception
  \* the children
  cpc,            \* program counter of each child
  k_step,         \* loop variable of each child
  bc_max_k_step,  \* the base case's own copy of max_k_step
  \* what connects the processes
  forward_pipe,   \* children to parent
  backward_pipe,  \* parent to base case
  doomed,         \* children with SIGKILL pending
  \* the parent
  ppc, a_result, finished, solution, verdict,
  \* history: has the parent ever read a result
  heard

program == <<bug, parses, throws>>
children == <<cpc, k_step, bc_max_k_step>>
parent == <<ppc, a_result, finished, solution, verdict, heard>>
vars == <<program, children, forward_pipe, backward_pipe, doomed, parent>>

NoResult == [type |-> "none", k |-> 0]

TypeOK ==
  /\ bug \in 0 .. MaxKStep + KStep
  /\ parses \in BOOLEAN
  /\ throws \in BOOLEAN
  /\ cpc \in [Child -> {"front", "loop", "ask", "report", "exit", "dead"}]
  /\ k_step \in [Child -> Nat]
  /\ bc_max_k_step \in Nat
  /\ forward_pipe \in Seq(Message)
  /\ backward_pipe \in Seq(Question)
  /\ doomed \subseteq Child
  /\ ppc \in {"read", "wait_bc", "wait_fc", "wait_is", "switch", "fc", "ask_fc",
              "is", "ask_is", "verdict", "done", "dead"}
  /\ a_result \in resultt \cup {NoResult}
  /\ finished \in [Child -> BOOLEAN]
  /\ solution \in [Child -> Nat]
  /\ verdict \in {"NONE", "FAILED", "SUCCESSFUL", "UNKNOWN"}
  /\ heard \in BOOLEAN

Init ==
  /\ bug \in 0 .. MaxKStep + KStep
  /\ parses \in BOOLEAN
  /\ "front_end" \notin Faults => parses
  /\ throws \in BOOLEAN
  /\ "exception" \notin Faults => ~throws
  /\ cpc = [c \in Child |-> "front"]
  /\ k_step = [c \in Child |-> IF c = BASE_CASE THEN 1 ELSE 2]
  /\ bc_max_k_step = MaxKStep
  /\ forward_pipe = <<>>
  /\ backward_pipe = <<>>
  /\ doomed = {}
  /\ ppc = "read"
  /\ a_result = NoResult
  /\ finished = [c \in Child |-> FALSE]
  /\ solution = [c \in Child |-> MaxKStep]
  /\ verdict = "NONE"
  /\ heard = FALSE

-----------------------------------------------------------------------------
(* The children *)

Alive == {c \in Child : cpc[c] # "dead"}

max_k_step(c) == IF c = BASE_CASE THEN bc_max_k_step ELSE MaxKStep

Goto(c, label) == cpc' = [cpc EXCEPT ![c] = label]

NextK(c) == k_step' = [k_step EXCEPT ![c] = @ + KStep]

SendResult(c, k) ==
  /\ forward_pipe' = Append(forward_pipe, [type |-> c, k |-> k])
  /\ Goto(c, "exit")

(* get_goto_program and set_claims, before the child enters its loop.      *)
FrontEnd(c) ==
  /\ cpc[c] = "front"
  /\ Goto(c, IF parses THEN "loop" ELSE "exit")
  /\ UNCHANGED <<program, k_step, bc_max_k_step, forward_pipe,
                 backward_pipe, doomed, parent>>

(* A base-case run that finds the bug prints VERIFICATION FAILED           *)
(* (bmct::report_result), sends k and returns; otherwise the child goes on *)
(* to see whether the parent is asking.                                    *)
CheckBaseCase ==
  /\ cpc[BASE_CASE] = "loop"
  /\ k_step[BASE_CASE] <= bc_max_k_step
  /\ IF bug # 0 /\ bug <= k_step[BASE_CASE]
       THEN SendResult(BASE_CASE, k_step[BASE_CASE])
       ELSE Goto(BASE_CASE, "ask") /\ UNCHANGED forward_pipe
  /\ UNCHANGED <<program, k_step, bc_max_k_step, backward_pipe, doomed, parent>>

(* catch(...) { break; }: the loop ends and the child reports 0.           *)
BaseCaseException ==
  /\ throws
  /\ cpc[BASE_CASE] = "loop"
  /\ k_step[BASE_CASE] <= bc_max_k_step
  /\ Goto(BASE_CASE, "report")
  /\ UNCHANGED <<program, k_step, bc_max_k_step, forward_pipe,
                 backward_pipe, doomed, parent>>

PollQuestion_Mutant ==
  /\ cpc[BASE_CASE] = "ask"
  /\ \/ /\ backward_pipe = <<>>
        /\ Goto(BASE_CASE, "loop")
        /\ NextK(BASE_CASE)
        /\ UNCHANGED <<backward_pipe, bc_max_k_step>>
     \/ /\ backward_pipe # <<>>
        /\ backward_pipe' = Tail(backward_pipe)
        /\ Goto(BASE_CASE, "report")
        /\ UNCHANGED <<k_step, bc_max_k_step>>
  /\ UNCHANGED <<program, forward_pipe, doomed, parent>>

(* Non-blocking read of the parent's question.                             *)
PollQuestion ==
  /\ cpc[BASE_CASE] = "ask"
  /\ \/ /\ backward_pipe = <<>>
        /\ Goto(BASE_CASE, "loop")
        /\ NextK(BASE_CASE)
        /\ UNCHANGED <<backward_pipe, bc_max_k_step>>
     \/ /\ backward_pipe # <<>>
        /\ backward_pipe' = Tail(backward_pipe)
        /\ IF Head(backward_pipe).k < k_step[BASE_CASE]
             THEN /\ Goto(BASE_CASE, "report")
                  /\ UNCHANGED <<k_step, bc_max_k_step>>
             ELSE /\ Goto(BASE_CASE, "loop")
                  /\ bc_max_k_step' = Head(backward_pipe).k + KStep
                  /\ NextK(BASE_CASE)
  /\ UNCHANGED <<program, forward_pipe, doomed, parent>>

(* A proof at k is a fact about the program.                               *)
ProofPossible(k) == bug = 0 \/ bug <= k

(* One run of a prover child: a proof is printed (report_success) and      *)
(* sent; no proof yet moves on to the next k; an exception leaves the      *)
(* loop, and so does a step that do_bmc found out to be disabled, whatever *)
(* its run said and printed.                                               *)
CheckProof(c) ==
  /\ cpc[c] = "loop"
  /\ k_step[c] <= MaxKStep
  /\ \/ /\ ProofPossible(k_step[c])
        /\ SendResult(c, k_step[c])
        /\ UNCHANGED k_step
     \/ /\ NextK(c)
        /\ UNCHANGED <<cpc, forward_pipe>>
     \/ /\ Goto(c, "report")
        /\ UNCHANGED <<k_step, forward_pipe>>
  /\ UNCHANGED <<program, bc_max_k_step, backward_pipe, doomed, parent>>

(* The loop is over without an answer: r.k = 0.                            *)
ReportNothing(c) ==
  /\ cpc[c] = "report" \/ (cpc[c] = "loop" /\ k_step[c] > max_k_step(c))
  /\ SendResult(c, 0)
  /\ UNCHANGED <<program, k_step, bc_max_k_step, backward_pipe,
                 doomed, parent>>

Exit(c) ==
  /\ cpc[c] = "exit" \/ (cpc[c] # "dead" /\ c \in doomed)
  /\ Goto(c, "dead")
  /\ UNCHANGED <<program, k_step, bc_max_k_step, forward_pipe,
                 backward_pipe, doomed, parent>>

Crash(c) ==
  /\ "crash" \in Faults
  /\ cpc[c] # "dead"
  /\ Goto(c, "dead")
  /\ UNCHANGED <<program, k_step, bc_max_k_step, forward_pipe,
                 backward_pipe, doomed, parent>>

ChildStep(c) ==
  \/ FrontEnd(c)
  \/ c = BASE_CASE /\ (CheckBaseCase \/ BaseCaseException \/ PollQuestion)
  \/ c \in Prover /\ CheckProof(c)
  \/ ReportNothing(c)
  \/ Exit(c)

-----------------------------------------------------------------------------
(* The parent *)

Conclusive_Mutant(c) == finished[c] /\ solution[c] # 0

Conclusive(c) == finished[c] /\ solution[c] \notin {0, MaxKStep}

AllFinished == \A c \in Child : finished[c]

(* A blocking read: a result, or end of file once every child (each holds  *)
(* the write end) is gone.  At end of file a_result keeps what it held: a  *)
(* result read before, or whatever was on the stack (line 623 initialises  *)
(* nothing).  Either way it is interpreted like a result.                  *)
ReadResult ==
  /\ ppc = "read"
  /\ \/ /\ forward_pipe # <<>>
        /\ a_result' = Head(forward_pipe)
        /\ forward_pipe' = Tail(forward_pipe)
        /\ heard' = TRUE
     \/ /\ forward_pipe = <<>>
        /\ Alive = {}
        /\ a_result' \in IF a_result = NoResult THEN Uninit ELSE {a_result}
        /\ UNCHANGED <<forward_pipe, heard>>
  /\ ppc' = "wait_bc"
  /\ UNCHANGED <<program, children, backward_pipe, doomed, finished, solution,
                 verdict>>

WaitChild_Mutant(c, here, next) ==
  /\ ppc = here
  /\ ppc' = next
  /\ UNCHANGED <<program, children, forward_pipe, backward_pipe, doomed,
                 a_result, finished, solution, verdict, heard>>

(* waitpid(child, WNOHANG): a child that is gone ends the whole session.   *)
WaitChild(c, here, next) ==
  /\ ppc = here
  /\ finished' = IF ~finished[c] /\ c \notin Alive
                   THEN [d \in Child |-> TRUE]
                   ELSE finished
  /\ ppc' = next
  /\ UNCHANGED <<program, children, forward_pipe, backward_pipe, doomed,
                 a_result, solution, verdict, heard>>

(* switch(a_result.type), and the test of the base case's result.          *)
InterpretResult ==
  /\ ppc = "switch"
  /\ IF a_result.type \in Child
       THEN /\ finished' = [finished EXCEPT ![a_result.type] = TRUE]
            /\ solution' = [solution EXCEPT ![a_result.type] = a_result.k]
            /\ ppc' = IF Conclusive(BASE_CASE)' THEN "verdict" ELSE "fc"
       ELSE /\ ppc' = "dead"
            /\ UNCHANGED <<finished, solution>>
  /\ UNCHANGED <<program, children, forward_pipe, backward_pipe, doomed,
                 a_result, verdict, heard>>

LoopOrLeave == IF AllFinished THEN "verdict" ELSE "read"

(* A proof by c: present it if the base case is finished, else kill the    *)
(* other prover and go and ask.                                            *)
ConsultProof(c, other, here, asking, next) ==
  /\ ppc = here
  /\ IF Conclusive(c) /\ ~finished[BASE_CASE]
       THEN /\ doomed' = doomed \cup ({other} \cap Alive)
            /\ ppc' = asking
       ELSE /\ ppc' = IF Conclusive(c) THEN "verdict" ELSE next
            /\ UNCHANGED doomed
  /\ UNCHANGED <<program, children, forward_pipe, backward_pipe, a_result,
                 finished, solution, verdict, heard>>

AskBaseCase_Mutant(c, here, next) ==
  /\ ppc = here
  /\ IF Alive = {}
       THEN ppc' = "dead" /\ UNCHANGED backward_pipe
       ELSE ppc' = next /\ backward_pipe' = Append(backward_pipe, a_result)
  /\ UNCHANGED <<program, children, forward_pipe, doomed, a_result, finished,
                 solution, verdict, heard>>

(* The write to the base case.  Only children hold the read end: when all  *)
(* of them are gone the write raises SIGPIPE and the parent dies.          *)
AskBaseCase(c, here, next) ==
  /\ ppc = here
  /\ IF Alive = {}
       THEN ppc' = "dead" /\ UNCHANGED backward_pipe
       ELSE /\ ppc' = next
            /\ backward_pipe' = Append(backward_pipe,
                                       [type |-> PARENT, k |-> solution[c]])
  /\ UNCHANGED <<program, children, forward_pipe, doomed, a_result, finished,
                 solution, verdict, heard>>

Conclude_NoCrashTest ==
  /\ ppc = "verdict"
  /\ doomed' = Alive
  /\ verdict' =
       IF Conclusive(BASE_CASE) THEN "FAILED"
       ELSE IF (\E c \in Prover : Conclusive(c)) /\ finished[BASE_CASE]
              THEN "SUCCESSFUL"
              ELSE "UNKNOWN"
  /\ ppc' = "done"
  /\ UNCHANGED <<program, children, forward_pipe, backward_pipe, a_result,
                 finished, solution, heard>>

Conclude_NoKill ==
  /\ ppc = "verdict"
  /\ verdict' =
       IF Conclusive(BASE_CASE) THEN "FAILED"
       ELSE IF /\ \E c \in Prover : Conclusive(c)
               /\ finished[BASE_CASE]
               /\ solution[BASE_CASE] # MaxKStep
              THEN "SUCCESSFUL"
              ELSE "UNKNOWN"
  /\ ppc' = "done"
  /\ UNCHANGED <<program, children, forward_pipe, backward_pipe, doomed,
                 a_result, finished, solution, heard>>

(* After the loop: kill every child and report.                            *)
Conclude ==
  /\ ppc = "verdict"
  /\ doomed' = Alive
  /\ verdict' =
       IF Conclusive(BASE_CASE) THEN "FAILED"
       ELSE IF /\ \E c \in Prover : Conclusive(c)
               /\ finished[BASE_CASE]
               /\ solution[BASE_CASE] # MaxKStep
              THEN "SUCCESSFUL"
              ELSE "UNKNOWN"
  /\ ppc' = "done"
  /\ UNCHANGED <<program, children, forward_pipe, backward_pipe, a_result,
                 finished, solution, heard>>

ParentStep ==
  \/ ReadResult
  \/ WaitChild(BASE_CASE, "wait_bc", "wait_fc")
  \/ WaitChild(FORWARD_CONDITION, "wait_fc", "wait_is")
  \/ WaitChild(INDUCTIVE_STEP, "wait_is", "switch")
  \/ InterpretResult
  \/ ConsultProof(FORWARD_CONDITION, INDUCTIVE_STEP, "fc", "ask_fc", "is")
  \/ AskBaseCase(FORWARD_CONDITION, "ask_fc", "is")
  \/ ConsultProof(INDUCTIVE_STEP, FORWARD_CONDITION, "is", "ask_is", LoopOrLeave)
  \/ AskBaseCase(INDUCTIVE_STEP, "ask_is", LoopOrLeave)
  \/ Conclude

Next ==
  \/ ParentStep
  \/ \E c \in Child : ChildStep(c) \/ Crash(c)

(* The operating system schedules every process, and every BMC run ends    *)
(* (it is bounded, and --timeout bounds the solver).  Nothing obliges a    *)
(* child to crash.                                                         *)
Fairness ==
  /\ WF_vars(ParentStep)
  /\ \A c \in Child : WF_vars(ChildStep(c))

SafetySpec == Init /\ [][Next]_vars
Spec == SafetySpec /\ Fairness

-----------------------------------------------------------------------------
(* Properties *)

(* The parent says SUCCESSFUL only of a program without a violation: the   *)
(* proof it presents was confronted with the base case, whatever the order *)
(* of results, questions, kills and exits (lines 740-786 and 801-830).  An *)
(* exception in the base case voids the promise: the child reports "no     *)
(* bug" of all the k it never tried (lines 864-868).                       *)
SuccessSound == verdict = "SUCCESSFUL" /\ ~throws => bug = 0

(* The parent says FAILED only of a program with a violation.  This is     *)
(* what the comment at line 637 comes to, "Client hung up; continue on, but *)
(* don't interpret the result", and it is not so: the switch at line 711    *)
(* interprets a_result all the same, and when every child has gone without *)
(* a word (parsing failed, say) a_result was never written.                *)
FailureSound == verdict = "FAILED" => bug # 0

(* Garbage is the only way to it.  Once the parent has heard a child, it   *)
(* says FAILED only of a program with a violation: neither a crash, nor an *)
(* end of file at which an old result is interpreted again, nor a result   *)
(* that overtakes an answer makes a bug up (lines 632-738 and 792-798).    *)
HeardFailureSound == heard /\ verdict = "FAILED" => bug # 0

(* When the parent stops, on any path (verdict, abort, SIGPIPE), no child  *)
(* is left running that has not been killed (lines 788-789).               *)
NoOrphans == ppc \in {"done", "dead"} => Alive \subseteq doomed

(* The parent always comes to an end: it never waits on a pipe that nobody *)
(* will write to, nor polls for ever (lines 629-786).                      *)
Terminates == <>(ppc \in {"done", "dead"})

(* The session promises what VerdictSpec states: one verdict, and a true   *)
(* one (lines 788-833), with two exceptions, whose verdicts count for no   *)
(* more than an UNKNOWN: a SUCCESSFUL when the base case may throw, and a  *)
(* FAILED when no child was ever heard and the parent has interpreted what *)
(* its stack happened to hold.  A SUCCESSFUL is never of the second kind.  *)
Worthless ==
  \/ verdict = "SUCCESSFUL" /\ throws
  \/ verdict = "FAILED" /\ ~heard

Abstract == INSTANCE VerdictSpec
  WITH verdict <- IF Worthless THEN "UNKNOWN" ELSE verdict
VerdictRefinement == Abstract!Spec
-----------------------------------------------------------------------------
(* The inductive invariant behind the two soundness properties.            *)

(* The setting in which the base case's "no bug" answers every proof: it   *)
(* checks every k, and no exception cuts its loop short.                   *)
Lockstep == KStep = 1 /\ ~throws

NoBugInReach == bug = 0 \/ bug > MaxKStep

(* What a result says about the program, whoever holds it.                 *)
GoodResult(r) ==
  /\ r.type \in Prover /\ r.k # 0 => ProofPossible(r.k) /\ r.k <= MaxKStep
  /\ r.type = BASE_CASE /\ r.k # 0 => bug # 0
  /\ r.type = BASE_CASE /\ r.k = 0 /\ Lockstep => NoBugInReach

(* The base case has refuted every k below its k_step, and its own bound   *)
(* on k never drops below a bug that max_k_step would have reached.        *)
BaseCaseInv ==
  Lockstep =>
    /\ cpc[BASE_CASE] \in {"front", "loop"} => bug = 0 \/ bug >= k_step[BASE_CASE]
    /\ cpc[BASE_CASE] = "ask" => bug = 0 \/ bug > k_step[BASE_CASE]
    /\ cpc[BASE_CASE] = "report" => NoBugInReach
    /\ NoBugInReach \/ bug <= bc_max_k_step

PipeInv ==
  /\ \A i \in 1 .. Len(forward_pipe) : GoodResult(forward_pipe[i])
  /\ \A i \in 1 .. Len(backward_pipe) :
        ProofPossible(backward_pipe[i].k) /\ backward_pipe[i].k <= MaxKStep

(* What a parent that has heard a child holds comes from results.          *)
HeardResults ==
  /\ GoodResult(a_result)
  /\ \A c \in Child : solution[c] # MaxKStep =>
        GoodResult([type |-> c, k |-> solution[c]])

(* One that has not holds nothing, or garbage it met at the end of file,   *)
(* and then no child is left to be asked.                                  *)
HeardNothing ==
  \/ a_result = NoResult /\ \A c \in Child : solution[c] = MaxKStep
  \/ /\ a_result \in Uninit
     /\ Alive = {}
     /\ forward_pipe = <<>>
     /\ \A c \in Child : solution[c] # MaxKStep =>
           c = a_result.type /\ solution[c] = a_result.k

ParentInv ==
  /\ ppc # "done" => verdict = "NONE"
  /\ ppc \in {"wait_bc", "wait_fc", "wait_is", "switch"} => a_result # NoResult
  /\ ppc = "ask_fc" => Conclusive(FORWARD_CONDITION)
  /\ ppc = "ask_is" => Conclusive(INDUCTIVE_STEP)
  /\ a_result.type \in Child \/ a_result = NoResult \/ Alive = {}
  /\ heard => a_result # NoResult
  /\ IF heard THEN HeardResults ELSE HeardNothing

IInv ==
  /\ TypeOK
  /\ BaseCaseInv
  /\ PipeInv
  /\ ParentInv
  /\ NoOrphans
=============================================================================
