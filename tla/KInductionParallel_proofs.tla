---------------------- MODULE KInductionParallel_proofs ----------------------
(***************************************************************************)
(* Proofs about KInductionParallel, for every max-k-step, k-step, set of   *)
(* faults and content of the uninitialised a_result.                       *)
(***************************************************************************)
EXTENDS KInductionParallel, SequenceTheorems, TLAPS

(* Appending a message that satisfies P to a pipe whose messages all do,   *)
(* and taking the first one out of it, both leave a pipe of such messages. *)
LEMMA PipeAppend ==
  ASSUME NEW S, NEW s \in Seq(S), NEW m \in S
  PROVE  /\ Append(s, m) \in Seq(S)
         /\ Len(Append(s, m)) = Len(s) + 1
         /\ \A i \in 1 .. Len(s) : Append(s, m)[i] = s[i]
         /\ Append(s, m)[Len(s) + 1] = m
  BY AppendProperties

(* What is left in a pipe after a message was taken from it was there      *)
(* before.                                                                 *)
LEMMA PipeTake ==
  ASSUME NEW S, NEW s \in Seq(S), s # <<>>
  PROVE  /\ Head(s) \in S
         /\ Head(s) = s[1]
         /\ 1 \in 1 .. Len(s)
         /\ Tail(s) \in Seq(S)
         /\ \A i \in 1 .. Len(Tail(s)) : i + 1 \in 1 .. Len(s) /\ Tail(s)[i] = s[i + 1]
  BY HeadTailProperties, LenProperties, EmptySeq

(***************************************************************************)
(* Type correctness.                                                       *)
(***************************************************************************)
LEMMA TypeInit == Init => TypeOK
<1> SUFFICES ASSUME Init PROVE TypeOK
  OBVIOUS
<1>1. heard \in BOOLEAN
  BY Zenon DEF Init
<1>2. QED BY <1>1, ParamAssumption DEF Init, TypeOK, Child, NoResult, resultt

(* A child's step keeps the types.                                         *)
LEMMA TypeChild ==
  ASSUME TypeOK, NEW c \in Child, ChildStep(c) \/ Crash(c)
  PROVE  TypeOK'
<1> USE DEF TypeOK, program, children, parent
<1>a. \A d \in Child, k \in Nat : Append(forward_pipe, [type |-> d, k |-> k]) \in Seq(Message)
  BY PipeAppend DEF Message
<1>b. BASE_CASE \in Child
  BY DEF Child
<1>c. \A d \in Child : k_step[d] \in Nat /\ k_step[d] + KStep \in Nat
  BY ParamAssumption
<1>1. CASE FrontEnd(c)
  BY <1>1 DEF FrontEnd, Goto
<1>2. CASE CheckBaseCase
  <2>1. forward_pipe' \in Seq(Message)
    BY <1>2, <1>a, <1>b, <1>c DEF CheckBaseCase, SendResult
  <2>2. cpc' \in [Child -> {"front", "loop", "ask", "report", "exit", "dead"}]
    BY <1>2, <1>b DEF CheckBaseCase, SendResult, Goto
  <2>3. QED BY <1>2, <2>1, <2>2 DEF CheckBaseCase
<1>3. CASE BaseCaseException
  BY <1>3 DEF BaseCaseException, Goto
<1>4. CASE PollQuestion
  <2>1. ASSUME backward_pipe # <<>>
        PROVE  Head(backward_pipe) \in Question /\ Tail(backward_pipe) \in Seq(Question)
    BY <2>1, PipeTake
  <2>2. \A q \in Question : q.k + KStep \in Nat
    BY ParamAssumption DEF Question
  <2>3. QED BY <1>4, <1>b, <1>c, <2>1, <2>2 DEF PollQuestion, Goto, NextK
<1>5. CASE CheckProof(c)
  <2>1. forward_pipe' \in Seq(Message)
    BY <1>5, <1>a, <1>c DEF CheckProof, SendResult
  <2>2. /\ cpc' \in [Child -> {"front", "loop", "ask", "report", "exit", "dead"}]
        /\ k_step' \in [Child -> Nat]
    BY <1>5, <1>c DEF CheckProof, SendResult, Goto, NextK
  <2>3. QED BY <1>5, <2>1, <2>2 DEF CheckProof
<1>6. CASE ReportNothing(c)
  BY <1>6, <1>a DEF ReportNothing, SendResult, Goto
<1>7. CASE Exit(c)
  BY <1>7 DEF Exit, Goto
<1>8. CASE Crash(c)
  BY <1>8 DEF Crash, Goto
<1>9. QED BY <1>1, <1>2, <1>3, <1>4, <1>5, <1>6, <1>7, <1>8 DEF ChildStep

(* The parent's step keeps the types.                                      *)
LEMMA TypeParent ==
  ASSUME TypeOK, ParentStep
  PROVE  TypeOK'
<1> USE DEF TypeOK, program, children, parent
<1>1. CASE ReadResult
  <2>1. ASSUME forward_pipe # <<>>
        PROVE  Head(forward_pipe) \in Message /\ Tail(forward_pipe) \in Seq(Message)
    BY <2>1, PipeTake
  <2>2. Message \subseteq resultt
    BY DEF Message, resultt
  <2>3. a_result' \in resultt \cup {NoResult} /\ forward_pipe' \in Seq(Message)
    BY <1>1, <2>1, <2>2, ParamAssumption DEF ReadResult
  <2>4. QED BY <1>1, <2>3 DEF ReadResult
<1>2. ASSUME NEW c \in Child, NEW here, NEW next \in {"wait_fc", "wait_is", "switch"},
             WaitChild(c, here, next)
      PROVE  TypeOK'
  <2>1. finished' \in [Child -> BOOLEAN]
    BY <1>2 DEF WaitChild
  <2>2. QED BY <1>2, <2>1 DEF WaitChild
<1>3. CASE InterpretResult
  <2>1. ASSUME a_result.type \in Child PROVE a_result.k \in Nat
    BY <2>1 DEF resultt, NoResult
  <2>2. ppc' \in {"verdict", "fc", "dead"}
    BY <1>3 DEF InterpretResult
  <2>3. finished' \in [Child -> BOOLEAN] /\ solution' \in [Child -> Nat]
    BY <1>3, <2>1 DEF InterpretResult
  <2>4. QED BY <1>3, <2>2, <2>3 DEF InterpretResult
<1>4. ASSUME NEW c \in Child, NEW other \in Child, NEW here, NEW asking \in {"ask_fc", "ask_is"},
             NEW next \in {"is", "verdict", "read"}, ConsultProof(c, other, here, asking, next)
      PROVE  TypeOK'
  <2>1. ppc' \in {"ask_fc", "ask_is", "is", "verdict", "read"} /\ doomed' \subseteq Child
    BY <1>4 DEF ConsultProof
  <2>2. QED BY <1>4, <2>1 DEF ConsultProof
<1>5. ASSUME NEW c \in Child, NEW here, NEW next \in {"is", "verdict", "read"},
             AskBaseCase(c, here, next)
      PROVE  TypeOK'
  <2>1. Append(backward_pipe, [type |-> PARENT, k |-> solution[c]]) \in Seq(Question)
    BY PipeAppend DEF Question
  <2>2. QED BY <1>5, <2>1 DEF AskBaseCase
<1>6. CASE Conclude
  <2>1. doomed' \subseteq Child /\ verdict' \in {"FAILED", "SUCCESSFUL", "UNKNOWN"}
    BY <1>6 DEF Conclude, Alive
  <2>2. QED BY <1>6, <2>1 DEF Conclude
<1>7. LoopOrLeave \in {"is", "verdict", "read"}
  BY DEF LoopOrLeave
<1>8. /\ BASE_CASE \in Child
      /\ FORWARD_CONDITION \in Child
      /\ INDUCTIVE_STEP \in Child
  BY DEF Child
<1> HIDE DEF TypeOK
<1>9. CASE \/ ConsultProof(FORWARD_CONDITION, INDUCTIVE_STEP, "fc", "ask_fc", "is")
            \/ ConsultProof(INDUCTIVE_STEP, FORWARD_CONDITION, "is", "ask_is", LoopOrLeave)
  BY <1>4, <1>7, <1>8, <1>9
<1>10. CASE \/ AskBaseCase(FORWARD_CONDITION, "ask_fc", "is")
             \/ AskBaseCase(INDUCTIVE_STEP, "ask_is", LoopOrLeave)
  BY <1>5, <1>7, <1>8, <1>10
<1>11. CASE \/ WaitChild(BASE_CASE, "wait_bc", "wait_fc")
             \/ WaitChild(FORWARD_CONDITION, "wait_fc", "wait_is")
             \/ WaitChild(INDUCTIVE_STEP, "wait_is", "switch")
  BY <1>2, <1>8, <1>11
<1>12. QED BY <1>1, <1>3, <1>6, <1>9, <1>10, <1>11 DEF ParentStep

(* Every reachable state has the types the model declares: in particular   *)
(* the base case is only ever asked by the parent (assertion at line 917). *)
THEOREM TypeCorrect == SafetySpec => []TypeOK
<1>1. TypeOK /\ [Next]_vars => TypeOK'
  <2>1. ASSUME TypeOK, UNCHANGED vars PROVE TypeOK'
    BY <2>1 DEF TypeOK, vars, program, children, parent
  <2>2. QED BY <2>1, TypeChild, TypeParent DEF Next
<1>2. QED BY TypeInit, <1>1, PTL DEF SafetySpec

(***************************************************************************)
(* The inductive invariant.                                                *)
(***************************************************************************)
LEMMA InvInit == Init => IInv
<1> SUFFICES ASSUME Init PROVE IInv
  OBVIOUS
<1>1. TypeOK
  BY TypeInit
<1>2. BaseCaseInv
  BY ParamAssumption DEF Init, BaseCaseInv, NoBugInReach, Child, Lockstep
<1>3. PipeInv
  BY DEF Init, PipeInv
<1>4. ParentInv
  BY DEF Init, ParentInv, HeardNothing, Conclusive
<1>5. NoOrphans
  BY DEF Init, NoOrphans
<1>6. QED BY <1>1, <1>2, <1>3, <1>4, <1>5 DEF IInv

(* A child that takes a step was alive, moves only its own program         *)
(* counter, and touches neither the program nor the parent.                *)
LEMMA ChildFrame ==
  ASSUME TypeOK, NEW c \in Child, ChildStep(c) \/ Crash(c)
  PROVE  /\ UNCHANGED <<bug, throws, doomed, ppc, a_result, finished, solution, verdict, heard>>
         /\ Alive # {}
         /\ Alive' \subseteq Alive
<1>0. BASE_CASE \in Child
  BY DEF Child
<1>1. UNCHANGED <<bug, throws, doomed, ppc, a_result, finished, solution, verdict, heard>>
  BY DEF ChildStep, Crash, FrontEnd, CheckBaseCase, BaseCaseException, PollQuestion,
         CheckProof, ReportNothing, Exit, program, parent
<1>2. \E l : cpc[c] # "dead" /\ cpc' = [cpc EXCEPT ![c] = l]
  <2>1. CASE FrontEnd(c) BY <2>1 DEF FrontEnd, Goto
  <2>2. CASE c = BASE_CASE /\ (CheckBaseCase \/ BaseCaseException \/ PollQuestion)
    BY <2>2 DEF CheckBaseCase, BaseCaseException, PollQuestion, SendResult, Goto
  <2>3. CASE CheckProof(c)
    <3>1. cpc = [cpc EXCEPT ![c] = "loop"] \/ cpc[c] # "loop"
      BY DEF TypeOK
    <3>2. QED BY <2>3, <3>1 DEF CheckProof, SendResult, Goto
  <2>4. CASE ReportNothing(c) BY <2>4 DEF ReportNothing, SendResult, Goto
  <2>5. CASE Exit(c) BY <2>5 DEF Exit, Goto
  <2>6. CASE Crash(c) BY <2>6 DEF Crash, Goto
  <2>7. QED BY <2>1, <2>2, <2>3, <2>4, <2>5, <2>6 DEF ChildStep
<1>3. QED BY <1>1, <1>2 DEF Alive, TypeOK

(* What a child sends or learns about the program is true of it.           *)
LEMMA ChildResults ==
  ASSUME IInv, NEW c \in Child, ChildStep(c) \/ Crash(c)
  PROVE  BaseCaseInv' /\ PipeInv'
<1> USE DEF IInv, program
<1>a. BASE_CASE \in Child /\ BASE_CASE \notin Prover /\ Child = {BASE_CASE} \cup Prover
  BY DEF Child, Prover, BASE_CASE, FORWARD_CONDITION, INDUCTIVE_STEP
<1>b. bug' = bug /\ throws' = throws
  BY ChildFrame
<1>c. \A r : GoodResult(r)' <=> GoodResult(r)
  BY <1>b DEF GoodResult, ProofPossible, NoBugInReach, Lockstep
<1>d. ASSUME NEW k \in Nat, GoodResult([type |-> c, k |-> k]),
             forward_pipe' = Append(forward_pipe, [type |-> c, k |-> k]),
             UNCHANGED backward_pipe
      PROVE  PipeInv'
  <2>1. [type |-> c, k |-> k] \in Message /\ forward_pipe \in Seq(Message)
    BY DEF Message, TypeOK
  <2>2. \A i \in 1 .. Len(forward_pipe') : GoodResult(forward_pipe'[i])
    <3>1. Len(forward_pipe) \in Nat
      BY <2>1, LenProperties
    <3>2. QED BY <1>d, <2>1, <3>1, PipeAppend DEF PipeInv
  <2>3. QED BY <1>b, <1>c, <1>d, <2>2 DEF PipeInv, ProofPossible
<1>e. ASSUME UNCHANGED <<forward_pipe, backward_pipe>> PROVE PipeInv'
  BY <1>b, <1>c, <1>e DEF PipeInv, ProofPossible
<1>f. /\ bug \in Nat /\ bc_max_k_step \in Nat /\ MaxKStep \in Nat
      /\ KStep \in Nat
      /\ \A d \in Child : k_step[d] \in Nat
  BY ParamAssumption DEF TypeOK
<1>g. ASSUME UNCHANGED <<cpc[BASE_CASE], k_step[BASE_CASE], bc_max_k_step>> PROVE BaseCaseInv'
  BY <1>b, <1>g DEF BaseCaseInv, NoBugInReach, Lockstep
<1>h. ASSUME cpc'[BASE_CASE] \in {"exit", "dead"}, UNCHANGED bc_max_k_step PROVE BaseCaseInv'
  BY <1>b, <1>h DEF BaseCaseInv, NoBugInReach, Lockstep
<1>1. CASE FrontEnd(c)
  <2>1. PipeInv' BY <1>1, <1>e DEF FrontEnd
  <2>2. BaseCaseInv'
    BY <1>1, <1>a, <1>b DEF FrontEnd, Goto, BaseCaseInv, NoBugInReach, Lockstep, TypeOK
  <2>3. QED BY <2>1, <2>2
<1>2. CASE c = BASE_CASE /\ CheckBaseCase
  <2>1. CASE bug # 0 /\ bug <= k_step[BASE_CASE]
    <3>1. k_step[BASE_CASE] # 0 /\ GoodResult([type |-> c, k |-> k_step[BASE_CASE]])
      BY <1>2, <1>a, <1>f, <2>1 DEF GoodResult
    <3>2. PipeInv'
      BY <1>2, <1>d, <1>a, <1>f, <2>1, <3>1 DEF CheckBaseCase, SendResult
    <3>3. BaseCaseInv'
      BY <1>2, <1>a, <1>h, <2>1 DEF CheckBaseCase, SendResult, Goto, TypeOK
    <3>4. QED BY <3>2, <3>3
  <2>2. CASE ~(bug # 0 /\ bug <= k_step[BASE_CASE])
    <3>1. PipeInv' BY <1>2, <1>e, <2>2 DEF CheckBaseCase
    <3>2. BaseCaseInv'
      BY <1>2, <1>a, <1>b, <1>f, <2>2
      DEF CheckBaseCase, Goto, BaseCaseInv, NoBugInReach, Lockstep, TypeOK
    <3>3. QED BY <3>1, <3>2
  <2>3. QED BY <2>1, <2>2
<1>3. CASE c = BASE_CASE /\ BaseCaseException
  BY <1>3, <1>b, <1>e DEF BaseCaseException, BaseCaseInv, Lockstep
<1>4. CASE c = BASE_CASE /\ PollQuestion
  <2>1. CASE backward_pipe = <<>>
    <3>1. PipeInv' BY <1>4, <1>e, <2>1 DEF PollQuestion
    <3>2. BaseCaseInv'
      BY <1>4, <1>a, <1>b, <1>f, <2>1
      DEF PollQuestion, Goto, NextK, BaseCaseInv, NoBugInReach, TypeOK, Lockstep
    <3>3. QED BY <3>1, <3>2
  <2>2. CASE backward_pipe # <<>>
    <3>1. /\ backward_pipe' = Tail(backward_pipe)
          /\ UNCHANGED forward_pipe
      BY <1>4, <2>2 DEF PollQuestion
    <3>q. backward_pipe \in Seq(Question)
      BY DEF TypeOK
    <3>t. /\ Head(backward_pipe) \in Question
          /\ Head(backward_pipe) = backward_pipe[1]
          /\ 1 \in 1 .. Len(backward_pipe)
          /\ \A i \in 1 .. Len(Tail(backward_pipe)) :
                /\ i + 1 \in 1 .. Len(backward_pipe)
                /\ Tail(backward_pipe)[i] = backward_pipe[i + 1]
      BY <2>2, <3>q, PipeTake
    <3>2. /\ Head(backward_pipe).k \in Nat
          /\ ProofPossible(Head(backward_pipe).k)
          /\ Head(backward_pipe).k <= MaxKStep
      BY <3>t DEF PipeInv, Question
    <3>3. PipeInv'
      BY <1>b, <1>c, <3>1, <3>t DEF PipeInv, ProofPossible
    <3>4. BaseCaseInv'
      <4>1. CASE Head(backward_pipe).k < k_step[BASE_CASE]
        BY <1>4, <1>a, <1>b, <1>f, <2>2, <3>2, <4>1
        DEF PollQuestion, Goto, BaseCaseInv, NoBugInReach, Lockstep, TypeOK, ProofPossible
      <4>2. CASE ~(Head(backward_pipe).k < k_step[BASE_CASE])
        BY <1>4, <1>a, <1>b, <1>f, <2>2, <3>2, <4>2
        DEF PollQuestion, Goto, NextK, BaseCaseInv, NoBugInReach, TypeOK, ProofPossible, Lockstep
      <4>3. QED BY <4>1, <4>2
    <3>5. QED BY <3>3, <3>4
  <2>3. QED BY <2>1, <2>2
<1>5. CASE c \in Prover /\ CheckProof(c)
  <2>1. BaseCaseInv'
    BY <1>5, <1>a, <1>g DEF CheckProof, SendResult, Goto, NextK, TypeOK
  <2>2. CASE UNCHANGED forward_pipe
    BY <1>5, <1>e, <2>1, <2>2 DEF CheckProof
  <2>3. CASE ProofPossible(k_step[c]) /\ SendResult(c, k_step[c])
    <3>1. GoodResult([type |-> c, k |-> k_step[c]])
      BY <1>5, <1>a, <2>3 DEF GoodResult, CheckProof
    <3>2. PipeInv'
      BY <1>5, <1>d, <1>f, <2>3, <3>1 DEF CheckProof, SendResult
    <3>3. QED BY <2>1, <3>2
  <2>4. QED BY <1>5, <2>2, <2>3 DEF CheckProof
<1>6. CASE ReportNothing(c)
  <2>1. GoodResult([type |-> c, k |-> 0])
    BY <1>6, <1>a, <1>f
    DEF ReportNothing, GoodResult, BaseCaseInv, NoBugInReach, Lockstep, max_k_step
  <2>2. PipeInv'
    BY <1>6, <1>d, <2>1 DEF ReportNothing, SendResult
  <2>3. BaseCaseInv'
    BY <1>6, <1>a, <1>g, <1>h DEF ReportNothing, SendResult, Goto, TypeOK
  <2>4. QED BY <2>2, <2>3
<1>7. CASE Exit(c) \/ Crash(c)
  <2>1. PipeInv' BY <1>7, <1>e DEF Exit, Crash
  <2>2. BaseCaseInv'
    BY <1>7, <1>a, <1>g, <1>h DEF Exit, Crash, Goto, TypeOK
  <2>3. QED BY <2>1, <2>2
<1>8. QED BY <1>1, <1>2, <1>3, <1>4, <1>5, <1>6, <1>7 DEF ChildStep

(* What the parent reads, asks and concludes is true of the program.       *)
LEMMA ParentResults ==
  ASSUME IInv, ParentStep
  PROVE  BaseCaseInv' /\ PipeInv' /\ ParentInv' /\ NoOrphans'
<1> USE DEF IInv, program, children
<1>a. /\ Child = {BASE_CASE} \cup Prover
      /\ BASE_CASE \notin Prover
      /\ MaxKStep \in Nat /\ MaxKStep # 0
  BY ParamAssumption DEF Child, Prover, BASE_CASE, FORWARD_CONDITION, INDUCTIVE_STEP
<1>b. UNCHANGED <<bug, throws, cpc, k_step, bc_max_k_step>>
  BY DEF ParentStep, ReadResult, WaitChild, InterpretResult, ConsultProof, AskBaseCase, Conclude
<1>c. \A r : GoodResult(r)' <=> GoodResult(r)
  BY <1>b DEF GoodResult, ProofPossible, NoBugInReach, Lockstep
<1>d. BaseCaseInv' /\ Alive' = Alive
  BY <1>b DEF BaseCaseInv, NoBugInReach, Lockstep, Alive
<1>e. ASSUME UNCHANGED <<forward_pipe, backward_pipe>> PROVE PipeInv'
  BY <1>b, <1>c, <1>e DEF PipeInv, ProofPossible
<1>f. ASSUME UNCHANGED <<a_result, solution, forward_pipe, heard>>
      PROVE  IF heard' THEN HeardResults' ELSE HeardNothing'
  BY <1>c, <1>d, <1>f DEF ParentInv, HeardResults, HeardNothing
<1>1. CASE ReadResult
  <2>1. CASE forward_pipe # <<>> /\ a_result' = Head(forward_pipe) /\ forward_pipe' = Tail(forward_pipe)
    <3>1. forward_pipe \in Seq(Message)
      BY DEF TypeOK
    <3>2. /\ Head(forward_pipe) \in Message
          /\ Head(forward_pipe) = forward_pipe[1]
          /\ 1 \in 1 .. Len(forward_pipe)
          /\ \A i \in 1 .. Len(Tail(forward_pipe)) :
                /\ i + 1 \in 1 .. Len(forward_pipe)
                /\ Tail(forward_pipe)[i] = forward_pipe[i + 1]
      BY <2>1, <3>1, PipeTake
    <3>3. PipeInv'
      BY <1>1, <1>b, <1>c, <2>1, <3>2 DEF PipeInv, ProofPossible, ReadResult
    <3>4. HeardResults \/ \A c \in Child : solution[c] = MaxKStep
      BY <2>1 DEF ParentInv, HeardNothing
    <3>h. heard' /\ UNCHANGED solution
      BY <1>1, <2>1 DEF ReadResult
    <3>5. HeardResults'
      BY <1>c, <2>1, <3>2, <3>4, <3>h DEF HeardResults, PipeInv
    <3>6. a_result'.type \in Child /\ a_result' # NoResult
      BY <2>1, <3>2 DEF Message, NoResult, Child, BASE_CASE, FORWARD_CONDITION, INDUCTIVE_STEP
    <3>7. ParentInv' /\ NoOrphans'
      BY <1>1, <3>5, <3>6, <3>h DEF ParentInv, NoOrphans, ReadResult
    <3>8. QED BY <1>d, <3>3, <3>7
  <2>2. CASE /\ forward_pipe = <<>> /\ Alive = {} /\ UNCHANGED <<forward_pipe, heard>>
             /\ a_result' \in IF a_result = NoResult THEN Uninit ELSE {a_result}
    <3>1. PipeInv'
      BY <1>1, <1>e, <2>2 DEF ReadResult
    <3>2. a_result' # NoResult
      BY <2>2, ParamAssumption
      DEF resultt, NoResult, Child, BASE_CASE, FORWARD_CONDITION, INDUCTIVE_STEP, PARENT
    <3>3. IF heard' THEN HeardResults' ELSE HeardNothing'
      <4>1. CASE a_result = NoResult
        <5>1. ~heard' /\ HeardNothing
          BY <1>1, <2>2, <4>1 DEF ParentInv
        <5>2. \A c \in Child : solution[c] = MaxKStep
          BY <2>2, <3>2, <4>1, <5>1, ParamAssumption
          DEF HeardNothing, resultt, NoResult, Child, BASE_CASE, FORWARD_CONDITION, INDUCTIVE_STEP, PARENT
        <5>3. a_result' \in Uninit /\ UNCHANGED solution
          BY <1>1, <2>2, <4>1 DEF ReadResult
        <5>4. QED BY <1>d, <2>2, <5>1, <5>2, <5>3 DEF HeardNothing
      <4>2. CASE a_result # NoResult
        <5>1. UNCHANGED <<a_result, solution, forward_pipe, heard>>
          BY <1>1, <2>2, <4>2 DEF ReadResult
        <5>2. QED BY <1>f, <5>1 DEF ParentInv
      <4>3. QED BY <4>1, <4>2
    <3>4. ParentInv' /\ NoOrphans'
      BY <1>1, <1>d, <2>2, <3>2, <3>3 DEF ParentInv, NoOrphans, ReadResult
    <3>5. QED BY <1>d, <3>1, <3>4
  <2>3. QED BY <1>1, <2>1, <2>2 DEF ReadResult
<1>2. ASSUME NEW c, NEW here \in {"wait_bc", "wait_fc", "wait_is"},
             NEW next \in {"wait_fc", "wait_is", "switch"}, WaitChild(c, here, next)
      PROVE  PipeInv' /\ ParentInv' /\ NoOrphans'
  <2>1. UNCHANGED <<a_result, solution, forward_pipe, backward_pipe, verdict, doomed, heard>>
    BY <1>2 DEF WaitChild
  <2>2. IF heard' THEN HeardResults' ELSE HeardNothing'
    BY <1>f, <2>1 DEF ParentInv
  <2>3. QED BY <1>2, <1>d, <1>e, <2>1, <2>2 DEF WaitChild, ParentInv, NoOrphans
<1>3. CASE InterpretResult
  <2>1. PipeInv'
    BY <1>3, <1>e DEF InterpretResult
  <2>2. CASE a_result.type \in Child
    <3>1. a_result.k \in Nat /\ a_result = [type |-> a_result.type, k |-> a_result.k]
      BY <2>2 DEF TypeOK, resultt, NoResult, Child, BASE_CASE, FORWARD_CONDITION, INDUCTIVE_STEP
    <3>2. /\ solution' = [solution EXCEPT ![a_result.type] = a_result.k]
          /\ solution \in [Child -> Nat]
          /\ UNCHANGED <<a_result, forward_pipe, heard>>
      BY <1>3, <2>2 DEF InterpretResult, TypeOK
    <3>3. HeardResults => HeardResults'
      BY <1>c, <2>2, <3>1, <3>2 DEF HeardResults
    <3>4. HeardNothing /\ a_result # NoResult => HeardNothing'
      BY <1>d, <2>2, <3>2 DEF HeardNothing
    <3>5. a_result # NoResult
      BY <1>3 DEF InterpretResult, ParentInv
    <3>6. QED
      BY <1>3, <1>d, <2>1, <2>2, <3>2, <3>3, <3>4, <3>5 DEF InterpretResult, ParentInv, NoOrphans
  <2>3. CASE a_result.type \notin Child
    <3>1. a_result # NoResult /\ Alive = {}
      BY <1>3, <2>3 DEF InterpretResult, ParentInv
    <3>2. UNCHANGED <<a_result, solution, forward_pipe, heard>>
      BY <1>3, <2>3 DEF InterpretResult
    <3>3. IF heard' THEN HeardResults' ELSE HeardNothing'
      BY <1>f, <3>2 DEF ParentInv
    <3>4. QED
      BY <1>3, <1>d, <2>1, <2>3, <3>1, <3>2, <3>3 DEF InterpretResult, ParentInv, NoOrphans
  <2>4. QED BY <2>2, <2>3
<1>4. ASSUME NEW c, NEW other, NEW here \in {"fc", "is"},
             NEW next \in {"is", "verdict", "read"}, NEW asking,
             <<c, asking>> \in {<<FORWARD_CONDITION, "ask_fc">>, <<INDUCTIVE_STEP, "ask_is">>},
             ConsultProof(c, other, here, asking, next)
      PROVE  PipeInv' /\ ParentInv' /\ NoOrphans'
  <2>1. UNCHANGED <<a_result, solution, finished, forward_pipe, backward_pipe, verdict, heard>>
    BY <1>4 DEF ConsultProof
  <2>2. IF heard' THEN HeardResults' ELSE HeardNothing'
    BY <1>f, <2>1 DEF ParentInv
  <2>3. /\ ppc = here
        /\ \/ ppc' \in {"is", "verdict", "read"}
           \/ ppc' = asking /\ Conclusive(c)
    BY <1>4 DEF ConsultProof
  <2>4. Conclusive(c)' <=> Conclusive(c)
    BY <2>1 DEF Conclusive
  <2>5. ParentInv'
    BY <1>4, <1>d, <2>1, <2>2, <2>3, <2>4 DEF ParentInv
  <2>6. QED BY <1>4, <1>d, <1>e, <2>1, <2>3, <2>5 DEF NoOrphans
<1>5. ASSUME NEW c \in Prover, NEW here \in {"ask_fc", "ask_is"},
             NEW next \in {"is", "verdict", "read"},
             Conclusive(c), AskBaseCase(c, here, next)
      PROVE  PipeInv' /\ ParentInv' /\ NoOrphans'
  <2>1. UNCHANGED <<a_result, solution, forward_pipe, verdict, doomed, heard>>
    BY <1>5 DEF AskBaseCase
  <2>2. IF heard' THEN HeardResults' ELSE HeardNothing'
    BY <1>f, <2>1 DEF ParentInv
  <2>3. ppc = here /\ (ppc' = next \/ (ppc' = "dead" /\ Alive = {}))
    BY <1>5 DEF AskBaseCase
  <2>4. ParentInv' /\ NoOrphans'
    BY <1>d, <2>1, <2>2, <2>3 DEF ParentInv, NoOrphans
  <2>5. CASE UNCHANGED backward_pipe
    BY <1>e, <2>1, <2>4, <2>5
  <2>6. CASE Alive # {} /\ backward_pipe' = Append(backward_pipe, [type |-> PARENT, k |-> solution[c]])
    <3>1. /\ solution[c] \in Nat
          /\ ProofPossible(solution[c])
          /\ solution[c] <= MaxKStep
      BY <1>5, <1>a, <2>6 DEF Conclusive, ParentInv, HeardResults, HeardNothing, GoodResult, TypeOK
    <3>2. [type |-> PARENT, k |-> solution[c]] \in Question /\ backward_pipe \in Seq(Question)
      BY <3>1 DEF Question, TypeOK
    <3>3. Len(backward_pipe) \in Nat
      BY <3>2, LenProperties
    <3>4. \A i \in 1 .. Len(backward_pipe') :
             ProofPossible(backward_pipe'[i].k) /\ backward_pipe'[i].k <= MaxKStep
      BY <2>6, <3>1, <3>2, <3>3, PipeAppend DEF PipeInv
    <3>5. QED BY <1>b, <1>c, <2>1, <2>4, <3>4 DEF PipeInv, ProofPossible
  <2>7. QED BY <1>5, <2>5, <2>6 DEF AskBaseCase
<1>6. CASE Conclude
  <2>1. UNCHANGED <<a_result, solution, forward_pipe, backward_pipe, heard>> /\ ppc' = "done" /\ doomed' = Alive
    BY <1>6 DEF Conclude
  <2>2. IF heard' THEN HeardResults' ELSE HeardNothing'
    BY <1>f, <2>1 DEF ParentInv
  <2>3. QED BY <1>d, <1>e, <2>1, <2>2 DEF ParentInv, NoOrphans
<1>7. LoopOrLeave \in {"is", "verdict", "read"}
  BY DEF LoopOrLeave
<1>8. CASE \/ ConsultProof(FORWARD_CONDITION, INDUCTIVE_STEP, "fc", "ask_fc", "is")
           \/ ConsultProof(INDUCTIVE_STEP, FORWARD_CONDITION, "is", "ask_is", LoopOrLeave)
  BY <1>4, <1>7, <1>8, <1>d
<1>9. CASE \/ AskBaseCase(FORWARD_CONDITION, "ask_fc", "is")
           \/ AskBaseCase(INDUCTIVE_STEP, "ask_is", LoopOrLeave)
  <2>1. FORWARD_CONDITION \in Prover /\ INDUCTIVE_STEP \in Prover
    BY DEF Prover
  <2>2. \/ AskBaseCase(FORWARD_CONDITION, "ask_fc", "is") /\ Conclusive(FORWARD_CONDITION)
        \/ AskBaseCase(INDUCTIVE_STEP, "ask_is", LoopOrLeave) /\ Conclusive(INDUCTIVE_STEP)
    BY <1>9 DEF AskBaseCase, ParentInv
  <2>3. QED BY <1>5, <1>7, <1>d, <2>1, <2>2
<1>10. CASE \/ WaitChild(BASE_CASE, "wait_bc", "wait_fc")
            \/ WaitChild(FORWARD_CONDITION, "wait_fc", "wait_is")
            \/ WaitChild(INDUCTIVE_STEP, "wait_is", "switch")
  BY <1>2, <1>10, <1>d
<1>11. QED BY <1>1, <1>3, <1>6, <1>8, <1>9, <1>10, <1>d DEF ParentStep

(* Every step preserves the inductive invariant.                           *)
LEMMA InvStep == IInv /\ [Next]_vars => IInv'
<1> SUFFICES ASSUME IInv, [Next]_vars PROVE IInv'
  OBVIOUS
<1>1. ASSUME NEW c \in Child, ChildStep(c) \/ Crash(c) PROVE IInv'
  <2>1. TypeOK
    BY DEF IInv
  <2>2. TypeOK'
    BY <1>1, <2>1, TypeChild
  <2>3. /\ UNCHANGED <<bug, throws, doomed, ppc, a_result, finished, solution, verdict, heard>>
        /\ Alive # {}
        /\ Alive' \subseteq Alive
    BY <1>1, <2>1, ChildFrame
  <2>4. BaseCaseInv' /\ PipeInv'
    BY <1>1, ChildResults
  <2>5. IF heard' THEN HeardResults' ELSE HeardNothing'
    BY <2>3 DEF IInv, ParentInv, HeardNothing, HeardResults, GoodResult, ProofPossible, NoBugInReach, Lockstep
  <2>6. ParentInv'
    BY <2>3, <2>5 DEF IInv, ParentInv, Conclusive
  <2>7. NoOrphans'
    BY <2>3 DEF IInv, NoOrphans
  <2>8. QED BY <2>2, <2>4, <2>6, <2>7 DEF IInv
<1>2. CASE ParentStep
  BY <1>2, TypeParent, ParentResults DEF IInv
<1>3. CASE UNCHANGED vars
  <2>1. TypeOK' /\ BaseCaseInv'
    BY <1>3 DEF IInv, vars, program, children, parent, TypeOK, BaseCaseInv, NoBugInReach, Lockstep
  <2>2. PipeInv'
    BY <1>3 DEF IInv, vars, program, children, parent, PipeInv, GoodResult, ProofPossible, NoBugInReach, Lockstep
  <2>3. IF heard' THEN HeardResults' ELSE HeardNothing'
    BY <1>3 DEF IInv, vars, program, children, parent, ParentInv, HeardResults, HeardNothing,
                GoodResult, ProofPossible, NoBugInReach, Lockstep, Alive
  <2>4. ParentInv' /\ NoOrphans'
    BY <1>3, <2>3 DEF IInv, vars, program, children, parent, ParentInv, NoOrphans, Conclusive, Alive
  <2>5. QED BY <2>1, <2>2, <2>4 DEF IInv
<1>4. QED BY <1>1, <1>2, <1>3 DEF Next

(* The inductive invariant: what a child has asked and been told agrees    *)
(* with what it knows, and what the parent has noted with what the         *)
(* children know.                                                          *)
THEOREM InvariantHolds == SafetySpec => []IInv
  BY InvInit, InvStep, PTL DEF SafetySpec

(***************************************************************************)
(* What the invariant gives.                                               *)
(***************************************************************************)

(* The verdict a session concludes with, from a state of the invariant.    *)
LEMMA ConcludeSound ==
  ASSUME IInv, Conclude
  PROVE  /\ verdict = "NONE"
         /\ verdict' \in {"FAILED", "SUCCESSFUL", "UNKNOWN"}
         /\ heard' = heard
         /\ heard /\ verdict' = "FAILED" => bug # 0
         /\ Lockstep /\ verdict' = "SUCCESSFUL" => bug = 0
<1> USE DEF IInv
<1>a. /\ BASE_CASE \notin Prover
      /\ BASE_CASE \in Child
      /\ Prover \subseteq Child
      /\ MaxKStep \in Nat /\ MaxKStep # 0
  BY ParamAssumption DEF Child, Prover, BASE_CASE, FORWARD_CONDITION, INDUCTIVE_STEP
<1>1. /\ verdict = "NONE"
      /\ verdict' \in {"FAILED", "SUCCESSFUL", "UNKNOWN"}
      /\ heard' = heard
  BY DEF Conclude, ParentInv
<1>2. ASSUME heard, verdict' = "FAILED" PROVE bug # 0
  <2>1. Conclusive(BASE_CASE)
    BY <1>2 DEF Conclude
  <2>2. HeardResults
    BY <1>2 DEF ParentInv
  <2>3. QED BY <1>a, <2>1, <2>2 DEF Conclusive, HeardResults, GoodResult
<1>3. ASSUME Lockstep, verdict' = "SUCCESSFUL" PROVE bug = 0
  <2>1. PICK c \in Prover : Conclusive(c)
    BY <1>3 DEF Conclude
  <2>2. solution[BASE_CASE] = 0 /\ solution[c] \notin {0, MaxKStep}
    BY <1>3, <2>1 DEF Conclude, Conclusive
  <2>3. HeardResults
    BY <1>a, <2>1, <2>2 DEF ParentInv, HeardNothing
  <2>4. NoBugInReach
    BY <1>3, <1>a, <2>2, <2>3 DEF HeardResults, GoodResult
  <2>5. ProofPossible(solution[c]) /\ solution[c] <= MaxKStep
    BY <1>a, <2>1, <2>2, <2>3 DEF HeardResults, GoodResult
  <2>6. bug \in Nat /\ solution[c] \in Nat
    BY <1>a, <2>1, ParamAssumption DEF TypeOK
  <2>7. QED BY <1>a, <2>4, <2>5, <2>6 DEF NoBugInReach, ProofPossible
<1>4. QED BY <1>1, <1>2, <1>3

(* Only Conclude changes the verdict, and a parent that has pronounced one *)
(* hears no more results.                                                  *)
LEMMA VerdictStep ==
  ASSUME IInv, [Next]_vars
  PROVE  /\ UNCHANGED <<bug, throws>>
         /\ UNCHANGED verdict \/ Conclude
         /\ verdict # "NONE" => UNCHANGED heard
<1>1. ASSUME NEW c \in Child, ChildStep(c) \/ Crash(c)
      PROVE  UNCHANGED <<bug, throws, verdict, heard>>
  BY <1>1, ChildFrame DEF IInv
<1>2. CASE ReadResult
  BY <1>2 DEF ReadResult, IInv, ParentInv, program
<1>3. CASE ParentStep /\ ~ReadResult
  BY <1>3 DEF ParentStep, WaitChild, InterpretResult, ConsultProof, AskBaseCase,
              Conclude, program
<1>4. CASE UNCHANGED vars
  BY <1>4 DEF vars, program, parent
<1>5. QED BY <1>1, <1>2, <1>3, <1>4 DEF Next

(* A SUCCESSFUL verdict of a session whose base case throws nothing is     *)
(* true of the program, for every max-k-step, when k-step is 1.            *)
THEOREM SuccessTheorem ==
  ASSUME KStep = 1
  PROVE  SafetySpec => []SuccessSound
<1>1. Init => SuccessSound
  BY DEF Init, SuccessSound
<1>2. IInv /\ SuccessSound /\ [Next]_vars => SuccessSound'
  BY VerdictStep, ConcludeSound DEF IInv, SuccessSound, Lockstep
<1>3. QED BY <1>1, <1>2, InvariantHolds, PTL DEF SafetySpec

(* A FAILED verdict of a parent that has heard a child is true of the      *)
(* program, whatever crashes and whatever a_result held at first, for      *)
(* every max-k-step and k-step.                                            *)
THEOREM FailureTheorem == SafetySpec => []HeardFailureSound
<1>1. Init => HeardFailureSound
  BY DEF Init, HeardFailureSound
<1>2. IInv /\ HeardFailureSound /\ [Next]_vars => HeardFailureSound'
  <2> SUFFICES ASSUME IInv, HeardFailureSound, [Next]_vars, heard', verdict' = "FAILED"
               PROVE  bug' # 0
    BY DEF HeardFailureSound
  <2>1. CASE Conclude
    BY <2>1, VerdictStep, ConcludeSound
  <2>2. CASE UNCHANGED verdict
    BY <2>2, VerdictStep DEF HeardFailureSound
  <2>3. QED BY <2>1, <2>2, VerdictStep
<1>3. QED BY <1>1, <1>2, InvariantHolds, PTL DEF SafetySpec

(* However the parent stops, it leaves no child running unkilled.          *)
THEOREM NoOrphansTheorem == SafetySpec => []NoOrphans
  BY InvariantHolds, PTL DEF IInv

(* The parallel driver implements the abstract promise of a verdict, but   *)
(* for what Worthless names; whatever a_result held at first.              *)
THEOREM VerdictRefinementTheorem ==
  ASSUME KStep = 1
  PROVE  SafetySpec => VerdictRefinement
<1> DEFINE said == IF Worthless THEN "UNKNOWN" ELSE verdict
<1>1. Init => Abstract!Init
  BY ParamAssumption DEF Init, Abstract!Init, Worthless
<1>2. ASSUME IInv, [Next]_vars PROVE [Abstract!Decide]_<<bug, said>>
  <2>1. CASE Conclude
    <3>1. UNCHANGED <<bug, throws, heard>> /\ verdict = "NONE" /\ said = "NONE"
      BY <1>2, <2>1, VerdictStep, ConcludeSound DEF Worthless
    <3>2. said' \in Abstract!Verdicts
      BY <1>2, <2>1, ConcludeSound DEF Worthless, Abstract!Verdicts
    <3>3. said' = "FAILED" => bug # 0
      BY <1>2, <2>1, <3>1, ConcludeSound DEF Worthless
    <3>4. said' = "SUCCESSFUL" => bug = 0
      BY <1>2, <2>1, <3>1, ConcludeSound DEF Worthless, Lockstep
    <3>5. QED BY <3>1, <3>2, <3>3, <3>4 DEF Abstract!Decide
  <2>2. CASE UNCHANGED verdict
    <3>1. verdict = "NONE" \/ UNCHANGED heard
      BY <1>2, VerdictStep
    <3>2. UNCHANGED <<bug, said>>
      BY <1>2, <2>2, <3>1, VerdictStep DEF Worthless
    <3>3. QED BY <3>2
  <2>3. QED BY <1>2, <2>1, <2>2, VerdictStep
<1>3. QED BY <1>1, <1>2, InvariantHolds, PTL DEF SafetySpec, VerdictRefinement, Abstract!Spec
=============================================================================
