----------------------- MODULE ReachabilityTree_proofs -----------------------
(***************************************************************************)
(* The explorer of interleavings, for every program, every set of shared   *)
(* variables, with and without a context bound and partial-order           *)
(* reduction: its states are well typed, the count of claims that decides  *)
(* whether a formula is solved is exact, no interleaving is explored       *)
(* twice, and every bug it finds is one of the reference's.                *)
(*                                                                         *)
(* The invariant speaks of the whole stack, of which the properties see    *)
(* only the top: every state below it comes back on a backtrack.           *)
(***************************************************************************)
EXTENDS ReachabilityTree, SetLemmas

(* A thread, and what symbolic execution knows of the program.             *)
ThreadState(p) ==
  [body : DOMAIN p.bodies, pc : Nat \ {0}, thread_ended : BOOLEAN,
   atomic : Int, local : Nat]

ConfOK(p, conf) ==
  /\ conf \in [mem : [Vars -> Nat], threads : [Thread(conf) -> ThreadState(p)],
               feasible : BOOLEAN, guard_false : BOOLEAN]
  /\ Cardinality(Thread(conf)) \in Nat \ {0}
  /\ Thread(conf) = 0 .. Cardinality(Thread(conf)) - 1

Claim == [about : Nat \X Nat \X Nat, vacuous : BOOLEAN]

StateFields ==
  {"conf", "active_thread", "CS_number", "DFS_traversed", "thread_last_reads",
   "thread_last_writes", "dependancy_chain", "mpor_says_no", "cswitch_forced",
   "claims", "remaining_claims", "path"}

(* An execution state, field by field.                                     *)
StateOK(p, s) ==
  LET threads == Thread(s.conf)
  IN  /\ DOMAIN s = StateFields
      /\ ConfOK(p, s.conf)
      /\ s.active_thread \in threads
      /\ s.CS_number \in Nat
      /\ s.DFS_traversed \subseteq threads
      /\ s.thread_last_reads \in [threads -> SUBSET SharedVar]
      /\ s.thread_last_writes \in [threads -> SUBSET SharedVar]
      /\ s.dependancy_chain \in [threads -> [threads -> {-1, 0, 1}]]
      /\ s.mpor_says_no \in BOOLEAN
      /\ s.cswitch_forced \in BOOLEAN
      /\ s.claims \in Seq(Claim)
      /\ s.remaining_claims \in Nat
      /\ s.path \in Seq(Nat)

(* What holds of the m-th state of the stack by itself.                    *)
LevelOK(p, s, m) ==
  /\ StateOK(p, s)
  /\ s.CS_number <= m - 1
  /\ Len(s.path) = m
  /\ s.remaining_claims = Len(s.claims)

StackInv ==
  /\ program \in Programs /\ options \in Options
  /\ phase \in {"symex", "formula", "done"}
  /\ phase = "done" <=> execution_states = <<>>
  /\ execution_states \in Seq(Range(execution_states))
  /\ \A m \in 1 .. Len(execution_states) : LevelOK(program, execution_states[m], m)

(* The stack spells the interleaving: each state was reached from the one  *)
(* below it, by a thread that is lower than all that are still to try      *)
(* there.                                                                  *)
PathInv ==
  \A m \in 1 .. Len(execution_states) :
    /\ \A k \in 1 .. m : execution_states[m].path[k] = Top.path[k]
    /\ m < Len(execution_states) =>
         \A tid \in Viable(execution_states[m]) : tid > Top.path[m + 1]

LexBefore(p, q) ==
  \E n \in 1 .. Len(p) :
    /\ n <= Len(q)
    /\ p[n] < q[n]
    /\ \A m \in 1 .. n - 1 : p[m] = q[m]

OrderInv ==
  /\ last_path \in Seq(Nat)
  /\ last_path # <<>> /\ phase # "done" => LexBefore(last_path, Top.path)

TreeInv == StackInv /\ PathInv /\ OrderInv

-----------------------------------------------------------------------------
(* One step of a thread *)

(* The instruction a thread is at is one of its body, or the end of it.    *)
LEMMA InstrType ==
  ASSUME program \in Programs, NEW conf, ConfOK(program, conf), NEW t \in Thread(conf)
  PROVE  LET i == Instr(program, conf, t)
         IN  /\ i.op \in {"store", "inc", "load", "assert", "assume"} => i.x \in Vars
             /\ i.op = "spawn" => i.x \in DOMAIN program.bodies
PROOF
<1> DEFINE thread == conf.threads[t]
           body == program.bodies[thread.body]
<1>1. thread.body \in DOMAIN program.bodies /\ thread.pc \in Nat \ {0}
  BY DEF ConfOK, ThreadState
<1>2. Len(body) \in Nat /\ DOMAIN body = 1 .. Len(body)
  BY <1>1, ProgramAssumption
<1>3. CASE thread.pc <= Len(body)
  <2>1. thread.pc \in DOMAIN body
    BY <1>1, <1>2, <1>3
  <2>2. Instr(program, conf, t) = body[thread.pc]
    BY <1>3 DEF Instr
  <2> HIDE DEF thread, body
  <2> QED BY <1>1, <2>1, <2>2, ProgramAssumption DEF body
<1>4. CASE ~(thread.pc <= Len(body))
  BY <1>4 DEF Instr, EndOfBody
<1> QED BY <1>3, <1>4

(* The state of a thread that was just created.                            *)
LEMMA NewThreadType ==
  ASSUME NEW b \in DOMAIN program.bodies
  PROVE  NewThread(b) \in ThreadState(program)
BY DEF NewThread, ThreadState

(* A configuration whose threads are numbered 0 to n - 1 is well typed.    *)
LEMMA ConfIntro ==
  ASSUME NEW conf, NEW n \in Nat \ {0},
         conf \in [mem : [Vars -> Nat], threads : [0 .. n - 1 -> ThreadState(program)],
                   feasible : BOOLEAN, guard_false : BOOLEAN]
  PROVE  ConfOK(program, conf) /\ Thread(conf) = 0 .. n - 1
PROOF
<1>1. Thread(conf) = 0 .. n - 1
  BY DEF Thread
<1>2. Cardinality(0 .. n - 1) = n
  BY FS_Interval
<1> QED BY <1>1, <1>2 DEF ConfOK

(* A step keeps the configuration well typed, and no thread disappears.    *)
LEMMA StepType ==
  ASSUME program \in Programs, NEW conf, ConfOK(program, conf), NEW t \in Thread(conf)
  PROVE  /\ ConfOK(program, Step(program, conf, t))
         /\ Thread(conf) \subseteq Thread(Step(program, conf, t))
PROOF
<1> DEFINE i == Instr(program, conf, t)
           n == Cardinality(Thread(conf))
           moved == [conf.threads EXCEPT ![t] = AfterInstr(i, conf, t)]
           next == Step(program, conf, t)
           ConfType(m) == [mem : [Vars -> Nat], threads : [0 .. m - 1 -> ThreadState(program)],
                           feasible : BOOLEAN, guard_false : BOOLEAN]
<1>1. /\ i.op \in {"store", "inc", "load", "assert", "assume"} => i.x \in Vars
      /\ i.op = "spawn" => i.x \in DOMAIN program.bodies
  BY InstrType
<1>2. /\ n \in Nat \ {0} /\ Thread(conf) = 0 .. n - 1
      /\ conf.threads \in [0 .. n - 1 -> ThreadState(program)]
      /\ conf.mem \in [Vars -> Nat]
      /\ conf.feasible \in BOOLEAN /\ conf.guard_false \in BOOLEAN
  BY DEF ConfOK
<1>3. t \in Nat
  BY <1>2
<1> HIDE DEF i, n
<1>4. AfterInstr(i, conf, t) \in ThreadState(program)
  <2>1. conf.threads[t] \in ThreadState(program)
    BY <1>2
  <2>2. i.op = "load" => conf.mem[i.x] \in Nat
    BY <1>1, <1>2
  <2>3. ASSUME NEW thread \in ThreadState(program)
        PROVE  /\ [thread EXCEPT !.thread_ended = TRUE, !.atomic = 0] \in ThreadState(program)
               /\ [thread EXCEPT !.pc = @ + 1] \in ThreadState(program)
               /\ [thread EXCEPT !.pc = @ + 1, !.atomic = @ + 1] \in ThreadState(program)
               /\ [thread EXCEPT !.pc = @ + 1, !.atomic = @ - 1] \in ThreadState(program)
               /\ \A v \in Nat : [thread EXCEPT !.pc = @ + 1, !.local = v] \in ThreadState(program)
    <3>1. thread.pc + 1 \in Nat \ {0} /\ thread.atomic + 1 \in Int /\ thread.atomic - 1 \in Int
      BY DEF ThreadState
    <3>2. [thread EXCEPT !.thread_ended = TRUE, !.atomic = 0] \in ThreadState(program)
      <4> DEFINE ended == [thread EXCEPT !.thread_ended = TRUE]
      <4>1. ended \in ThreadState(program)
        BY DEF ThreadState
      <4> HIDE DEF ended
      <4>2. [ended EXCEPT !.atomic = 0] \in ThreadState(program)
        BY <4>1 DEF ThreadState
      <4> QED BY <4>2 DEF ended
    <3>3. [thread EXCEPT !.pc = @ + 1] \in ThreadState(program)
      BY <3>1 DEF ThreadState
    <3>4. [thread EXCEPT !.pc = @ + 1, !.atomic = @ + 1] \in ThreadState(program)
      BY <3>1 DEF ThreadState
    <3>5. [thread EXCEPT !.pc = @ + 1, !.atomic = @ - 1] \in ThreadState(program)
      BY <3>1 DEF ThreadState
    <3>6. \A v \in Nat : [thread EXCEPT !.pc = @ + 1, !.local = v] \in ThreadState(program)
      BY <3>1 DEF ThreadState
    <3> QED BY <3>2, <3>3, <3>4, <3>5, <3>6
  <2> DEFINE thread == conf.threads[t]
             loaded == conf.mem[i.x]
  <2>4. AfterInstr(i, conf, t) =
          CASE i.op = "end" -> [thread EXCEPT !.thread_ended = TRUE, !.atomic = 0]
            [] i.op = "atomic_begin" -> [thread EXCEPT !.pc = @ + 1, !.atomic = @ + 1]
            [] i.op = "atomic_end" -> [thread EXCEPT !.pc = @ + 1, !.atomic = @ - 1]
            [] i.op = "load" /\ ~conf.guard_false -> [thread EXCEPT !.pc = @ + 1, !.local = loaded]
            [] OTHER -> [thread EXCEPT !.pc = @ + 1]
    BY DEF AfterInstr
  <2>5. thread \in ThreadState(program) /\ (i.op = "load" => loaded \in Nat)
    BY <2>1, <2>2
  <2> HIDE DEF thread, loaded
  <2> QED BY <2>3, <2>4, <2>5
<1>5. moved \in [0 .. n - 1 -> ThreadState(program)]
  BY <1>2, <1>4
<1>6. NewMem(i, conf, t) \in [Vars -> Nat]
  BY <1>1, <1>2, <1>3 DEF NewMem
<1>7. Assumption(i, conf) \in BOOLEAN
  BY <1>2 DEF Assumption, ThreadState
<1> HIDE DEF moved
<1>8. CASE conf.guard_false
  <2>1. next = [conf EXCEPT !.threads = moved]
    BY <1>8 DEF Step, i, n, moved
  <2>2. next \in ConfType(n)
    BY <2>1, <1>5 DEF ConfOK
  <2> QED BY <2>2, <1>2, ConfIntro
<1>9. CASE ~conf.guard_false
  <2> DEFINE spawned == [u \in 0 .. n |-> IF u = n THEN NewThread(i.x) ELSE moved[u]]
             threads == IF i.op = "spawn" THEN spawned ELSE moved
             mainEnds == i.op = "end" /\ t = 0 /\ ~program.leak_check
  <2>1. next = [mem |-> NewMem(i, conf, t), threads |-> threads,
                feasible |-> conf.feasible /\ Assumption(i, conf) /\ ~mainEnds,
                guard_false |-> mainEnds]
    BY <1>9 DEF Step, i, n, moved
  <2>2. CASE i.op = "spawn"
    <3>1. NewThread(i.x) \in ThreadState(program)
      BY <1>1, <2>2, NewThreadType
    <3>2. \A u \in 0 .. n : u # n => u \in 0 .. n - 1
      BY <1>2
    <3>3. spawned \in [0 .. n -> ThreadState(program)]
      BY <3>1, <3>2, <1>5
    <3> DEFINE m == n + 1
    <3>4. m \in Nat \ {0} /\ m - 1 = n /\ 0 .. n - 1 \subseteq 0 .. n
      BY <1>2
    <3> HIDE DEF m
    <3>5. threads \in [0 .. m - 1 -> ThreadState(program)]
      BY <2>2, <3>3, <3>4
    <3> HIDE DEF threads
    <3>6. next \in ConfType(m)
      BY <2>1, <3>5, <1>6, <1>7, <1>2
    <3> HIDE DEF next
    <3>7. ConfOK(program, next) /\ Thread(next) = 0 .. m - 1
      BY <3>4, <3>6, ConfIntro
    <3> QED BY <3>4, <3>7, <1>2 DEF next
  <2>3. CASE i.op # "spawn"
    <3>1. threads \in [0 .. n - 1 -> ThreadState(program)]
      BY <2>3, <1>5
    <3> HIDE DEF threads
    <3>2. next \in ConfType(n)
      BY <2>1, <3>1, <1>6, <1>7, <1>2
    <3> QED BY <3>2, <1>2, ConfIntro
  <2> QED BY <2>2, <2>3
<1> QED BY <1>8, <1>9

(* The claims of a step are about the thread, its place and a value; there *)
(* are finitely many.                                                      *)
LEMMA ClaimsType ==
  ASSUME program \in Programs, NEW conf, ConfOK(program, conf), NEW t \in Thread(conf)
  PROVE  /\ Claims(program, conf, t) \subseteq Nat \X Nat \X Nat
         /\ IsFiniteSet(Claims(program, conf, t))
PROOF
<1> DEFINE i == Instr(program, conf, t)
<1>1. /\ conf.threads[t] \in ThreadState(program) /\ conf.mem \in [Vars -> Nat] /\ t \in Nat
      /\ i.op = "assert" => i.x \in Vars
  BY InstrType DEF ConfOK
<1> HIDE DEF i
<1>2. /\ conf.threads[t].pc \in Nat /\ conf.threads[t].local \in Nat
      /\ i.op = "assert" => conf.mem[i.x] \in Nat
  BY <1>1 DEF ThreadState
<1>3. Claims(program, conf, t) =
        IF conf.guard_false THEN {}
        ELSE IF i.op = "assert" THEN {<<t, conf.threads[t].pc, conf.mem[i.x]>>}
        ELSE IF i.op = "claim" THEN {<<t, conf.threads[t].pc, conf.threads[t].local>>}
        ELSE {}
  BY DEF Claims, i
<1>4. Claims(program, conf, t) \subseteq Nat \X Nat \X Nat
  BY <1>1, <1>2, <1>3
<1>5. IsFiniteSet(Claims(program, conf, t))
  <2>1. Claims(program, conf, t) = {} \/ \E c : Claims(program, conf, t) = {c}
    BY <1>3
  <2> QED BY ONLY <2>1, FS_EmptySet, FS_Singleton
<1> QED BY <1>4, <1>5

(* What a thread reads and writes has its type.                            *)
LEMMA AccessType ==
  ASSUME program \in Programs, NEW conf, ConfOK(program, conf), NEW t \in Thread(conf)
  PROVE  /\ Reads(program, conf, t) \subseteq SharedVar
         /\ Writes(program, conf, t) \subseteq SharedVar
BY InstrType DEF Reads, Writes, SharedVar

(* The per-thread vectors grow by one when a thread is created.            *)
LEMMA ExtendType ==
  ASSUME NEW S, NEW threads, NEW old \in SUBSET threads,
         NEW record \in [old -> S], NEW default \in S
  PROVE  Extend(record, threads, default) \in [threads -> S]
BY DEF Extend

(* So does the dependency matrix.                                          *)
LEMMA ExtendMatrixType ==
  ASSUME NEW threads, NEW old \in SUBSET threads,
         NEW chain \in [old -> [old -> {-1, 0, 1}]]
  PROVE  ExtendMatrix(chain, threads) \in [threads -> [threads -> {-1, 0, 1}]]
PROOF
<1> DEFINE row(t) == IF t \in DOMAIN chain THEN chain[t] ELSE [u \in {} |-> 0]
<1>1. ASSUME NEW t \in threads
      PROVE  Extend(row(t), threads, 0) \in [threads -> {-1, 0, 1}]
  <2>1. CASE t \in old
    BY <2>1, ExtendType
  <2>2. CASE t \notin old
    <3>1. row(t) \in [{} -> {-1, 0, 1}]
      BY <2>2
    <3> HIDE DEF row
    <3> QED BY <3>1, ExtendType
  <2> QED BY <2>1, <2>2
<1> QED BY <1>1 DEF ExtendMatrix

(* symex_step keeps a level of the stack well formed, and its path.        *)
LEMMA StepStateOK ==
  ASSUME program \in Programs, NEW m, NEW s, LevelOK(program, s, m)
  PROVE  LevelOK(program, StepState(s), m) /\ StepState(s).path = s.path
PROOF
<1> DEFINE t == s.active_thread
           conf == Step(program, s.conf, t)
           threads == Thread(conf)
           i == Instr(program, s.conf, t)
           made == Claims(program, s.conf, t)
           claims == {[about |-> c, vacuous |-> ~s.conf.feasible] : c \in made}
           reads == Accessed(s.thread_last_reads, threads, t, Reads(program, s.conf, t))
           writes == Accessed(s.thread_last_writes, threads, t, Writes(program, s.conf, t))
           chain == ExtendMatrix(s.dependancy_chain, threads)
           forced == s.cswitch_forced \/ (i.op \in {"spawn", "yield"} /\ ~s.conf.guard_false)
           equation == s.claims \o SetToSeq(claims)
           remaining == s.remaining_claims + Cardinality(claims)
           next == StepState(s)
<1>1. ConfOK(program, s.conf) /\ t \in Thread(s.conf)
  BY DEF LevelOK, StateOK
<1>2. ConfOK(program, conf) /\ Thread(s.conf) \subseteq threads /\ t \in threads
  BY <1>1, StepType
<1>3. Reads(program, s.conf, t) \subseteq SharedVar /\ Writes(program, s.conf, t) \subseteq SharedVar
  BY <1>1, AccessType
<1>4. reads \in [threads -> SUBSET SharedVar] /\ writes \in [threads -> SUBSET SharedVar]
  <2>1. /\ Extend(s.thread_last_reads, threads, {}) \in [threads -> SUBSET SharedVar]
        /\ Extend(s.thread_last_writes, threads, {}) \in [threads -> SUBSET SharedVar]
    BY <1>2, ExtendType DEF LevelOK, StateOK
  <2> QED BY <1>2, <1>3, <2>1 DEF Accessed
<1>5. chain \in [threads -> [threads -> {-1, 0, 1}]]
  BY <1>2, ExtendMatrixType DEF LevelOK, StateOK
<1>6. /\ IsFiniteSet(claims)
      /\ claims \subseteq Claim
  <2>1. made \subseteq Nat \X Nat \X Nat /\ (made = {} \/ \E c : made = {c})
    BY <1>1, ClaimsType DEF Claims
  <2> DEFINE vacuous == ~s.conf.feasible
  <2>0. vacuous \in BOOLEAN /\ claims = {[about |-> c, vacuous |-> vacuous] : c \in made}
    OBVIOUS
  <2> HIDE DEF made, vacuous, claims
  <2>2. claims = {} \/ \E c : claims = {c}
    <3>1. CASE made = {}
      BY <3>1, <2>0
    <3>2. ASSUME NEW c, made = {c} PROVE claims = {[about |-> c, vacuous |-> vacuous]}
      BY <3>2, <2>0
    <3> QED BY <2>1, <3>1, <3>2
  <2>3. claims \subseteq Claim
    BY <2>1, <2>0 DEF Claim
  <2>4. IsFiniteSet(claims)
    BY ONLY <2>2, FS_EmptySet, FS_Singleton
  <2> QED BY <2>3, <2>4
<1>7. /\ equation \in Seq(Claim)
      /\ remaining \in Nat
      /\ remaining = Len(equation)
  <2> DEFINE new == SetToSeq(claims)
  <2> HIDE DEF claims
  <2>1. new \in Seq(claims) /\ Len(new) = Cardinality(claims)
    BY <1>6, SetToSeqProperties
  <2>2. new \in Seq(Claim)
    BY <1>6, <2>1, SeqMonotonic
  <2>3. s.claims \in Seq(Claim) /\ s.remaining_claims = Len(s.claims)
    BY DEF LevelOK, StateOK
  <2> HIDE DEF new
  <2>4. s.claims \o new \in Seq(Claim) /\ Len(s.claims \o new) = Len(s.claims) + Len(new)
    BY <2>2, <2>3, ConcatProperties
  <2>5. Len(s.claims) \in Nat /\ Len(new) \in Nat
    BY <2>2, <2>3, LenProperties
  <2> QED BY <2>1, <2>3, <2>4, <2>5 DEF new
<1>8. forced \in BOOLEAN
  OBVIOUS
<1>9. next = [s EXCEPT !.conf = conf, !.thread_last_reads = reads,
                !.thread_last_writes = writes, !.dependancy_chain = chain,
                !.cswitch_forced = forced, !.claims = equation,
                !.remaining_claims = remaining]
  BY DEF StepState
<1>10. DOMAIN s = StateFields
  BY DEF LevelOK, StateOK
<1> HIDE DEF conf, t, threads, reads, writes, chain, forced, equation, remaining, next, claims
<1>11. /\ DOMAIN next = StateFields
       /\ next.conf = conf
       /\ next.thread_last_reads = reads /\ next.thread_last_writes = writes
       /\ next.dependancy_chain = chain
       /\ next.cswitch_forced = forced
       /\ next.claims = equation /\ next.remaining_claims = remaining
       /\ next.active_thread = s.active_thread /\ next.CS_number = s.CS_number
       /\ next.DFS_traversed = s.DFS_traversed /\ next.mpor_says_no = s.mpor_says_no
       /\ next.path = s.path
  BY <1>9, <1>10 DEF StateFields
<1>12. StateOK(program, next)
  BY <1>2, <1>4, <1>5, <1>7, <1>8, <1>11 DEF StateOK, LevelOK, threads, t
<1> QED BY <1>7, <1>11, <1>12 DEF LevelOK, next

-----------------------------------------------------------------------------
(* Switch points and backtracking *)

(* The dependency matrix stays one; the rest of the state is untouched.    *)
LEMMA ConstraintsOK ==
  ASSUME NEW m, NEW s, LevelOK(program, s, m)
  PROVE  /\ LevelOK(program, calculate_mpor_constraints(s), m)
         /\ calculate_mpor_constraints(s).path = s.path
PROOF
<1> DEFINE threads == Thread(s.conf)
           chain == NewDependancyChain(s)
           no == calculate_mpor_constraints(s).mpor_says_no
           next == calculate_mpor_constraints(s)
<1>1. /\ s.dependancy_chain \in [threads -> [threads -> {-1, 0, 1}]]
      /\ s.active_thread \in threads /\ DOMAIN s = StateFields
  BY DEF LevelOK, StateOK
<1>2. chain \in [threads -> [threads -> {-1, 0, 1}]]
  <2> DEFINE old == s.dependancy_chain
             active == s.active_thread
             depends(j) == \E l \in threads : old[j][l] = 1 /\ check_mpor_dependancy(s, active, l)
             row(j) == IF j = active THEN [i \in threads |-> IF i = active THEN 1 ELSE -1]
                       ELSE [old[j] EXCEPT ![active] = IF @ # 0 /\ depends(j) THEN 1 ELSE @]
  <2>1. chain = [j \in threads |-> row(j)]
    BY DEF NewDependancyChain
  <2>2. ASSUME NEW j \in threads PROVE row(j) \in [threads -> {-1, 0, 1}]
    <3>1. old[j] \in [threads -> {-1, 0, 1}]
      BY <1>1
    <3> HIDE DEF depends
    <3> QED BY <1>1, <3>1
  <2> HIDE DEF row
  <2> QED BY <2>1, <2>2
<1>3. /\ DOMAIN next = StateFields
      /\ next.conf = s.conf
      /\ next.thread_last_reads = s.thread_last_reads
      /\ next.thread_last_writes = s.thread_last_writes
      /\ next.dependancy_chain = chain
      /\ next.mpor_says_no \in BOOLEAN
      /\ next.cswitch_forced = s.cswitch_forced
      /\ next.claims = s.claims /\ next.remaining_claims = s.remaining_claims
      /\ next.active_thread = s.active_thread /\ next.CS_number = s.CS_number
      /\ next.DFS_traversed = s.DFS_traversed
      /\ next.path = s.path
  <2> DEFINE canRun == \A j \in threads : j > s.active_thread =>
                         \/ chain[j][s.active_thread] # -1
                         \/ \E l \in threads : l < s.active_thread /\ s.dependancy_chain[j][l] = 1
             says == ~canRun
  <2>1. next = [s EXCEPT !.dependancy_chain = chain, !.mpor_says_no = says]
    BY DEF calculate_mpor_constraints
  <2>2. says \in BOOLEAN
    OBVIOUS
  <2> HIDE DEF says, next, chain
  <2> QED BY <1>1, <2>1, <2>2 DEF StateFields
<1> HIDE DEF next, chain
<1>4. LevelOK(program, next, m)
  BY <1>2, <1>3 DEF LevelOK, StateOK
<1> QED BY <1>3, <1>4 DEF next

(* The thread that is chosen can run, has not been tried, and is the       *)
(* lowest such.                                                            *)
LEMMA DirectionProperties ==
  ASSUME NEW s, StateOK(program, s), Viable(s) # {}
  PROVE  /\ decide_ileave_direction(s) \in Viable(s)
         /\ decide_ileave_direction(s) \in Thread(s.conf)
         /\ \A tid \in Viable(s) : decide_ileave_direction(s) <= tid
         /\ Viable(s) \subseteq Nat
PROOF
<1>1. Viable(s) \subseteq Thread(s.conf) /\ Thread(s.conf) \subseteq Nat
  BY DEF Viable, StateOK, ConfOK
<1> QED BY <1>1, MinProperties DEF decide_ileave_direction

(* dfs_explore_thread: everything still to try is higher.                  *)
LEMMA MarkTraversedOK ==
  ASSUME NEW m, NEW s, LevelOK(program, s, m), Viable(s) # {}
  PROVE  /\ LevelOK(program, MarkTraversed(s), m)
         /\ MarkTraversed(s).path = s.path
         /\ \A tid \in Viable(MarkTraversed(s)) : tid > decide_ileave_direction(s)
PROOF
<1> DEFINE chosen == decide_ileave_direction(s)
           next == MarkTraversed(s)
<1>1. StateOK(program, s) /\ DOMAIN s = StateFields
  BY DEF LevelOK, StateOK
<1>2. /\ chosen \in Viable(s) /\ chosen \in Thread(s.conf)
      /\ \A tid \in Viable(s) : chosen <= tid
      /\ Viable(s) \subseteq Nat
  BY <1>1, DirectionProperties
<1>3. /\ DOMAIN next = StateFields
      /\ next.conf = s.conf
      /\ next.thread_last_reads = s.thread_last_reads
      /\ next.thread_last_writes = s.thread_last_writes
      /\ next.dependancy_chain = s.dependancy_chain
      /\ next.mpor_says_no = s.mpor_says_no
      /\ next.cswitch_forced = s.cswitch_forced
      /\ next.claims = s.claims /\ next.remaining_claims = s.remaining_claims
      /\ next.active_thread = s.active_thread /\ next.CS_number = s.CS_number
      /\ next.DFS_traversed = s.DFS_traversed \cup {chosen}
      /\ next.path = s.path
  <2> HIDE DEF chosen
  <2> QED BY <1>1 DEF StateFields, MarkTraversed, chosen
<1> HIDE DEF next, chosen
<1>4. LevelOK(program, next, m)
  BY <1>2, <1>3 DEF LevelOK, StateOK
<1>5. \A tid \in Viable(next) : tid > chosen
  <2> TAKE tid \in Viable(next)
  <2>1. tid \in Viable(s) /\ tid # chosen
    BY <1>3 DEF Viable, check_thread_viable
  <2> QED BY <1>2, <2>1
<1> QED BY <1>3, <1>4, <1>5 DEF next, chosen

(* create_next_state: one level up, one thread longer.                     *)
LEMMA NextStateOK ==
  ASSUME NEW m \in Nat, NEW s, LevelOK(program, s, m), Viable(s) # {}
  PROVE  /\ LevelOK(program, NextState(s), m + 1)
         /\ NextState(s).path = Append(s.path, decide_ileave_direction(s))
PROOF
<1> DEFINE tid == decide_ileave_direction(s)
           next == NextState(s)
<1>1. StateOK(program, s) /\ DOMAIN s = StateFields /\ s.CS_number \in Nat /\ s.path \in Seq(Nat)
  BY DEF LevelOK, StateOK
<1>2. tid \in Thread(s.conf) /\ tid \in Nat
  BY <1>1, DirectionProperties
<1>3. /\ DOMAIN next = StateFields
      /\ next.conf = s.conf
      /\ next.thread_last_reads = [s.thread_last_reads EXCEPT ![tid] = {}]
      /\ next.thread_last_writes = [s.thread_last_writes EXCEPT ![tid] = {}]
      /\ next.dependancy_chain = s.dependancy_chain
      /\ next.mpor_says_no = s.mpor_says_no
      /\ next.cswitch_forced = FALSE
      /\ next.claims = s.claims /\ next.remaining_claims = s.remaining_claims
      /\ next.active_thread = tid
      /\ next.CS_number = s.CS_number + (IF tid = s.active_thread THEN 0 ELSE 1)
      /\ next.DFS_traversed = {}
      /\ next.path = Append(s.path, tid)
  <2> HIDE DEF tid
  <2> QED BY <1>1 DEF StateFields, NextState, tid
<1> HIDE DEF next, tid
<1>4. next.CS_number \in Nat /\ next.CS_number <= m + 1 - 1
  BY <1>1, <1>3 DEF LevelOK
<1>5. next.path \in Seq(Nat) /\ Len(next.path) = m + 1
  BY <1>1, <1>2, <1>3, AppendProperties DEF LevelOK
<1>6. /\ next.thread_last_reads \in [Thread(s.conf) -> SUBSET SharedVar]
      /\ next.thread_last_writes \in [Thread(s.conf) -> SUBSET SharedVar]
  BY <1>1, <1>2, <1>3 DEF StateOK
<1>7. LevelOK(program, next, m + 1)
  <2>1. StateOK(program, next)
    BY <1>1, <1>2, <1>3, <1>4, <1>5, <1>6 DEF StateOK
  <2>2. next.remaining_claims = Len(next.claims)
    BY <1>3 DEF LevelOK
  <2> QED BY <1>4, <1>5, <2>1, <2>2 DEF LevelOK
<1> QED BY <1>3, <1>7 DEF next, tid

(* The assertions of the common prefix go, and are no longer counted.      *)
LEMMA ClearAssertionsOK ==
  ASSUME NEW m, NEW s, LevelOK(program, s, m)
  PROVE  /\ LevelOK(program, ClearAssertions(s), m)
         /\ ClearAssertions(s).path = s.path
PROOF
<1> DEFINE next == ClearAssertions(s)
<1>1. StateOK(program, s) /\ DOMAIN s = StateFields /\ s.remaining_claims - Len(s.claims) = 0
  BY DEF LevelOK, StateOK
<1>2. /\ DOMAIN next = StateFields
      /\ next.conf = s.conf
      /\ next.thread_last_reads = s.thread_last_reads
      /\ next.thread_last_writes = s.thread_last_writes
      /\ next.dependancy_chain = s.dependancy_chain
      /\ next.mpor_says_no = s.mpor_says_no
      /\ next.cswitch_forced = s.cswitch_forced
      /\ next.claims = <<>>
      /\ next.remaining_claims = s.remaining_claims - Len(s.claims)
      /\ next.active_thread = s.active_thread /\ next.CS_number = s.CS_number
      /\ next.DFS_traversed = s.DFS_traversed
      /\ next.path = s.path
  BY <1>1 DEF StateFields, ClearAssertions
<1> HIDE DEF next
<1>3. <<>> \in Seq(Claim) /\ Len(<<>>) = 0
  OBVIOUS
<1>4. LevelOK(program, next, m)
  BY <1>1, <1>2, <1>3 DEF LevelOK, StateOK
<1> QED BY <1>2, <1>4 DEF next

-----------------------------------------------------------------------------
(* The stack *)

(* The state the explorer starts from is well formed.                      *)
LEMMA InitialStateOK ==
  ASSUME program \in Programs
  PROVE  LevelOK(program, InitialState, 1) /\ InitialState.path = <<0>>
PROOF
<1> DEFINE conf == InitialConf(program, Vars)
<1>1. ConfOK(program, conf) /\ Thread(conf) = {0}
  <2>1. NewThread(1) \in ThreadState(program)
    BY ProgramAssumption, NewThreadType
  <2>2. {0} = 0 .. 1 - 1
    OBVIOUS
  <2> DEFINE n == 1
  <2>3. conf \in [mem : [Vars -> Nat], threads : [0 .. n - 1 -> ThreadState(program)],
                  feasible : BOOLEAN, guard_false : BOOLEAN]
    BY <2>1, <2>2 DEF InitialConf
  <2>4. n \in Nat \ {0} /\ {0} = 0 .. n - 1
    OBVIOUS
  <2> HIDE DEF conf, n
  <2>5. ConfOK(program, conf) /\ Thread(conf) = 0 .. n - 1
    BY <2>3, <2>4, ConfIntro
  <2> QED BY <2>4, <2>5
<1>2. /\ <<>> \in Seq(Claim) /\ Len(<<>>) = 0
      /\ <<0>> \in Seq(Nat) /\ Len(<<0>>) = 1
  OBVIOUS
<1> HIDE DEF conf
<1>3. StateOK(program, InitialState)
  BY <1>1, <1>2 DEF InitialState, StateOK, StateFields, conf
<1> QED BY <1>2, <1>3 DEF LevelOK, InitialState

(* The invariant holds at the start.                                       *)
LEMMA TreeInit == Init => TreeInv
PROOF
<1> SUFFICES ASSUME Init PROVE TreeInv
  OBVIOUS
<1> DEFINE s == InitialState
<1>1. LevelOK(program, s, 1) /\ s.path = <<0>>
  BY InitialStateOK DEF Init
<1> HIDE DEF s
<1>2. execution_states = <<s>> /\ Len(execution_states) = 1 /\ execution_states[1] = s
  BY DEF Init, s
<1>3. execution_states \in Seq(Range(execution_states))
  <2>1. <<s>> \in Seq({s})
    OBVIOUS
  <2> QED BY <1>2, <2>1, SeqOfElements
<1>4. StackInv
  <2>1. \A m \in 1 .. Len(execution_states) : LevelOK(program, execution_states[m], m)
    BY <1>1, <1>2
  <2>2. execution_states # <<>>
    BY <1>2
  <2> QED BY <1>3, <2>1, <2>2 DEF StackInv, Init
<1>5. PathInv
  BY <1>2 DEF PathInv, Top
<1>6. OrderInv
  BY DEF OrderInv, Init
<1> QED BY <1>4, <1>5, <1>6 DEF TreeInv

(* The top is replaced by a state that was reached by the same threads.    *)
LEMMA TopReplaced ==
  ASSUME TreeInv, phase # "done", NEW s, LevelOK(program, s, Len(execution_states)),
         s.path = Top.path, execution_states' = Append(Lower, s),
         phase' \in {"symex", "formula"},
         UNCHANGED <<program, options, last_path>>
  PROVE  TreeInv'
PROOF
<1> DEFINE old == execution_states
           new == execution_states'
           l == Len(execution_states)
<1>1. old \in Seq(Range(old)) /\ old # <<>>
  BY DEF TreeInv, StackInv
<1>2. /\ new \in Seq(Range(old) \cup {s})
      /\ Len(new) = l /\ l \in Nat \ {0}
      /\ \A m \in 1 .. l - 1 : new[m] = old[m]
      /\ new[l] = s
  BY <1>1, ReplaceTop DEF Lower
<1>3. new \in Seq(Range(new)) /\ new # <<>>
  <2>1. new \in Seq(Range(new))
    BY <1>2, SeqOfElements
  <2> QED BY <2>1, <1>2, EmptySeq
<1>4. Top' = s /\ Top = old[l]
  BY <1>2 DEF Top
<1> HIDE DEF l
<1>5. \A m \in 1 .. l : m \in 1 .. l - 1 \/ m = l
  BY <1>2
<1>6. \A m \in 1 .. l : LevelOK(program, new[m], m)
  BY <1>2, <1>5 DEF TreeInv, StackInv, l
<1>7. StackInv'
  BY <1>2, <1>3, <1>6 DEF TreeInv, StackInv
<1>8. PathInv'
  <2> SUFFICES ASSUME NEW m \in 1 .. l
               PROVE  /\ \A k \in 1 .. m : new[m].path[k] = s.path[k]
                      /\ m < l => \A tid \in Viable(new[m]) : tid > s.path[m + 1]
    BY <1>2, <1>4 DEF PathInv
  <2>1. CASE m = l
    BY <2>1, <1>2
  <2>2. CASE m \in 1 .. l - 1
    BY <2>2, <1>2, <1>4 DEF TreeInv, PathInv, l
  <2> QED BY <1>5, <2>1, <2>2
<1>9. OrderInv'
  BY <1>4 DEF TreeInv, OrderInv, LexBefore
<1> QED BY <1>7, <1>8, <1>9 DEF TreeInv

(* The search goes on from the n-th state: the state remembers the thread  *)
(* tid, which takes it one level up.                                       *)
LEMMA BranchTaken ==
  ASSUME TreeInv, NEW n \in 1 .. Len(execution_states), NEW b, NEW c, NEW tid \in Nat,
         LevelOK(program, b, n), LevelOK(program, c, n + 1),
         b.path = execution_states[n].path,
         c.path = Append(execution_states[n].path, tid),
         \A u \in Viable(b) : u > tid,
         execution_states' = SubSeq(execution_states, 1, n - 1) \o <<b, c>>,
         phase' = "symex",
         UNCHANGED <<program, options>>
  PROVE  StackInv' /\ PathInv' /\ Top' = c
PROOF
<1> DEFINE old == execution_states
           new == execution_states'
           base == execution_states[n].path
<1>1. old \in Seq(Range(old)) /\ Len(old) \in Nat /\ n \in Nat
  BY LenProperties DEF TreeInv, StackInv
<1>2. /\ new \in Seq(Range(old) \cup {b, c})
      /\ Len(new) = n + 1
      /\ \A m \in 1 .. n - 1 : new[m] = old[m]
      /\ new[n] = b /\ new[n + 1] = c
  <2> DEFINE R == Range(old)
  <2>1. old \in Seq(R)
    BY <1>1
  <2> HIDE DEF R
  <2>2. new = SubSeq(old, 1, n - 1) \o <<b, c>> /\ n \in 1 .. Len(old)
    OBVIOUS
  <2> HIDE DEF old, new
  <2>3. /\ new \in Seq(R \cup {b, c})
        /\ Len(new) = n + 1
        /\ \A m \in 1 .. n - 1 : new[m] = old[m]
        /\ new[n] = b /\ new[n + 1] = c
    BY <2>1, <2>2, ReplaceByTwo
  <2> QED BY <2>3 DEF R
<1>3. new \in Seq(Range(new)) /\ new # <<>>
  <2>1. new \in Seq(Range(new))
    BY <1>2, SeqOfElements
  <2>2. new # <<>>
    <3> SUFFICES ASSUME new = <<>> PROVE FALSE
      OBVIOUS
    <3>1. Len(new) = 0
      OBVIOUS
    <3> QED BY <3>1, <1>1, <1>2
  <2> QED BY <2>1, <2>2
<1>4. Top' = c
  BY <1>2 DEF Top
<1>5. \A m \in 1 .. n + 1 : m \in 1 .. n - 1 \/ m = n \/ m = n + 1
  BY <1>1
<1>6. \A m \in 1 .. n + 1 : LevelOK(program, new[m], m)
  <2>1. \A m \in 1 .. n - 1 : LevelOK(program, old[m], m)
    BY <1>1 DEF TreeInv, StackInv
  <2> QED BY <2>1, <1>2, <1>5
<1>7. StackInv'
  BY <1>2, <1>3, <1>6 DEF TreeInv, StackInv
<1>8. /\ base \in Seq(Nat) /\ Len(base) = n
      /\ \A k \in 1 .. n : c.path[k] = base[k]
      /\ c.path[n + 1] = tid
  <2>1. LevelOK(program, old[n], n)
    BY DEF TreeInv, StackInv
  <2>2. base \in Seq(Nat) /\ Len(base) = n
    BY <2>1 DEF LevelOK, StateOK
  <2> HIDE DEF base
  <2>3. /\ \A k \in 1 .. Len(base) : Append(base, tid)[k] = base[k]
        /\ Append(base, tid)[Len(base) + 1] = tid
    BY <2>2, AppendProperties
  <2> QED BY <2>2, <2>3 DEF base
<1>9. \A k \in 1 .. n : base[k] = Top.path[k]
  BY DEF TreeInv, PathInv
<1>10. PathInv'
  <2> SUFFICES ASSUME NEW m \in 1 .. n + 1
               PROVE  /\ \A k \in 1 .. m : new[m].path[k] = c.path[k]
                      /\ m < n + 1 => \A u \in Viable(new[m]) : u > c.path[m + 1]
    BY <1>2, <1>4 DEF PathInv
  <2>1. CASE m = n + 1
    <3>1. new[m] = c /\ ~(m < n + 1)
      BY <2>1, <1>1, <1>2
    <3> QED BY <3>1
  <2>2. CASE m = n
    BY <2>2, <1>1, <1>2, <1>8
  <2>3. CASE m \in 1 .. n - 1
    <3>1. new[m] = old[m] /\ m \in 1 .. Len(old) /\ m < Len(old) /\ m + 1 \in 1 .. n
      BY <2>3, <1>1, <1>2
    <3>2. /\ \A k \in 1 .. m : old[m].path[k] = Top.path[k]
          /\ \A u \in Viable(old[m]) : u > Top.path[m + 1]
      BY <3>1 DEF TreeInv, PathInv
    <3>3. \A k \in 1 .. n : Top.path[k] = c.path[k]
      BY <1>8, <1>9
    <3>4. \A k \in 1 .. m : k \in 1 .. n
      BY <2>3, <1>1
    <3> HIDE DEF old, new
    <3>5. \A k \in 1 .. m : new[m].path[k] = c.path[k]
      BY <3>1, <3>2, <3>3, <3>4
    <3>6. \A u \in Viable(new[m]) : u > c.path[m + 1]
      BY <3>1, <3>2, <3>3
    <3> QED BY <3>5, <3>6
  <2> QED BY <1>5, <2>1, <2>2, <2>3
<1> QED BY <1>4, <1>7, <1>10

(* What the invariant says of a stack that is not empty.                   *)
LEMMA StackTop ==
  ASSUME TreeInv, phase # "done"
  PROVE  /\ Len(execution_states) \in Nat \ {0}
         /\ Len(execution_states) \in 1 .. Len(execution_states)
         /\ Top = execution_states[Len(execution_states)]
         /\ LevelOK(program, Top, Len(execution_states))
PROOF
<1>1. execution_states \in Seq(Range(execution_states)) /\ execution_states # <<>>
  BY DEF TreeInv, StackInv
<1>2. Len(execution_states) \in Nat \ {0}
  BY <1>1, EmptySeq
<1> QED BY <1>2 DEF TreeInv, StackInv, Top

(* Executing an instruction preserves it.                                  *)
LEMMA StepPreserves ==
  ASSUME TreeInv, symex_step
  PROVE  TreeInv'
PROOF
<1>1. phase = "symex" /\ program \in Programs
  BY DEF symex_step, TreeInv, StackInv
<1>2. LevelOK(program, Top, Len(execution_states))
  BY <1>1, StackTop
<1>3. LevelOK(program, StepState(Top), Len(execution_states)) /\ StepState(Top).path = Top.path
  BY <1>1, <1>2, StepStateOK
<1> QED BY <1>1, <1>3, TopReplaced DEF symex_step

(* So does a context switch.                                               *)
LEMMA SwitchPreserves ==
  ASSUME TreeInv, SwitchPoint
  PROVE  TreeInv'
PROOF
<1> DEFINE l == Len(execution_states)
           s == IF options.por THEN calculate_mpor_constraints(Top) ELSE Top
           rejected == (options.por /\ s.mpor_says_no) \/ Viable(s) = {}
<1>1. phase = "symex" /\ UNCHANGED <<program, options, last_path>>
  BY DEF SwitchPoint
<1>2. l \in Nat \ {0} /\ l \in 1 .. l /\ Top = execution_states[l] /\ LevelOK(program, Top, l)
  BY <1>1, StackTop
<1>3. LevelOK(program, s, l) /\ s.path = Top.path
  BY <1>2, ConstraintsOK
<1>4. IF rejected
        THEN phase' = "formula" /\ execution_states' = Append(Lower, s)
        ELSE /\ execution_states' = Lower \o <<MarkTraversed(s), NextState(s)>>
             /\ phase' = phase
  BY DEF SwitchPoint
<1> HIDE DEF s
<1>5. CASE rejected
  BY <1>1, <1>3, <1>4, <1>5, TopReplaced
<1>6. CASE ~rejected
  <2> DEFINE b == MarkTraversed(s)
             c == NextState(s)
             tid == decide_ileave_direction(s)
  <2>1. Viable(s) # {} /\ StateOK(program, s)
    BY <1>3, <1>6 DEF LevelOK
  <2>2. tid \in Nat
    BY <2>1, DirectionProperties
  <2>3. LevelOK(program, b, l) /\ b.path = s.path /\ \A u \in Viable(b) : u > tid
    BY <1>3, <2>1, MarkTraversedOK
  <2>4. LevelOK(program, c, l + 1) /\ c.path = Append(s.path, tid)
    BY <1>2, <1>3, <2>1, NextStateOK
  <2>5. execution_states' = SubSeq(execution_states, 1, l - 1) \o <<b, c>> /\ phase' = "symex"
    BY <1>1, <1>4, <1>6 DEF Lower
  <2> HIDE DEF b, c, tid, rejected
  <2>6. StackInv' /\ PathInv' /\ Top' = c
    <3>1. l \in 1 .. Len(execution_states)
      BY <1>2
    <3>2. b.path = execution_states[l].path /\ c.path = Append(execution_states[l].path, tid)
      BY <1>2, <1>3, <2>3, <2>4
    <3> HIDE DEF l
    <3> QED BY <1>1, <2>2, <2>3, <2>4, <2>5, <3>1, <3>2, BranchTaken
  <2>7. OrderInv'
    <3>1. /\ Top.path \in Seq(Nat) /\ Len(Top.path) = l
      BY <1>2 DEF LevelOK, StateOK
    <3>2. /\ c.path = Append(Top.path, tid)
          /\ Len(c.path) = l + 1
          /\ \A i \in 1 .. l : c.path[i] = Top.path[i]
      BY <3>1, <2>2, <2>4, <1>3, AppendProperties
    <3>3. SUFFICES ASSUME last_path # <<>>, LexBefore(last_path, Top.path)
                   PROVE  LexBefore(last_path, c.path)
      BY <1>1, <2>6 DEF TreeInv, OrderInv, LexBefore
    <3>4. PICK n \in 1 .. Len(last_path) :
            /\ n <= Len(Top.path)
            /\ last_path[n] < Top.path[n]
            /\ \A m \in 1 .. n - 1 : last_path[m] = Top.path[m]
      BY <3>3 DEF LexBefore
    <3>5. Len(last_path) \in Nat
      BY LenProperties DEF TreeInv, OrderInv
    <3>6. n \in 1 .. l /\ n <= Len(c.path) /\ \A m \in 1 .. n - 1 : m \in 1 .. l
      BY <1>2, <3>1, <3>2, <3>4, <3>5
    <3>7. last_path[n] < c.path[n] /\ \A m \in 1 .. n - 1 : last_path[m] = c.path[m]
      BY <3>2, <3>4, <3>6
    <3> QED BY <3>6, <3>7 DEF LexBefore
  <2> QED BY <2>6, <2>7 DEF TreeInv
<1> QED BY <1>5, <1>6

(* So does going back to an execution state with a choice left.            *)
LEMMA BacktrackPreserves ==
  ASSUME TreeInv, CheckAndBacktrack
  PROVE  TreeInv'
PROOF
<1> DEFINE l == Len(execution_states)
           unexplored == {n \in 1 .. l - 1 : Viable(execution_states[n]) # {}}
           n == Max(unexplored)
           s == execution_states[n]
<1>1. /\ phase = "formula" /\ last_path' = Top.path
      /\ program' = program /\ options' = options
  BY DEF CheckAndBacktrack
<1>2. /\ l \in Nat \ {0} /\ l \in 1 .. l
      /\ LevelOK(program, Top, l) /\ Top.path \in Seq(Nat) /\ Len(Top.path) = l
  BY <1>1, StackTop DEF LevelOK, StateOK
<1>3. CASE unexplored = {}
  <2>1. execution_states' = <<>> /\ phase' = "done"
    BY <1>3 DEF CheckAndBacktrack
  <2>2. execution_states' \in Seq(Range(execution_states')) /\ Len(execution_states') = 0
    BY <2>1
  <2>3. StackInv'
    BY <1>1, <2>1, <2>2 DEF TreeInv, StackInv
  <2>4. PathInv'
    BY <2>2 DEF PathInv
  <2>5. OrderInv'
    BY <1>1, <1>2, <2>1 DEF OrderInv
  <2> QED BY <2>3, <2>4, <2>5 DEF TreeInv
<1>4. CASE unexplored # {}
  <2> DEFINE b == MarkTraversed(s)
             c == ClearAssertions(NextState(s))
             tid == decide_ileave_direction(s)
  <2>1. /\ execution_states' = SubSeq(execution_states, 1, n - 1) \o <<b, c>>
        /\ phase' = "symex"
    BY <1>4 DEF CheckAndBacktrack
  <2>2. n \in unexplored
    <3>1. unexplored \in SUBSET Nat /\ \A y \in unexplored : y <= l
      BY <1>2
    <3> HIDE DEF unexplored
    <3> QED BY <1>2, <1>4, <3>1, MaxProperties
  <2> HIDE DEF n
  <2>3. n \in Nat \ {0} /\ n < l /\ n \in 1 .. l /\ Viable(s) # {}
    BY <1>2, <2>2
  <2>4. LevelOK(program, s, n) /\ s.path \in Seq(Nat) /\ Len(s.path) = n /\ StateOK(program, s)
    BY <2>3 DEF TreeInv, StackInv, LevelOK, StateOK
  <2>5. tid \in Nat /\ tid \in Viable(s)
    BY <2>3, <2>4, DirectionProperties
  <2>6. LevelOK(program, b, n) /\ b.path = s.path /\ \A u \in Viable(b) : u > tid
    BY <2>3, <2>4, MarkTraversedOK
  <2>7. LevelOK(program, c, n + 1) /\ c.path = Append(s.path, tid)
    BY <2>3, <2>4, NextStateOK, ClearAssertionsOK
  <2> HIDE DEF b, c, tid
  <2>8. StackInv' /\ PathInv' /\ Top' = c
    BY <1>1, <2>1, <2>3, <2>5, <2>6, <2>7, BranchTaken
  <2>9. /\ Len(c.path) = n + 1
        /\ \A i \in 1 .. n : c.path[i] = s.path[i]
        /\ c.path[n + 1] = tid
    BY <2>4, <2>5, <2>7, AppendProperties
  <2>10. /\ \A k \in 1 .. n : s.path[k] = Top.path[k]
         /\ tid > Top.path[n + 1]
    BY <2>3, <2>5 DEF TreeInv, PathInv
  <2>11. LexBefore(Top.path, c.path)
    <3> DEFINE k == n + 1
    <3>1. k \in 1 .. l /\ k <= Len(c.path) /\ k - 1 = n
      BY <1>2, <2>3, <2>9
    <3>2. Top.path[k] \in Nat
      BY <1>2, <3>1, ElementOfSeq
    <3>3. Top.path[k] < c.path[k]
      BY <2>5, <2>9, <2>10, <3>2
    <3> HIDE DEF k
    <3>4. \A m \in 1 .. k - 1 : Top.path[m] = c.path[m]
      BY <2>9, <2>10, <3>1
    <3> QED BY <1>2, <3>1, <3>3, <3>4 DEF LexBefore
  <2>12. OrderInv'
    BY <1>1, <1>2, <2>8, <2>11 DEF OrderInv, LexBefore
  <2> QED BY <2>8, <2>12 DEF TreeInv
<1> QED BY <1>3, <1>4

(* Every step preserves it.                                                *)
LEMMA TreeNext == TreeInv /\ [Next]_vars => TreeInv'
PROOF
<1> SUFFICES ASSUME TreeInv, [Next]_vars PROVE TreeInv'
  OBVIOUS
<1>1. CASE symex_step
  BY <1>1, StepPreserves
<1>2. CASE SwitchPoint
  BY <1>2, SwitchPreserves
<1>3. CASE CheckAndBacktrack
  BY <1>3, BacktrackPreserves
<1>4. CASE UNCHANGED vars
  BY <1>4 DEF vars, TreeInv, StackInv, PathInv, OrderInv, Top, LexBefore
<1> QED BY <1>1, <1>2, <1>3, <1>4 DEF Next

-----------------------------------------------------------------------------
(* The theorems *)

(* The inductive invariant: what every execution state on the stack looks  *)
(* like, which interleaving the stack spells, and in which order they come *)
(* (reachability_treet).                                                   *)
THEOREM TreeInvariant == Spec => []TreeInv
PROOF
<1>1. Init => TreeInv
  BY TreeInit
<1>2. TreeInv /\ [Next]_vars => TreeInv'
  BY TreeNext
<1> QED BY <1>1, <1>2, PTL DEF Spec

(* It implies the types.                                                   *)
LEMMA TreeTyped == TreeInv => TypeOK
PROOF
<1> SUFFICES ASSUME TreeInv PROVE TypeOK
  OBVIOUS
<1>1. /\ phase \in {"symex", "formula", "done"}
      /\ phase = "done" <=> execution_states = <<>>
  BY DEF TreeInv, StackInv
<1>2. ASSUME phase # "done"
      PROVE  LET s == Top
                 threads == Thread(s.conf)
             IN  /\ threads = 0 .. Cardinality(threads) - 1
                 /\ s.active_thread \in threads
                 /\ s.CS_number \in 0 .. Len(execution_states) - 1
                 /\ s.DFS_traversed \subseteq threads
                 /\ s.thread_last_reads \in [threads -> SUBSET SharedVar]
                 /\ s.thread_last_writes \in [threads -> SUBSET SharedVar]
                 /\ s.dependancy_chain \in [threads -> [threads -> {-1, 0, 1}]]
                 /\ s.mpor_says_no \in BOOLEAN
                 /\ s.cswitch_forced \in BOOLEAN
                 /\ s.remaining_claims \in Nat
                 /\ Len(s.path) = Len(execution_states)
  BY <1>2, StackTop DEF LevelOK, StateOK, ConfOK
<1> QED BY <1>1, <1>2 DEF TypeOK

(* Every state the explorer reaches is well typed: the active thread       *)
(* exists, and the access records and the dependency matrix have an entry  *)
(* for every thread there is (execution_statet::add_thread).               *)
THEOREM TreeTypeCorrect == Spec => []TypeOK
BY TreeTyped, TreeInvariant, PTL

(* The count that decides whether a formula is solved is the number of     *)
(* assertions in it, in every state that can come back on a backtrack      *)
(* (reachability_tree.cpp:251-264, bmc.cpp:646-656).                       *)
THEOREM ClaimsCountedTheorem == Spec => []ClaimsCounted
PROOF
<1>1. TreeInv => ClaimsCounted
  BY DEF TreeInv, StackInv, LevelOK, ClaimsCounted
<1> QED BY <1>1, TreeInvariant, PTL

(* The interleavings whose formulas are built come in lexicographic order, *)
(* whatever the reduction rejects and wherever the search resumes          *)
(* (reachability_tree.cpp:131-197, 228-267).                               *)
THEOREM NoInterleavingTwiceTheorem == Spec => []NoInterleavingTwice
PROOF
<1>1. TreeInv => NoInterleavingTwice
  <2> SUFFICES ASSUME TreeInv, phase = "formula", last_path # <<>>
               PROVE  \E n \in 1 .. Min({Len(last_path), Len(Top.path)}) :
                        /\ last_path[n] < Top.path[n]
                        /\ \A m \in 1 .. n - 1 : last_path[m] = Top.path[m]
    BY DEF NoInterleavingTwice
  <2> DEFINE S == {Len(last_path), Len(Top.path)}
  <2>1. PICK n \in 1 .. Len(last_path) :
          /\ n <= Len(Top.path)
          /\ last_path[n] < Top.path[n]
          /\ \A m \in 1 .. n - 1 : last_path[m] = Top.path[m]
    BY DEF TreeInv, OrderInv, LexBefore
  <2>2. Len(last_path) \in Nat /\ Len(Top.path) \in Nat
    <3>1. last_path \in Seq(Nat)
      BY DEF TreeInv, OrderInv
    <3>2. Top.path \in Seq(Nat)
      BY StackTop DEF LevelOK, StateOK
    <3> QED BY <3>1, <3>2, LenProperties
  <2>3. Min(S) \in S
    BY <2>2, MinProperties
  <2>4. n \in 1 .. Min(S)
    BY <2>1, <2>2, <2>3
  <2> QED BY <2>1, <2>4
<1> QED BY <1>1, TreeInvariant, PTL

(* The order is strict and transitive: an interleaving does not come back  *)
(* after others either.                                                    *)
LEMMA LexBeforeIsStrictOrder ==
  /\ \A p \in Seq(Nat) : ~LexBefore(p, p)
  /\ \A p, q, r \in Seq(Nat) : LexBefore(p, q) /\ LexBefore(q, r) => LexBefore(p, r)
PROOF
<1>1. ASSUME NEW p \in Seq(Nat), LexBefore(p, p) PROVE FALSE
  <2>1. PICK n \in 1 .. Len(p) : p[n] < p[n]
    BY <1>1 DEF LexBefore
  <2>2. p[n] \in Nat
    BY ElementOfSeq
  <2> QED BY <2>1, <2>2
<1>2. ASSUME NEW p \in Seq(Nat), NEW q \in Seq(Nat), NEW r \in Seq(Nat),
             LexBefore(p, q), LexBefore(q, r)
      PROVE  LexBefore(p, r)
  <2>1. Len(p) \in Nat /\ Len(q) \in Nat /\ Len(r) \in Nat
    BY LenProperties
  <2>2. PICK a \in 1 .. Len(p) : a <= Len(q) /\ p[a] < q[a] /\ \A m \in 1 .. a - 1 : p[m] = q[m]
    BY <1>2 DEF LexBefore
  <2>3. PICK b \in 1 .. Len(q) : b <= Len(r) /\ q[b] < r[b] /\ \A m \in 1 .. b - 1 : q[m] = r[m]
    BY <1>2 DEF LexBefore
  <2>4. a \in 1 .. Len(q) /\ p[a] \in Nat /\ q[a] \in Nat /\ q[b] \in Nat /\ r[b] \in Nat
    <3>1. a \in 1 .. Len(q) /\ b \in 1 .. Len(r)
      BY <2>1, <2>2, <2>3
    <3> QED BY <3>1, ElementOfSeq
  <2>5. CASE a < b
    <3>1. a \in 1 .. b - 1 /\ a <= Len(r) /\ \A m \in 1 .. a - 1 : m \in 1 .. b - 1
      BY <2>1, <2>3, <2>5
    <3>2. p[a] < r[a] /\ \A m \in 1 .. a - 1 : p[m] = r[m]
      BY <2>2, <2>3, <3>1
    <3> QED BY <3>1, <3>2 DEF LexBefore
  <2>6. CASE a = b
    <3>1. p[a] < r[a]
      BY <2>2, <2>3, <2>4, <2>6
    <3>2. \A m \in 1 .. a - 1 : p[m] = r[m]
      BY <2>2, <2>3, <2>6
    <3> QED BY <2>3, <2>6, <3>1, <3>2 DEF LexBefore
  <2>7. CASE b < a
    <3>1. b \in 1 .. a - 1 /\ b \in 1 .. Len(p) /\ \A m \in 1 .. b - 1 : m \in 1 .. a - 1
      BY <2>1, <2>2, <2>7
    <3>2. p[b] < r[b] /\ \A m \in 1 .. b - 1 : p[m] = r[m]
      BY <2>2, <2>3, <3>1
    <3> QED BY <2>3, <3>1, <3>2 DEF LexBefore
  <2> QED BY <2>5, <2>6, <2>7
<1> QED BY <1>1, <1>2

(* With the order: each new interleaving is above the last one.            *)
THEOREM PathsIncrease ==
  Spec => [][last_path # <<>> => last_path' = last_path \/ LexBefore(last_path, last_path')]_vars
PROOF
<1>1. TreeInv /\ [Next]_vars =>
        [last_path # <<>> => last_path' = last_path \/ LexBefore(last_path, last_path')]_vars
  <2> SUFFICES ASSUME TreeInv, [Next]_vars, last_path # <<>>
               PROVE  last_path' = last_path \/ LexBefore(last_path, last_path')
    OBVIOUS
  <2>1. CASE CheckAndBacktrack
    BY <2>1 DEF CheckAndBacktrack, TreeInv, OrderInv
  <2>2. CASE symex_step \/ SwitchPoint \/ UNCHANGED vars
    BY <2>2 DEF symex_step, SwitchPoint, vars
  <2> QED BY <2>1, <2>2 DEF Next
<1> QED BY <1>1, TreeInvariant, PTL DEF Spec

-----------------------------------------------------------------------------
(* The reference                                                           *)

(* The layers of the reference are what their recursion says: there is     *)
(* such a function, by induction on the number of layers.                  *)
LEMMA LayersProperties ==
  ASSUME NEW p, Longest(p) \in Nat, NEW V, NEW bound
  PROVE  Layers(p, V, bound) =
           [n \in 0 .. Longest(p) |->
              IF n = 0 THEN {Start(p, V)} ELSE Layer(p, bound, Layers(p, V, bound)[n - 1])]
PROOF
<1> DEFINE start == {Start(p, V)}
           after(S) == Layer(p, bound, S)
           Good(g, k) == \A n \in 0 .. k : g[n] = IF n = 0 THEN start ELSE after(g[n - 1])
           Deep(k) == \E g : Good(g, k)
           Depths == {k \in Nat : Deep(k)}
           N == Longest(p)
<1> HIDE DEF start, after
<1>1. 0 \in Depths
  <2>1. Good([n \in {0} |-> start], 0)
    OBVIOUS
  <2> QED BY <2>1
<1>2. ASSUME NEW k \in Depths PROVE k + 1 \in Depths
  <2>1. PICK g : Good(g, k)
    OBVIOUS
  <2> DEFINE h == [n \in 0 .. k + 1 |-> IF n = k + 1 THEN after(g[k]) ELSE g[n]]
  <2>2. Good(h, k + 1)
    <3> TAKE n \in 0 .. k + 1
    <3>1. CASE n = k + 1
      BY <3>1
    <3>2. CASE n # k + 1
      <4>1. n \in 0 .. k /\ h[n] = g[n]
        BY <3>2
      <4>2. n # 0 => h[n - 1] = g[n - 1]
        BY <4>1
      <4> QED BY <4>1, <4>2, <2>1
    <3> QED BY <3>1, <3>2
  <2> HIDE DEF Good, h
  <2>3. Deep(k + 1)
    BY <2>2
  <2> HIDE DEF Deep
  <2> QED BY <2>3
<1>3. Depths = Nat
  BY <1>1, <1>2, NatSetInduction
<1>4. PICK g : Good(g, N)
  BY <1>3
<1> DEFINE f == [n \in 0 .. N |-> g[n]]
<1>5. f = [n \in 0 .. N |-> IF n = 0 THEN start ELSE after(f[n - 1])]
  <2>1. ASSUME NEW n \in 0 .. N PROVE f[n] = IF n = 0 THEN start ELSE after(f[n - 1])
    BY <1>4
  <2> HIDE DEF f
  <2>2. f = [n \in 0 .. N |-> f[n]]
    BY DEF f
  <2> QED BY <2>1, <2>2
<1> QED BY <1>5 DEF Layers, start, after

RealNodes(p) == UNION {Layers(p, Vars, -1)[n] : n \in 0 .. Longest(p)}

Reached(p, conf) == \E node \in RealNodes(p) : node.conf = conf

(* The initial configuration is one the reference reaches.                 *)
LEMMA StartIsReached ==
  ASSUME NEW p \in Programs
  PROVE  Reached(p, InitialConf(p, Vars))
PROOF
<1>1. Longest(p) \in Nat
  BY ReferenceAssumption
<1>2. Layers(p, Vars, -1)[0] = {Start(p, Vars)}
  BY <1>1, LayersProperties
<1>3. Start(p, Vars) \in RealNodes(p)
  BY <1>1, <1>2 DEF RealNodes
<1> QED BY <1>3 DEF Reached, Start

(* The reference follows every thread that can run to the end.             *)
LEMMA StepIsReached ==
  ASSUME NEW p \in Programs, NEW conf, Reached(p, conf), NEW t \in Enabled(conf)
  PROVE  /\ Reached(p, Step(p, conf, t))
         /\ Claims(p, conf, t) \subseteq OutcomesWithin[<<p, -1>>]
PROOF
<1> DEFINE N == Longest(p)
           layer == Layers(p, Vars, -1)
<1>1. N \in Nat /\ \A node \in layer[N] : Enabled(node.conf) = {}
  BY ReferenceAssumption
<1>2. PICK n \in 0 .. N : \E node \in layer[n] : node.conf = conf
  BY DEF Reached, RealNodes
<1> PICK node \in layer[n] : node.conf = conf
  BY <1>2
<1>3. t \in Schedulable(node, -1)
  BY <1>2 DEF Schedulable
<1>4. Reached(p, Step(p, conf, t))
  <2> DEFINE next == [conf |-> Step(p, node.conf, t), last |-> t, switches |-> 0]
  <2>1. next \in Successors(p, -1, node)
    BY <1>3 DEF Successors
  <2>2. n # N
    BY <1>1, <1>2
  <2> DEFINE m == n + 1
  <2>3. m \in 0 .. N /\ m # 0 /\ m - 1 = n
    BY <1>1, <1>2, <2>2
  <2> HIDE DEF m, N, layer
  <2>4. layer[m] = Layer(p, -1, layer[m - 1])
    BY <1>1, <2>3, LayersProperties DEF N, layer
  <2>5. next \in layer[m]
    BY <1>2, <2>1, <2>3, <2>4 DEF Layer
  <2>6. next \in RealNodes(p)
    BY <2>3, <2>5 DEF RealNodes, N, layer
  <2> QED BY <1>2, <2>6 DEF Reached
<1>5. Claims(p, conf, t) \subseteq Outcomes(p, Vars, -1)
  <2>1. node \in UNION {layer[k] : k \in 0 .. N}
    BY <1>2
  <2> QED BY <1>2, <1>3, <2>1 DEF Outcomes
<1>6. OutcomesWithin[<<p, -1>>] = Outcomes(p, Vars, -1)
  BY DEF OutcomesWithin, Bounds
<1> QED BY <1>4, <1>5, <1>6

-----------------------------------------------------------------------------
(* What the explorer finds is real                                         *)

(* An execution state is one of the reference's as long as its assumptions *)
(* hold; what it says of a claim, if it says anything, is an outcome of    *)
(* the program; and a thread that has ended holds no atomic block.         *)
LevelReal(p, s) ==
  /\ s.conf.feasible => Reached(p, s.conf)
  /\ \A c \in Range(s.claims) : ~c.vacuous => c.about \in OutcomesWithin[<<p, -1>>]
  /\ \A t \in Thread(s.conf) :
       s.conf.threads[t].thread_ended => ~(s.conf.threads[t].atomic > 0)

(* Only the active thread can be inside an atomic block, and none is in a  *)
(* state that was left at a switch point.                                  *)
InsideIsActive(s) ==
  \A t \in Thread(s.conf) : s.conf.threads[t].atomic > 0 => t = s.active_thread

NoneInside(s) == \A t \in Thread(s.conf) : ~(s.conf.threads[t].atomic > 0)

RealInv ==
  \A m \in 1 .. Len(execution_states) :
    /\ LevelReal(program, execution_states[m])
    /\ IF m = Len(execution_states) THEN InsideIsActive(execution_states[m])
       ELSE NoneInside(execution_states[m])

(* A step changes one thread, may add one that is outside atomic blocks,   *)
(* and never makes an infeasible interleaving feasible.                    *)
LEMMA StepThreads ==
  ASSUME program \in Programs, NEW conf, ConfOK(program, conf), NEW t \in Thread(conf),
         ~conf.threads[t].thread_ended
  PROVE  LET next == Step(program, conf, t)
         IN  /\ next.feasible => conf.feasible
             /\ next.threads[t].thread_ended => ~(next.threads[t].atomic > 0)
             /\ \A u \in Thread(next) \ {t} :
                  \/ u \in Thread(conf) /\ next.threads[u] = conf.threads[u]
                  \/ next.threads[u].atomic = 0
PROOF
<1> DEFINE i == Instr(program, conf, t)
           n == Cardinality(Thread(conf))
           moved == [conf.threads EXCEPT ![t] = AfterInstr(i, conf, t)]
           next == Step(program, conf, t)
<1> SUFFICES /\ next.feasible => conf.feasible
             /\ next.threads[t].thread_ended => ~(next.threads[t].atomic > 0)
             /\ \A u \in Thread(next) \ {t} :
                  \/ u \in Thread(conf) /\ next.threads[u] = conf.threads[u]
                  \/ next.threads[u].atomic = 0
  OBVIOUS
<1>1. /\ n \in Nat \ {0} /\ Thread(conf) = 0 .. n - 1
      /\ conf.threads \in [0 .. n - 1 -> ThreadState(program)]
      /\ DOMAIN conf = {"mem", "threads", "feasible", "guard_false"}
  BY DEF ConfOK
<1>2. AfterInstr(i, conf, t).thread_ended => AfterInstr(i, conf, t).atomic = 0
  <2>1. conf.threads[t] \in ThreadState(program)
    BY <1>1
  <2> HIDE DEF i
  <2> QED BY <2>1 DEF AfterInstr, ThreadState
<1>3. /\ DOMAIN moved = Thread(conf) /\ moved[t] = AfterInstr(i, conf, t)
      /\ \A u \in Thread(conf) : u # t => moved[u] = conf.threads[u]
  BY <1>1
<1> HIDE DEF i, n, moved
<1>4. CASE conf.guard_false
  <2>1. next = [conf EXCEPT !.threads = moved]
    BY <1>4 DEF Step, i, n, moved
  <2>2. next.threads = moved /\ next.feasible = conf.feasible
    BY <1>1, <2>1
  <2> HIDE DEF next
  <2>3. Thread(next) = Thread(conf)
    BY <1>3, <2>2 DEF Thread
  <2>4. next.threads[t].thread_ended => ~(next.threads[t].atomic > 0)
    BY <1>2, <1>3, <2>2
  <2>5. \A u \in Thread(next) \ {t} : u \in Thread(conf) /\ next.threads[u] = conf.threads[u]
    BY <1>3, <2>2, <2>3
  <2>6. next.feasible => conf.feasible
    BY <2>2
  <2> QED BY <2>4, <2>5, <2>6
<1>5. CASE ~conf.guard_false
  <2> DEFINE spawned == [u \in 0 .. n |-> IF u = n THEN NewThread(i.x) ELSE moved[u]]
             threads == IF i.op = "spawn" THEN spawned ELSE moved
             mainEnds == i.op = "end" /\ t = 0 /\ ~program.leak_check
             feasible == conf.feasible /\ Assumption(i, conf) /\ ~mainEnds
  <2>1. next = [mem |-> NewMem(i, conf, t), threads |-> threads, feasible |-> feasible,
                guard_false |-> mainEnds]
    BY <1>5 DEF Step, i, n, moved
  <2>2. feasible => conf.feasible
    OBVIOUS
  <2> HIDE DEF feasible, mainEnds, threads
  <2>5. next.threads = threads /\ next.feasible = feasible
    BY <2>1
  <2>6. next.feasible => conf.feasible
    BY <2>2, <2>5
  <2> HIDE DEF next
  <2> USE DEF threads
  <2>3. CASE i.op = "spawn"
    <3>1. Thread(next) = 0 .. n
      BY <2>5, <2>3 DEF Thread
    <3>2. NewThread(i.x).atomic = 0
      BY DEF NewThread
    <3>3. t # n /\ t \in 0 .. n /\ \A u \in 0 .. n : u # n => u \in Thread(conf)
      BY <1>1
    <3> QED BY <1>2, <1>3, <2>5, <2>6, <2>3, <3>1, <3>2, <3>3
  <2>4. CASE i.op # "spawn"
    <3>1. Thread(next) = Thread(conf)
      BY <2>5, <2>4, <1>3 DEF Thread
    <3> QED BY <1>2, <1>3, <2>5, <2>6, <2>4, <3>1
  <2> QED BY <2>3, <2>4
<1> QED BY <1>4, <1>5

(* Switching and backtracking leave the configuration as it is.            *)
LEMMA SwitchFrame ==
  ASSUME NEW s, DOMAIN s = StateFields
  PROVE  /\ calculate_mpor_constraints(s).conf = s.conf
         /\ calculate_mpor_constraints(s).claims = s.claims
         /\ calculate_mpor_constraints(s).active_thread = s.active_thread
         /\ MarkTraversed(s).conf = s.conf
         /\ MarkTraversed(s).claims = s.claims
         /\ NextState(s).conf = s.conf
         /\ NextState(s).claims = s.claims
         /\ DOMAIN NextState(s) = StateFields
         /\ ClearAssertions(s).conf = s.conf
         /\ ClearAssertions(s).claims = <<>>
PROOF
<1>1. /\ calculate_mpor_constraints(s).conf = s.conf
      /\ calculate_mpor_constraints(s).claims = s.claims
      /\ calculate_mpor_constraints(s).active_thread = s.active_thread
  BY DEF StateFields, calculate_mpor_constraints
<1>2. MarkTraversed(s).conf = s.conf /\ MarkTraversed(s).claims = s.claims
  BY DEF StateFields, MarkTraversed
<1>3. /\ NextState(s).conf = s.conf /\ NextState(s).claims = s.claims
      /\ DOMAIN NextState(s) = StateFields
  BY DEF StateFields, NextState
<1>4. ClearAssertions(s).conf = s.conf /\ ClearAssertions(s).claims = <<>>
  BY DEF StateFields, ClearAssertions
<1> QED BY <1>1, <1>2, <1>3, <1>4

(* The thread that moves is one the reference lets move: it has not ended, *)
(* and no other is inside an atomic block.                                 *)
LEMMA StepReal ==
  ASSUME program \in Programs, NEW m, NEW s, LevelOK(program, s, m),
         LevelReal(program, s), InsideIsActive(s), can_execution_continue(s)
  PROVE  LevelReal(program, StepState(s)) /\ InsideIsActive(StepState(s))
PROOF
<1> DEFINE t == s.active_thread
           conf == Step(program, s.conf, t)
           made == Claims(program, s.conf, t)
           claims == {[about |-> c, vacuous |-> ~s.conf.feasible] : c \in made}
           equation == s.claims \o SetToSeq(claims)
           next == StepState(s)
<1>1. ConfOK(program, s.conf) /\ t \in Thread(s.conf) /\ ~s.conf.threads[t].thread_ended
  BY DEF LevelOK, StateOK, can_execution_continue
<1>2. next.conf = conf /\ next.claims = equation /\ next.active_thread = t
  <2>1. DOMAIN s = StateFields
    BY DEF LevelOK, StateOK
  <2> HIDE DEF conf, claims
  <2>2. next.conf = conf /\ next.claims = s.claims \o SetToSeq(claims)
        /\ next.active_thread = s.active_thread
    BY <2>1 DEF StepState, StateFields, conf, claims
  <2> QED BY <2>2
<1> HIDE DEF next
<1>3. /\ conf.feasible => s.conf.feasible
      /\ conf.threads[t].thread_ended => ~(conf.threads[t].atomic > 0)
      /\ \A u \in Thread(conf) \ {t} :
           \/ u \in Thread(s.conf) /\ conf.threads[u] = s.conf.threads[u]
           \/ conf.threads[u].atomic = 0
  BY <1>1, StepThreads
<1>4. ASSUME s.conf.feasible
      PROVE  /\ Reached(program, conf)
             /\ made \subseteq OutcomesWithin[<<program, -1>>]
  <2>1. Reached(program, s.conf)
    BY <1>4 DEF LevelReal
  <2>2. t \in Enabled(s.conf)
    BY <1>1, <1>4 DEF Enabled, InsideIsActive
  <2> QED BY <2>1, <2>2, StepIsReached
<1>5. ASSUME NEW c \in Range(equation), ~c.vacuous
      PROVE  c.about \in OutcomesWithin[<<program, -1>>]
  <2>1. IsFiniteSet(claims) /\ s.claims \in Seq(Claim)
    <3>1. made = {} \/ \E d : made = {d}
      BY DEF Claims
    <3> HIDE DEF made
    <3>2. claims = {} \/ \E d : claims = {d}
      <4>1. CASE made = {}
        BY <4>1
      <4>2. ASSUME NEW d, made = {d} PROVE claims = {[about |-> d, vacuous |-> ~s.conf.feasible]}
        BY <4>2
      <4> QED BY <3>1, <4>1, <4>2
    <3>3. IsFiniteSet(claims)
      BY ONLY <3>2, FS_EmptySet, FS_Singleton
    <3> QED BY <3>3 DEF LevelOK, StateOK
  <2> DEFINE new == SetToSeq(claims)
             All == Claim \cup claims
  <2> HIDE DEF claims
  <2>2. new \in Seq(claims) /\ Range(new) = claims
    BY <2>1, SetToSeqProperties
  <2> HIDE DEF new
  <2>3. new \in Seq(All) /\ s.claims \in Seq(All)
    BY <2>1, <2>2, SeqMonotonic
  <2>4. c \in Range(s.claims) \/ c \in Range(new)
    <3>1. c \in Range(s.claims \o new)
      BY <1>5 DEF new
    <3> HIDE DEF All
    <3> QED BY <2>3, <3>1, RangeOfConcat
  <2>5. CASE c \in Range(s.claims)
    BY <1>5, <2>5 DEF LevelReal
  <2>6. CASE c \in claims
    <3> DEFINE vacuous == ~s.conf.feasible
    <3>1. claims = {[about |-> d, vacuous |-> vacuous] : d \in made}
      BY DEF claims
    <3> HIDE DEF vacuous, made
    <3>2. PICK d \in made : c = [about |-> d, vacuous |-> vacuous]
      BY <2>6, <3>1
    <3>3. c.about = d /\ c.vacuous = vacuous
      BY <3>2
    <3>4. ~vacuous
      BY <1>5, <3>3
    <3>5. s.conf.feasible
      BY <3>4 DEF vacuous
    <3> QED BY <1>4, <3>2, <3>3, <3>5 DEF made
  <2> QED BY <2>2, <2>4, <2>5, <2>6
<1> HIDE DEF conf, equation
<1>6. \A u \in Thread(conf) : conf.threads[u].thread_ended => ~(conf.threads[u].atomic > 0)
  <2> TAKE u \in Thread(conf)
  <2>1. CASE u = t
    BY <2>1, <1>3
  <2>2. CASE u # t /\ conf.threads[u].atomic = 0
    BY <2>2
  <2>3. CASE u \in Thread(s.conf) /\ conf.threads[u] = s.conf.threads[u]
    BY <2>3 DEF LevelReal
  <2> QED BY <1>3, <2>1, <2>2, <2>3
<1>7. \A u \in Thread(conf) : conf.threads[u].atomic > 0 => u = t
  <2> SUFFICES ASSUME NEW u \in Thread(conf), u # t PROVE ~(conf.threads[u].atomic > 0)
    OBVIOUS
  <2>1. CASE conf.threads[u].atomic = 0
    BY <2>1
  <2>2. CASE u \in Thread(s.conf) /\ conf.threads[u] = s.conf.threads[u]
    BY <2>2 DEF InsideIsActive
  <2> QED BY <1>3, <2>1, <2>2
<1>8. next.conf.feasible => Reached(program, next.conf)
  BY <1>2, <1>3, <1>4
<1>9. LevelReal(program, next)
  BY <1>2, <1>5, <1>6, <1>8 DEF LevelReal
<1>10. InsideIsActive(next)
  BY <1>2, <1>7 DEF InsideIsActive
<1> QED BY <1>9, <1>10 DEF next

(* A switch happens outside atomic blocks only.                            *)
LEMMA SwitchOutside ==
  ASSUME NEW s, InsideIsActive(s), LevelReal(program, s), s.active_thread \in Thread(s.conf),
         ~(\/ ~has_cswitch_point_occured(s)
           \/ check_if_ileaves_blocked(s)) \/ ~can_execution_continue(s)
  PROVE  NoneInside(s)
PROOF
<1>1. ~(s.conf.threads[s.active_thread].atomic > 0)
  BY DEF check_if_ileaves_blocked, can_execution_continue, LevelReal
<1> QED BY <1>1 DEF NoneInside, InsideIsActive

(* A stack stays real when its top takes a step of the program.            *)
LEMMA TopReplacedReal ==
  ASSUME TreeInv, RealInv, phase # "done", NEW s, LevelReal(program, s), InsideIsActive(s),
         execution_states' = Append(Lower, s), program' = program
  PROVE  RealInv'
PROOF
<1> DEFINE old == execution_states
           new == execution_states'
           l == Len(execution_states)
<1>1. old \in Seq(Range(old)) /\ old # <<>>
  BY DEF TreeInv, StackInv
<1>2. /\ Len(new) = l /\ l \in Nat \ {0}
      /\ \A m \in 1 .. l - 1 : new[m] = old[m]
      /\ new[l] = s
  BY <1>1, ReplaceTop DEF Lower
<1> SUFFICES ASSUME NEW m \in 1 .. l
             PROVE  /\ LevelReal(program, new[m])
                    /\ IF m = l THEN InsideIsActive(new[m]) ELSE NoneInside(new[m])
  BY <1>2 DEF RealInv, LevelReal, InsideIsActive, NoneInside
<1>3. CASE m = l
  BY <1>2, <1>3
<1>4. CASE m # l
  <2>1. m \in 1 .. l - 1 /\ new[m] = old[m]
    BY <1>2, <1>4
  <2> QED BY <1>4, <2>1 DEF RealInv
<1> QED BY <1>3, <1>4

(* It stays real when another thread is chosen.                            *)
LEMMA BranchTakenReal ==
  ASSUME TreeInv, RealInv, NEW n \in 1 .. Len(execution_states), NEW b, NEW c,
         LevelReal(program, b), NoneInside(b), LevelReal(program, c), InsideIsActive(c),
         execution_states' = SubSeq(execution_states, 1, n - 1) \o <<b, c>>,
         program' = program
  PROVE  RealInv'
PROOF
<1> DEFINE old == execution_states
           new == execution_states'
           R == Range(old)
<1>1. old \in Seq(R) /\ Len(old) \in Nat /\ n \in Nat
  BY LenProperties DEF TreeInv, StackInv
<1> HIDE DEF R
<1>2. /\ Len(new) = n + 1
      /\ \A m \in 1 .. n - 1 : new[m] = old[m]
      /\ new[n] = b /\ new[n + 1] = c
  BY <1>1, ReplaceByTwo
<1> SUFFICES ASSUME NEW m \in 1 .. n + 1
             PROVE  /\ LevelReal(program, new[m])
                    /\ IF m = n + 1 THEN InsideIsActive(new[m]) ELSE NoneInside(new[m])
  BY <1>2 DEF RealInv, LevelReal, InsideIsActive, NoneInside
<1>3. CASE m = n + 1
  BY <1>2, <1>3
<1>4. CASE m = n
  BY <1>1, <1>2, <1>4
<1>5. CASE m \in 1 .. n - 1
  <2>1. m \in 1 .. Len(old) /\ m # Len(old) /\ m # n + 1 /\ new[m] = old[m]
    BY <1>1, <1>2, <1>5
  <2> QED BY <2>1 DEF RealInv
<1> QED BY <1>1, <1>3, <1>4, <1>5

(* All configurations on the stack are real at the start.                  *)
LEMMA RealInit == Init => RealInv
PROOF
<1> SUFFICES ASSUME Init PROVE RealInv
  OBVIOUS
<1> DEFINE conf == InitialConf(program, Vars)
           s == InitialState
<1>1. execution_states = <<s>> /\ program \in Programs
  BY DEF Init
<1>2. s.conf = conf /\ s.claims = <<>>
  BY DEF InitialState
<1>3. Thread(conf) = {0} /\ conf.threads[0].atomic = 0
  BY DEF InitialConf, Thread, NewThread
<1>4. Reached(program, conf)
  BY <1>1, StartIsReached
<1> HIDE DEF s, conf
<1>5. LevelReal(program, s) /\ InsideIsActive(s)
  BY <1>2, <1>3, <1>4 DEF LevelReal, InsideIsActive, Range
<1>6. Len(execution_states) = 1 /\ execution_states[1] = s
  BY <1>1
<1> QED BY <1>5, <1>6 DEF RealInv

(* They stay real when an instruction is executed.                         *)
LEMMA RealStep ==
  ASSUME TreeInv, RealInv, symex_step
  PROVE  RealInv'
PROOF
<1>1. /\ phase = "symex" /\ program \in Programs /\ program' = program
      /\ can_execution_continue(Top)
      /\ execution_states' = Append(Lower, StepState(Top))
  BY DEF symex_step, MustStep, TreeInv, StackInv
<1>2. /\ Len(execution_states) \in 1 .. Len(execution_states)
      /\ Top = execution_states[Len(execution_states)]
      /\ LevelOK(program, Top, Len(execution_states))
  BY <1>1, StackTop
<1>3. LevelReal(program, Top) /\ InsideIsActive(Top)
  BY <1>2 DEF RealInv
<1>4. LevelReal(program, StepState(Top)) /\ InsideIsActive(StepState(Top))
  BY <1>1, <1>2, <1>3, StepReal
<1> QED BY <1>1, <1>4, TopReplacedReal

(* They stay real at a context switch.                                     *)
LEMMA RealSwitch ==
  ASSUME TreeInv, RealInv, SwitchPoint
  PROVE  RealInv'
PROOF
<1> DEFINE l == Len(execution_states)
           s == IF options.por THEN calculate_mpor_constraints(Top) ELSE Top
           rejected == (options.por /\ s.mpor_says_no) \/ Viable(s) = {}
           b == MarkTraversed(s)
           c == NextState(s)
<1>1. phase = "symex" /\ program' = program /\ ~MustStep
  BY DEF SwitchPoint
<1>2. l \in 1 .. l /\ Top = execution_states[l] /\ LevelOK(program, Top, l)
  BY <1>1, StackTop
<1>3. /\ DOMAIN Top = StateFields /\ Top.active_thread \in Thread(Top.conf)
      /\ LevelReal(program, Top) /\ InsideIsActive(Top)
  BY <1>2 DEF RealInv, LevelOK, StateOK
<1>4. NoneInside(Top)
  BY <1>1, <1>3, SwitchOutside DEF MustStep
<1>5. DOMAIN s = StateFields
  BY <1>2, <1>3, ConstraintsOK DEF LevelOK, StateOK
<1>6. s.conf = Top.conf /\ s.claims = Top.claims /\ s.active_thread = Top.active_thread
  BY <1>3, SwitchFrame
<1>7. \/ execution_states' = Append(Lower, s)
      \/ execution_states' = Lower \o <<b, c>>
  BY DEF SwitchPoint
<1> HIDE DEF s
<1>8. LevelReal(program, s) /\ InsideIsActive(s) /\ NoneInside(s)
  BY <1>3, <1>4, <1>6 DEF LevelReal, InsideIsActive, NoneInside
<1>9. CASE execution_states' = Append(Lower, s)
  BY <1>1, <1>8, <1>9, TopReplacedReal
<1>10. CASE execution_states' = Lower \o <<b, c>>
  <2>1. b.conf = s.conf /\ b.claims = s.claims /\ c.conf = s.conf /\ c.claims = s.claims
    BY <1>5, SwitchFrame
  <2> HIDE DEF b, c
  <2>2. LevelReal(program, b) /\ NoneInside(b) /\ LevelReal(program, c) /\ InsideIsActive(c)
    BY <1>8, <2>1 DEF LevelReal, NoneInside, InsideIsActive
  <2>3. execution_states' = SubSeq(execution_states, 1, l - 1) \o <<b, c>>
    BY <1>10 DEF Lower
  <2> QED BY <1>1, <1>2, <2>2, <2>3, BranchTakenReal
<1> QED BY <1>7, <1>9, <1>10

(* They stay real when the explorer goes back.                             *)
LEMMA RealBacktrack ==
  ASSUME TreeInv, RealInv, CheckAndBacktrack
  PROVE  RealInv'
PROOF
<1> DEFINE l == Len(execution_states)
           unexplored == {n \in 1 .. l - 1 : Viable(execution_states[n]) # {}}
           n == Max(unexplored)
           s == execution_states[n]
           b == MarkTraversed(s)
           c == ClearAssertions(NextState(s))
<1>1. phase = "formula" /\ program' = program
  BY DEF CheckAndBacktrack
<1>2. l \in Nat \ {0}
  BY <1>1, StackTop
<1>3. CASE unexplored = {}
  <2>1. Len(execution_states') = 0
    BY <1>3 DEF CheckAndBacktrack
  <2> QED BY <2>1 DEF RealInv
<1>4. CASE unexplored # {}
  <2>1. execution_states' = SubSeq(execution_states, 1, n - 1) \o <<b, c>>
    BY <1>4 DEF CheckAndBacktrack
  <2>2. n \in unexplored
    <3>1. unexplored \in SUBSET Nat /\ \A y \in unexplored : y <= l
      BY <1>2
    <3> HIDE DEF unexplored
    <3> QED BY <1>2, <1>4, <3>1, MaxProperties
  <2> HIDE DEF n
  <2>3. n \in 1 .. l /\ n # l
    BY <1>2, <2>2
  <2>4. LevelReal(program, s) /\ NoneInside(s) /\ DOMAIN s = StateFields
    BY <2>3 DEF RealInv, TreeInv, StackInv, LevelOK, StateOK
  <2>5. b.conf = s.conf /\ b.claims = s.claims /\ c.conf = s.conf /\ c.claims = <<>>
    BY <2>4, SwitchFrame
  <2> HIDE DEF b, c, s
  <2>6. LevelReal(program, b) /\ NoneInside(b) /\ LevelReal(program, c) /\ InsideIsActive(c)
    BY <2>4, <2>5 DEF LevelReal, NoneInside, InsideIsActive, Range
  <2> QED BY <1>1, <2>1, <2>3, <2>6, BranchTakenReal
<1> QED BY <1>3, <1>4

(* Every step keeps them real.                                             *)
LEMMA RealNext == TreeInv /\ RealInv /\ [Next]_vars => RealInv'
PROOF
<1> SUFFICES ASSUME TreeInv, RealInv, [Next]_vars PROVE RealInv'
  OBVIOUS
<1>1. CASE symex_step
  BY <1>1, RealStep
<1>2. CASE SwitchPoint
  BY <1>2, RealSwitch
<1>3. CASE CheckAndBacktrack
  BY <1>3, RealBacktrack
<1>4. CASE UNCHANGED vars
  BY <1>4 DEF vars, RealInv, LevelReal, InsideIsActive, NoneInside
<1> QED BY <1>1, <1>2, <1>3, <1>4 DEF Next

(* Every execution state on the stack is one of the reference's, which     *)
(* switches threads after every instruction but inside atomic blocks, as   *)
(* long as its assumptions hold (check_if_ileaves_blocked,                 *)
(* execution_state.cpp:414-441).                                           *)
THEOREM RealInvariant == Spec => []RealInv
PROOF
<1>1. Init => RealInv
  BY RealInit
<1>2. TreeInv /\ RealInv /\ [Next]_vars => RealInv'
  BY RealNext
<1> QED BY <1>1, <1>2, TreeInvariant, PTL DEF Spec

(* What the formula that is complete, if one is, says of its claims.       *)
FormulaOutcomes == IF phase = "formula" THEN Solved(Top) ELSE {}

CheckedReal == checked \cup FormulaOutcomes \subseteq OutcomesWithin[<<program, -1>>]

(* What is given to the solver is an outcome of the program.               *)
LEMMA FormulaReal ==
  ASSUME TreeInv, RealInv
  PROVE  FormulaOutcomes \subseteq OutcomesWithin[<<program, -1>>]
PROOF
<1> SUFFICES ASSUME phase = "formula" PROVE Solved(Top) \subseteq OutcomesWithin[<<program, -1>>]
  BY DEF FormulaOutcomes
<1>1. LevelReal(program, Top)
  BY StackTop DEF RealInv
<1> QED BY <1>1 DEF LevelReal, Solved

(* No bug is invented, with and without partial-order reduction or a       *)
(* context bound, not even before the search is over: whatever a formula   *)
(* says of a claim happens under some interleaving                         *)
(* (execution_state.cpp:414-441, reachability_tree.cpp:481-522).           *)
THEOREM CheckedIsReal == Spec => []CheckedReal
PROOF
<1> DEFINE Real == checked \subseteq OutcomesWithin[<<program, -1>>]
<1>1. Init => Real
  BY DEF Init
<1>2. TreeInv /\ RealInv /\ Real /\ [Next]_vars => Real'
  <2> SUFFICES ASSUME TreeInv, RealInv, Real, [Next]_vars PROVE Real'
    OBVIOUS
  <2>1. CASE symex_step \/ SwitchPoint \/ UNCHANGED vars
    BY <2>1 DEF symex_step, SwitchPoint, vars
  <2>2. CASE CheckAndBacktrack
    <3>1. checked' \subseteq checked \cup FormulaOutcomes /\ program' = program
      BY <2>2 DEF CheckAndBacktrack, FormulaOutcomes
    <3> QED BY <3>1, FormulaReal
  <2> QED BY <2>1, <2>2 DEF Next
<1>3. TreeInv /\ RealInv /\ Real => CheckedReal
  BY FormulaReal DEF CheckedReal
<1> QED BY <1>1, <1>2, <1>3, TreeInvariant, RealInvariant, PTL DEF Spec

(* So the bugs that the runs count when the search is over are real.       *)
THEOREM OnlyRealOutcomesTheorem == Spec => []OnlyRealOutcomes
PROOF
<1>1. CheckedReal => OnlyRealOutcomes
  BY DEF CheckedReal, OnlyRealOutcomes
<1> QED BY <1>1, CheckedIsReal, PTL
=============================================================================
