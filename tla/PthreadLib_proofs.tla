-------------------------- MODULE PthreadLib_proofs --------------------------
(***************************************************************************)
(* Theorems about PthreadLib, for every set of programs: the two counters  *)
(* deadlocks are decided from are exact, and a mutex has one holder.       *)
(***************************************************************************)
EXTENDS PthreadLib, FiniteSetTheorems, TLAPS

Fields ==
  {"threads", "lock", "cond_lock", "predicate", "thread_ended",
   "num_threads_running", "blocked_threads_count", "report"}

Places == {"running", "blocked", "waiting", "waking", "ended"}

(* The threads counted as blocked.                                         *)
Idle(s) == {t \in Thread(s) : s.threads[t].at \in {"blocked", "waiting"}}

(* Threads are numbered as they are created; each is at a call of its      *)
(* body, and in a wait only at one.                                        *)
ThreadsInv(p, s) ==
  /\ Cardinality(Thread(s)) \in Nat \ {0}
  /\ Thread(s) = 0 .. Cardinality(Thread(s)) - 1
  /\ \A t \in Thread(s) :
       /\ DOMAIN s.threads[t] = {"body", "pc", "at"}
       /\ s.threads[t].body \in DOMAIN p
       /\ s.threads[t].pc \in Nat \ {0}
       /\ s.threads[t].at \in Places
       /\ s.threads[t].at \in {"waiting", "waking"} => Instr(p, s, t).op = "await"

GlobalsInv(s) ==
  /\ DOMAIN s = Fields
  /\ s.lock \in [Mutex -> {0, 1}]
  /\ s.cond_lock \in [Cond -> {0, 1}]
  /\ s.predicate \subseteq Cond
  /\ s.thread_ended \subseteq Thread(s)
  /\ s.report \in Reports

CountInv(s) ==
  /\ s.num_threads_running = Cardinality(Live(s))
  /\ s.blocked_threads_count = Cardinality(Idle(s))

LibInv(p, s) == ThreadsInv(p, s) /\ GlobalsInv(s) /\ CountInv(s)

(* The assertions that a mutex is held.                                    *)
OwnershipReport == {"not_held", "unlock"}

(* A thread has locked each mutex at most once more than it unlocked it,   *)
(* and the flag of a mutex is set while somebody holds it.                 *)
MutexInv(p, s) ==
  \A m \in Mutex :
    /\ \A t \in Thread(s) : Balance(p[s.threads[t].body], s.threads[t].pc, m) \in {0, 1}
    /\ \A t \in Thread(s) : Holds(p, s, t, m) => s.lock[m] = 1
    /\ \A t, u \in Thread(s) : Holds(p, s, t, m) /\ Holds(p, s, u, m) => t = u

PthreadInv == program \in Programs /\ LibInv(program, lib)

OwnershipInv ==
  OnlyOwnersRelease(program) => MutexInv(program, lib) /\ lib.report \notin OwnershipReport

-----------------------------------------------------------------------------
(* How a step moves its thread.                                            *)

(* The library's globals are as they were.                                 *)
SameGlobals(s, r) ==
  /\ r.lock = s.lock /\ r.cond_lock = s.cond_lock
  /\ r.predicate = s.predicate /\ r.thread_ended = s.thread_ended
  /\ r.num_threads_running = s.num_threads_running
  /\ r.blocked_threads_count = s.blocked_threads_count
  /\ r.report = s.report

(* r is s but for where thread t is, and perhaps the globals.              *)
Moves(s, r, t, pc, where) ==
  /\ Thread(r) = Thread(s)
  /\ \A u \in Thread(s) : u # t => r.threads[u] = s.threads[u]
  /\ DOMAIN r.threads[t] = {"body", "pc", "at"}
  /\ r.threads[t].body = s.threads[t].body
  /\ r.threads[t].pc = pc
  /\ r.threads[t].at = where

(* The places of a thread after its program counter moved.                 *)
LEMMA AtMoves ==
  ASSUME NEW s, DOMAIN s = Fields, NEW t \in Thread(s),
         DOMAIN s.threads[t] = {"body", "pc", "at"}, NEW where
  PROVE  LET r == At(s, t, where)
         IN  /\ DOMAIN r = Fields
             /\ Moves(s, r, t, s.threads[t].pc, where)
             /\ SameGlobals(s, r)
PROOF
<1> DEFINE r == At(s, t, where)
<1>1. DOMAIN r = Fields /\ SameGlobals(s, r)
  BY DEF At, SameGlobals, Fields
<1>2. r.threads = [s.threads EXCEPT ![t] = [s.threads[t] EXCEPT !.at = where]]
  BY DEF At, Fields
<1>3. Moves(s, r, t, s.threads[t].pc, where)
  <2> HIDE DEF r
  <2> QED BY <1>2 DEF Moves, Thread
<1> QED BY <1>1, <1>3

(* A thread that advances moves, and no other does.                        *)
LEMMA AdvanceMoves ==
  ASSUME NEW s, DOMAIN s = Fields, NEW t \in Thread(s),
         DOMAIN s.threads[t] = {"body", "pc", "at"}
  PROVE  LET r == Advance(s, t)
         IN  /\ DOMAIN r = Fields
             /\ Moves(s, r, t, s.threads[t].pc + 1, s.threads[t].at)
             /\ SameGlobals(s, r)
PROOF
<1> DEFINE r == Advance(s, t)
<1>1. DOMAIN r = Fields /\ SameGlobals(s, r)
  BY DEF Advance, SameGlobals, Fields
<1>2. r.threads = [s.threads EXCEPT ![t] = [s.threads[t] EXCEPT !.pc = s.threads[t].pc + 1]]
  BY DEF Advance, Fields
<1>3. Moves(s, r, t, s.threads[t].pc + 1, s.threads[t].at)
  <2> HIDE DEF r
  <2> QED BY <1>2 DEF Moves, Thread
<1> QED BY <1>1, <1>3

(* The sets the counters count change by thread t at most.                 *)
LEMMA MoveCounts ==
  ASSUME NEW p, NEW s, NEW r, NEW t \in Thread(s), NEW pc, NEW where,
         ThreadsInv(p, s), Moves(s, r, t, pc, where)
  PROVE  /\ IsFiniteSet(Live(s)) /\ IsFiniteSet(Idle(s))
         /\ Live(r) = IF where = "ended" THEN Live(s) \ {t} ELSE Live(s) \cup {t}
         /\ Idle(r) = IF where \in {"blocked", "waiting"}
                        THEN Idle(s) \cup {t} ELSE Idle(s) \ {t}
         /\ Cardinality(Live(s)) \in Nat /\ Cardinality(Idle(s)) \in Nat
         /\ s.threads[t].at # "ended" =>
              Cardinality(Live(r)) = Cardinality(Live(s)) - (IF where = "ended" THEN 1 ELSE 0)
         /\ Cardinality(Idle(r)) =
              Cardinality(Idle(s))
              + (IF where \in {"blocked", "waiting"} THEN 1 ELSE 0)
              - (IF s.threads[t].at \in {"blocked", "waiting"} THEN 1 ELSE 0)
PROOF
<1>1. IsFiniteSet(Thread(s))
  <2> DEFINE n == Cardinality(Thread(s)) - 1
  <2>1. n \in Int /\ Thread(s) = 0 .. n
    BY DEF ThreadsInv
  <2> QED BY <2>1, FS_Interval
<1>2. IsFiniteSet(Live(s)) /\ IsFiniteSet(Idle(s))
  BY <1>1, FS_Subset DEF Live, Idle
<1>3. Live(r) = IF where = "ended" THEN Live(s) \ {t} ELSE Live(s) \cup {t}
  BY DEF Moves, Live
<1>4. Idle(r) = IF where \in {"blocked", "waiting"} THEN Idle(s) \cup {t} ELSE Idle(s) \ {t}
  BY DEF Moves, Idle
<1>5. Cardinality(Live(s)) \in Nat /\ Cardinality(Idle(s)) \in Nat
  BY <1>2, FS_CardinalityType
<1>6. ASSUME s.threads[t].at # "ended"
      PROVE  Cardinality(Live(r)) = Cardinality(Live(s)) - (IF where = "ended" THEN 1 ELSE 0)
  <2>1. t \in Live(s)
    BY <1>6 DEF Live
  <2>2. CASE where = "ended"
    BY <1>2, <1>3, <1>5, <2>1, <2>2, FS_RemoveElement
  <2>3. CASE where # "ended"
    <3>1. Live(r) = Live(s)
      BY <1>3, <2>1, <2>3
    <3> QED BY <1>5, <2>3, <3>1
  <2> QED BY <2>2, <2>3
<1>7. t \in Idle(s) <=> s.threads[t].at \in {"blocked", "waiting"}
  BY DEF Idle
<1>8. Cardinality(Idle(r)) =
        Cardinality(Idle(s))
        + (IF where \in {"blocked", "waiting"} THEN 1 ELSE 0)
        - (IF t \in Idle(s) THEN 1 ELSE 0)
  <2>1. CASE where \in {"blocked", "waiting"}
    <3>1. Cardinality(Idle(r)) = IF t \in Idle(s) THEN Cardinality(Idle(s)) ELSE Cardinality(Idle(s)) + 1
      BY <1>2, <1>4, <2>1, FS_AddElement
    <3> QED BY <1>5, <2>1, <3>1
  <2>2. CASE where \notin {"blocked", "waiting"}
    <3>1. Cardinality(Idle(r)) = IF t \in Idle(s) THEN Cardinality(Idle(s)) - 1 ELSE Cardinality(Idle(s))
      BY <1>2, <1>4, <2>2, FS_RemoveElement
    <3> QED BY <1>5, <2>2, <3>1
  <2> QED BY <2>1, <2>2
<1> QED BY <1>2, <1>3, <1>4, <1>5, <1>6, <1>7, <1>8

(* The threads stay well formed if the one that moved is.                  *)
LEMMA MoveThreads ==
  ASSUME NEW p, NEW s, NEW r, NEW t \in Thread(s), NEW pc \in Nat \ {0}, NEW where \in Places,
         ThreadsInv(p, s), Moves(s, r, t, pc, where),
         where \in {"waiting", "waking"} => Instr(p, r, t).op = "await"
  PROVE  ThreadsInv(p, r)
PROOF
<1>1. Thread(r) = Thread(s)
  BY DEF Moves
<1>2. ASSUME NEW u \in Thread(r), u # t PROVE r.threads[u] = s.threads[u]
  BY <1>1, <1>2 DEF Moves
<1>3. ASSUME NEW u \in Thread(r), u # t PROVE Instr(p, r, u) = Instr(p, s, u)
  BY <1>2, <1>3 DEF Instr
<1>4. ASSUME NEW u \in Thread(r)
      PROVE  /\ DOMAIN r.threads[u] = {"body", "pc", "at"}
             /\ r.threads[u].body \in DOMAIN p
             /\ r.threads[u].pc \in Nat \ {0}
             /\ r.threads[u].at \in Places
             /\ r.threads[u].at \in {"waiting", "waking"} => Instr(p, r, u).op = "await"
  <2>1. CASE u = t
    BY <2>1 DEF Moves, ThreadsInv
  <2>2. CASE u # t
    BY <1>1, <1>2, <1>3, <2>2 DEF ThreadsInv
  <2> QED BY <2>1, <2>2
<1> QED BY <1>1, <1>4 DEF ThreadsInv

(* A change of locks, counters or flags before the move does not matter to *)
(* who moves.                                                              *)
LEMMA MovesAfterGlobals ==
  ASSUME NEW s, NEW s1, NEW r, NEW t, NEW pc, NEW where,
         s1.threads = s.threads, Moves(s1, r, t, pc, where)
  PROVE  Moves(s, r, t, pc, where)
BY DEF Moves, Thread

(* A step that moves one thread and counts it for what it does.            *)
LEMMA MoveKeepsLib ==
  ASSUME NEW p, NEW s, NEW r, NEW t \in Thread(s), NEW pc \in Nat \ {0}, NEW where \in Places,
         LibInv(p, s), s.threads[t].at # "ended", Moves(s, r, t, pc, where),
         where \in {"waiting", "waking"} => Instr(p, r, t).op = "await",
         GlobalsInv(r),
         r.num_threads_running = s.num_threads_running - (IF where = "ended" THEN 1 ELSE 0),
         r.blocked_threads_count =
           s.blocked_threads_count
           + (IF where \in {"blocked", "waiting"} THEN 1 ELSE 0)
           - (IF s.threads[t].at \in {"blocked", "waiting"} THEN 1 ELSE 0)
  PROVE  LibInv(p, r)
PROOF
<1>1. ThreadsInv(p, r)
  BY MoveThreads DEF LibInv
<1>2. CountInv(r)
  <2>1. /\ s.num_threads_running = Cardinality(Live(s))
        /\ s.blocked_threads_count = Cardinality(Idle(s))
    BY DEF LibInv, CountInv
  <2>2. /\ Cardinality(Live(r)) = Cardinality(Live(s)) - (IF where = "ended" THEN 1 ELSE 0)
        /\ Cardinality(Idle(r)) =
             Cardinality(Idle(s))
             + (IF where \in {"blocked", "waiting"} THEN 1 ELSE 0)
             - (IF s.threads[t].at \in {"blocked", "waiting"} THEN 1 ELSE 0)
    <3>1. ThreadsInv(p, s)
      BY DEF LibInv
    <3>2. s.threads[t].at # "ended" =>
            Cardinality(Live(r)) = Cardinality(Live(s)) - (IF where = "ended" THEN 1 ELSE 0)
      BY <3>1, MoveCounts, SMTT(30)
    <3>3. Cardinality(Idle(r)) =
            Cardinality(Idle(s))
            + (IF where \in {"blocked", "waiting"} THEN 1 ELSE 0)
            - (IF s.threads[t].at \in {"blocked", "waiting"} THEN 1 ELSE 0)
      BY <3>1, MoveCounts, Zenon
    <3> QED BY <3>2, <3>3, Zenon
  <2> QED BY <2>1, <2>2, Zenon DEF CountInv
<1> QED BY <1>1, <1>2 DEF LibInv

(* A new thread counts as running.                                         *)
Created(s, b) == [s EXCEPT !.threads = Spawn(s, b), !.num_threads_running = @ + 1]

(* A spawned thread leaves the library's state alone.                      *)
LEMMA SpawnKeepsLib ==
  ASSUME NEW p, NEW s, LibInv(p, s), NEW b \in DOMAIN p, NEW r, r = Created(s, b)
  PROVE  LET n == Cardinality(Thread(s))
         IN  /\ LibInv(p, r)
             /\ Thread(r) = Thread(s) \cup {n} /\ n \notin Thread(s)
             /\ \A u \in Thread(s) : r.threads[u] = s.threads[u]
             /\ r.threads[n] = NewThread(b)
             /\ r.lock = s.lock /\ r.report = s.report
PROOF
<1> DEFINE n == Cardinality(Thread(s))
<1>1. n \in Nat \ {0} /\ Thread(s) = 0 .. n - 1
  BY DEF LibInv, ThreadsInv
<1>2. /\ DOMAIN r = Fields
      /\ r.threads = Spawn(s, b)
      /\ r.num_threads_running = s.num_threads_running + 1
      /\ r.blocked_threads_count = s.blocked_threads_count
      /\ r.lock = s.lock /\ r.cond_lock = s.cond_lock /\ r.predicate = s.predicate
      /\ r.thread_ended = s.thread_ended /\ r.report = s.report
  BY DEF LibInv, GlobalsInv, Fields, Created
<1>3. /\ Thread(r) = 0 .. n
      /\ \A u \in Thread(s) : r.threads[u] = s.threads[u]
      /\ r.threads[n] = NewThread(b)
  <2> HIDE DEF n
  <2>1. Spawn(s, b) = [t \in 0 .. n |-> IF t \in Thread(s) THEN s.threads[t] ELSE NewThread(b)]
    BY DEF Spawn, n
  <2> QED BY <1>1, <1>2, <2>1 DEF Thread
<1>4. Thread(r) = Thread(s) \cup {n} /\ n \notin Thread(s)
  <2> HIDE DEF n
  <2> QED BY <1>1, <1>3
<1>5. Cardinality(Thread(r)) = n + 1
  <2> HIDE DEF n
  <2>1. 0 \in Int /\ n \in Int
    BY <1>1
  <2>2. Cardinality(0 .. n) = n - 0 + 1
    BY <1>1, <2>1, FS_Interval
  <2> QED BY <1>1, <1>3, <2>2
<1>6. /\ DOMAIN NewThread(b) = {"body", "pc", "at"}
      /\ NewThread(b).body = b /\ NewThread(b).pc = 1 /\ NewThread(b).at = "running"
  BY DEF NewThread
<1> HIDE DEF n
<1>7. ThreadsInv(p, r)
  <2>1. ASSUME NEW u \in Thread(r)
        PROVE  /\ DOMAIN r.threads[u] = {"body", "pc", "at"}
               /\ r.threads[u].body \in DOMAIN p
               /\ r.threads[u].pc \in Nat \ {0}
               /\ r.threads[u].at \in Places
               /\ r.threads[u].at \in {"waiting", "waking"} => Instr(p, r, u).op = "await"
    <3>1. CASE u = n
      BY <1>3, <1>6, <3>1 DEF Places
    <3>2. CASE u \in Thread(s)
      <4>1. Instr(p, r, u) = Instr(p, s, u)
        BY <1>3, <3>2 DEF Instr
      <4> QED BY <1>3, <3>2, <4>1 DEF LibInv, ThreadsInv
    <3> QED BY <1>4, <3>1, <3>2
  <2>2. Cardinality(Thread(r)) \in Nat \ {0} /\ Thread(r) = 0 .. Cardinality(Thread(r)) - 1
    BY <1>1, <1>3, <1>5
  <2> QED BY <2>1, <2>2 DEF ThreadsInv
<1>8. CountInv(r)
  <2>1. Live(r) = Live(s) \cup {n} /\ n \notin Live(s)
    BY <1>3, <1>4, <1>6 DEF Live
  <2>2. Idle(r) = Idle(s)
    BY <1>3, <1>4, <1>6 DEF Idle
  <2>3. IsFiniteSet(Live(s))
    <3>1. IsFiniteSet(Thread(s))
      <4>1. 0 \in Int /\ n - 1 \in Int
        BY <1>1
      <4> QED BY <1>1, <4>1, FS_Interval
    <3> QED BY <3>1, FS_Subset DEF Live
  <2>4. Cardinality(Live(r)) = Cardinality(Live(s)) + 1
    BY <2>1, <2>3, FS_AddElement
  <2> QED BY <1>2, <2>2, <2>4 DEF LibInv, CountInv
<1>9. GlobalsInv(r)
  BY <1>2, <1>4 DEF LibInv, GlobalsInv
<1>10. LibInv(p, r)
  BY <1>7, <1>8, <1>9 DEF LibInv
<1> QED BY <1>2, <1>3, <1>4, <1>10 DEF n

-----------------------------------------------------------------------------
(* Locks and unlocks.                                                      *)

(* What one call adds to the calls a thread has made.                      *)
LEMMA CallsStep ==
  ASSUME NEW body, Len(body) \in Nat, NEW pc \in Nat \ {0}, NEW op, NEW m
  PROVE  /\ IsFiniteSet(Calls(body, pc, op, m))
         /\ Cardinality(Calls(body, pc, op, m)) \in Nat
         /\ Cardinality(Calls(body, pc + 1, op, m)) =
              Cardinality(Calls(body, pc, op, m))
              + IF pc <= Len(body) /\ body[pc].op = op /\ body[pc].x = m THEN 1 ELSE 0
PROOF
<1> DEFINE before == Calls(body, pc, op, m)
           after == Calls(body, pc + 1, op, m)
           called == pc <= Len(body) /\ body[pc].op = op /\ body[pc].x = m
<1>1. IsFiniteSet(before)
  <2>1. 1 \in Int /\ pc - 1 \in Int
    OBVIOUS
  <2>2. IsFiniteSet(1 .. pc - 1)
    BY <2>1, FS_Interval
  <2> QED BY <2>2, FS_Subset DEF Calls
<1>2. Cardinality(before) \in Nat
  BY <1>1, FS_CardinalityType
<1>3. pc \notin before
  BY DEF Calls
<1>4. ASSUME called PROVE after = before \cup {pc}
  BY <1>4 DEF Calls
<1>5. ASSUME ~called PROVE after = before
  BY <1>5 DEF Calls
<1> HIDE DEF before, after, called
<1>6. Cardinality(after) = Cardinality(before) + IF called THEN 1 ELSE 0
  <2>1. CASE called
    BY <1>1, <1>2, <1>3, <1>4, <2>1, FS_AddElement
  <2>2. CASE ~called
    BY <1>2, <1>5, <2>2
  <2> QED BY <2>1, <2>2
<1> QED BY <1>1, <1>2, <1>6 DEF before, after, called

(* What a call adds to the balance of a mutex.                             *)
Gain(i, m) ==
  (IF i.op = "lock" /\ i.x = m THEN 1 ELSE 0) - (IF i.op = "unlock" /\ i.x = m THEN 1 ELSE 0)

(* What one call adds to how often a thread has locked a mutex.            *)
LEMMA BalanceStep ==
  ASSUME NEW p \in Programs, NEW s, NEW t \in Thread(s), NEW m,
         s.threads[t].body \in DOMAIN p, s.threads[t].pc \in Nat \ {0}
  PROVE  LET body == p[s.threads[t].body]
             pc == s.threads[t].pc
         IN  /\ Balance(body, pc, m) \in Int
             /\ Balance(body, pc + 1, m) = Balance(body, pc, m) + Gain(Instr(p, s, t), m)
PROOF
<1> DEFINE body == p[s.threads[t].body]
           pc == s.threads[t].pc
           i == Instr(p, s, t)
           Adds(op) == pc <= Len(body) /\ body[pc].op = op /\ body[pc].x = m
<1>1. Len(body) \in Nat /\ pc \in Nat \ {0}
  BY ProgramAssumption
<1>2. i = IF pc <= Len(body) THEN body[pc] ELSE [op |-> "return", x |-> "none", m |-> "none"]
  BY DEF Instr
<1>3. /\ Adds("lock") <=> i.op = "lock" /\ i.x = m
      /\ Adds("unlock") <=> i.op = "unlock" /\ i.x = m
  <2> HIDE DEF body, pc, i
  <2>1. CASE pc <= Len(body)
    BY <1>2, <2>1
  <2>2. CASE ~(pc <= Len(body))
    BY <1>2, <2>2
  <2> QED BY <2>1, <2>2
<1> DEFINE Count(n, op) == Cardinality(Calls(body, n, op, m))
<1>4. /\ Count(pc, "lock") \in Nat /\ Count(pc, "unlock") \in Nat
      /\ Count(pc + 1, "lock") = Count(pc, "lock") + IF Adds("lock") THEN 1 ELSE 0
      /\ Count(pc + 1, "unlock") = Count(pc, "unlock") + IF Adds("unlock") THEN 1 ELSE 0
  <2> HIDE DEF body, pc
  <2> QED BY <1>1, CallsStep
<1>5. /\ Balance(body, pc, m) = Count(pc, "lock") - Count(pc, "unlock")
      /\ Balance(body, pc + 1, m) = Count(pc + 1, "lock") - Count(pc + 1, "unlock")
  BY DEF Balance
<1>6. Gain(i, m) = (IF Adds("lock") THEN 1 ELSE 0) - (IF Adds("unlock") THEN 1 ELSE 0)
  <2> HIDE DEF i, Adds
  <2> QED BY <1>3 DEF Gain
<1> HIDE DEF body, pc, i, Adds, Count
<1>7. /\ Balance(body, pc, m) \in Int
      /\ Balance(body, pc + 1, m) = Balance(body, pc, m) + Gain(i, m)
  BY <1>4, <1>5, <1>6
<1> QED BY <1>7 DEF body, pc, i

(* Nobody enters but through a free mutex, and nobody frees another's.     *)
LEMMA MoveMutex ==
  ASSUME NEW p, NEW s, NEW r, NEW t \in Thread(s), NEW pc, NEW where,
         Moves(s, r, t, pc, where), MutexInv(p, s),
         \A m \in Mutex :
           /\ Balance(p[s.threads[t].body], pc, m) \in {0, 1}
           /\ Holds(p, r, t, m) => r.lock[m] = 1 /\ (Holds(p, s, t, m) \/ s.lock[m] = 0)
           /\ r.lock[m] \in {1, s.lock[m]} \/ Holds(p, s, t, m)
  PROVE  MutexInv(p, r)
PROOF
<1> SUFFICES ASSUME NEW m \in Mutex
             PROVE  /\ \A u \in Thread(r) :
                         Balance(p[r.threads[u].body], r.threads[u].pc, m) \in {0, 1}
                    /\ \A u \in Thread(r) : Holds(p, r, u, m) => r.lock[m] = 1
                    /\ \A u, v \in Thread(r) :
                         Holds(p, r, u, m) /\ Holds(p, r, v, m) => u = v
  BY DEF MutexInv
<1>1. Thread(r) = Thread(s)
  BY DEF Moves
<1>2. ASSUME NEW u \in Thread(r), u # t
      PROVE  r.threads[u] = s.threads[u] /\ (Holds(p, r, u, m) <=> Holds(p, s, u, m))
  <2>1. r.threads[u] = s.threads[u]
    BY <1>1, <1>2 DEF Moves
  <2>2. Instr(p, r, u) = Instr(p, s, u)
    BY <2>1 DEF Instr
  <2> QED BY <2>1, <2>2 DEF Holds, InWait
<1>3. ASSUME NEW u \in Thread(r)
      PROVE  Balance(p[r.threads[u].body], r.threads[u].pc, m) \in {0, 1}
  <2>1. CASE u = t
    BY <2>1 DEF Moves
  <2>2. CASE u # t
    BY <1>1, <1>2, <2>2 DEF MutexInv
  <2> QED BY <2>1, <2>2
<1>4. ASSUME NEW u \in Thread(r), u # t, Holds(p, r, u, m)
      PROVE  s.lock[m] = 1 /\ ~Holds(p, s, t, m) /\ Holds(p, s, u, m)
  BY <1>1, <1>2, <1>4 DEF MutexInv
<1>5. ASSUME NEW u \in Thread(r), Holds(p, r, u, m) PROVE r.lock[m] = 1
  BY <1>4, <1>5
<1>6. ASSUME NEW u \in Thread(r), NEW v \in Thread(r), Holds(p, r, u, m), Holds(p, r, v, m)
      PROVE  u = v
  <2>1. CASE u # t /\ v # t
    BY <1>1, <1>4, <1>6, <2>1 DEF MutexInv
  <2>2. CASE u = t /\ v # t
    <3>1. s.lock[m] = 1 /\ ~Holds(p, s, t, m)
      BY <1>4, <1>6, <2>2
    <3> QED BY <1>6, <2>2, <3>1
  <2>3. CASE u # t /\ v = t
    <3>1. s.lock[m] = 1 /\ ~Holds(p, s, t, m)
      BY <1>4, <1>6, <2>3
    <3> QED BY <1>6, <2>3, <3>1
  <2> QED BY <2>1, <2>2, <2>3
<1> QED BY <1>3, <1>5, <1>6

(* A step that leaves the locks alone and neither enters nor leaves a wait.*)
LEMMA MoveKeepsMutex ==
  ASSUME NEW p \in Programs, NEW s, NEW r, NEW t \in Thread(s), NEW where,
         NEW pc \in {s.threads[t].pc, s.threads[t].pc + 1},
         LibInv(p, s), MutexInv(p, s), Moves(s, r, t, pc, where), r.lock = s.lock,
         s.threads[t].at \notin {"waiting", "waking"}, where \notin {"waiting", "waking"},
         pc # s.threads[t].pc => Instr(p, s, t).op \notin {"lock", "unlock"}
  PROVE  MutexInv(p, r)
PROOF
<1> DEFINE body == p[s.threads[t].body]
<1>1. s.threads[t].body \in DOMAIN p /\ s.threads[t].pc \in Nat \ {0}
  BY DEF LibInv, ThreadsInv
<1>2. \A m \in Mutex : Balance(body, pc, m) = Balance(body, s.threads[t].pc, m)
  <2>1. CASE pc = s.threads[t].pc
    BY <2>1
  <2>2. CASE pc # s.threads[t].pc
    <3>1. \A m : Gain(Instr(p, s, t), m) = 0
      BY <2>2 DEF Gain
    <3>2. pc = s.threads[t].pc + 1
      BY <2>2
    <3>3. \A m : /\ Balance(body, s.threads[t].pc, m) \in Int
                 /\ Balance(body, s.threads[t].pc + 1, m)
                      = Balance(body, s.threads[t].pc, m) + Gain(Instr(p, s, t), m)
      BY <1>1, BalanceStep
    <3> HIDE DEF body
    <3> QED BY <3>1, <3>2, <3>3
  <2> QED BY <2>1, <2>2
<1>3. \A m : /\ Holds(p, s, t, m) <=> Balance(body, s.threads[t].pc, m) > 0
             /\ Holds(p, r, t, m) <=> Balance(body, pc, m) > 0
  BY DEF Holds, InWait, Moves
<1> HIDE DEF body
<1>4. \A m \in Mutex : Holds(p, r, t, m) <=> Holds(p, s, t, m)
  BY <1>2, <1>3
<1>5. \A m \in Mutex : Balance(body, pc, m) \in {0, 1} /\ (Holds(p, s, t, m) => s.lock[m] = 1)
  BY <1>2 DEF MutexInv, body
<1>6. \A m \in Mutex :
        /\ Balance(p[s.threads[t].body], pc, m) \in {0, 1}
        /\ Holds(p, r, t, m) => r.lock[m] = 1 /\ (Holds(p, s, t, m) \/ s.lock[m] = 0)
        /\ r.lock[m] \in {1, s.lock[m]} \/ Holds(p, s, t, m)
  BY <1>4, <1>5 DEF body
<1> QED BY <1>6, MoveMutex, Zenon

(* Counting a thread as blocked.                                           *)
LEMMA CountBlockedChanges ==
  ASSUME NEW s, DOMAIN s = Fields, NEW assertion
  PROVE  LET r == CountBlocked(s, assertion)
         IN  /\ DOMAIN r = Fields
             /\ r.threads = s.threads
             /\ r.lock = s.lock /\ r.cond_lock = s.cond_lock
             /\ r.predicate = s.predicate /\ r.thread_ended = s.thread_ended
             /\ r.num_threads_running = s.num_threads_running
             /\ r.blocked_threads_count = s.blocked_threads_count + 1
             /\ r.report \in {assertion, s.report}
BY DEF CountBlocked, Fields

(* A thread that starts to wait keeps the counts exact.                    *)
LEMMA BlockKeeps ==
  ASSUME NEW p \in Programs, NEW s, NEW t \in Thread(s), NEW assertion \in Reports,
         LibInv(p, s), s.threads[t].at = "running"
  PROVE  LET r == Block(s, t, assertion)
         IN  /\ LibInv(p, r)
             /\ r.report \in {assertion, s.report}
             /\ MutexInv(p, s) => MutexInv(p, r)
PROOF
<1> DEFINE c == CountBlocked(s, assertion)
           r == At(c, t, "blocked")
           pc == s.threads[t].pc
<1>1. /\ DOMAIN s = Fields /\ DOMAIN s.threads[t] = {"body", "pc", "at"}
      /\ pc \in Nat \ {0}
  BY DEF LibInv, GlobalsInv, ThreadsInv
<1>2. /\ DOMAIN c = Fields
      /\ c.threads = s.threads
      /\ c.lock = s.lock /\ c.cond_lock = s.cond_lock
      /\ c.predicate = s.predicate /\ c.thread_ended = s.thread_ended
      /\ c.num_threads_running = s.num_threads_running
      /\ c.blocked_threads_count = s.blocked_threads_count + 1
      /\ c.report \in {assertion, s.report}
  BY <1>1, CountBlockedChanges
<1> HIDE DEF c
<1>3. t \in Thread(c) /\ DOMAIN c.threads[t] = {"body", "pc", "at"} /\ c.threads[t].pc = pc
  BY <1>1, <1>2 DEF Thread
<1>4. DOMAIN r = Fields /\ Moves(c, r, t, pc, "blocked") /\ SameGlobals(c, r)
  BY <1>2, <1>3, AtMoves
<1> HIDE DEF r
<1>5. Moves(s, r, t, pc, "blocked")
  BY <1>2, <1>4, MovesAfterGlobals
<1>6. /\ r.lock = s.lock /\ r.report \in {assertion, s.report}
      /\ r.num_threads_running = s.num_threads_running
      /\ r.blocked_threads_count = s.blocked_threads_count + 1
  BY <1>2, <1>4 DEF SameGlobals
<1>7. GlobalsInv(r)
  BY <1>2, <1>4, <1>5 DEF SameGlobals, LibInv, GlobalsInv, Moves
<1>8. s.num_threads_running \in Int /\ s.blocked_threads_count \in Int
  <2>1. ThreadsInv(p, s)
    BY DEF LibInv
  <2>2. Cardinality(Live(s)) \in Nat /\ Cardinality(Idle(s)) \in Nat
    BY <1>5, <2>1, MoveCounts
  <2> QED BY <2>2 DEF LibInv, CountInv
<1> HIDE DEF pc
<1>9. LibInv(p, r)
  <2>1. /\ r.num_threads_running = s.num_threads_running - (IF "blocked" = "ended" THEN 1 ELSE 0)
        /\ r.blocked_threads_count =
             s.blocked_threads_count
             + (IF "blocked" \in {"blocked", "waiting"} THEN 1 ELSE 0)
             - (IF s.threads[t].at \in {"blocked", "waiting"} THEN 1 ELSE 0)
    BY <1>6, <1>8
  <2>2. "blocked" \in Places
    BY DEF Places
  <2> QED BY <1>1, <1>5, <1>7, <2>1, <2>2, MoveKeepsLib
<1>10. MutexInv(p, s) => MutexInv(p, r)
  BY <1>5, <1>6, MoveKeepsMutex DEF pc
<1> QED BY <1>6, <1>9, <1>10 DEF Block, r, c

(* A running thread goes on to its next call; globals the counters do not  *)
(* depend on may have changed before, in s1.                               *)
LEMMA AdvanceKeepsLib ==
  ASSUME NEW p, NEW s, NEW s1, NEW t \in Thread(s),
         LibInv(p, s), s.threads[t].at = "running",
         s1.threads = s.threads, GlobalsInv(s1),
         s1.num_threads_running = s.num_threads_running,
         s1.blocked_threads_count = s.blocked_threads_count
  PROVE  LET r == Advance(s1, t)
         IN  /\ LibInv(p, r)
             /\ Moves(s, r, t, s.threads[t].pc + 1, "running")
             /\ SameGlobals(s1, r)
PROOF
<1> DEFINE r == Advance(s1, t)
           pc == s.threads[t].pc
<1>1. /\ DOMAIN s.threads[t] = {"body", "pc", "at"} /\ pc \in Nat \ {0}
      /\ DOMAIN s1 = Fields
  BY DEF LibInv, GlobalsInv, ThreadsInv
<1>2. /\ t \in Thread(s1) /\ DOMAIN s1.threads[t] = {"body", "pc", "at"}
      /\ s1.threads[t].pc = pc /\ s1.threads[t].at = "running"
  BY <1>1 DEF Thread
<1>3. DOMAIN r = Fields /\ Moves(s1, r, t, pc + 1, "running") /\ SameGlobals(s1, r)
  <2>1. /\ DOMAIN r = Fields
        /\ Moves(s1, r, t, s1.threads[t].pc + 1, s1.threads[t].at)
        /\ SameGlobals(s1, r)
    BY <1>1, <1>2, AdvanceMoves
  <2> HIDE DEF r, pc
  <2> QED BY <1>2, <2>1
<1> HIDE DEF r
<1>4. Moves(s, r, t, pc + 1, "running")
  BY <1>3, MovesAfterGlobals
<1>5. GlobalsInv(r)
  <2>1. Thread(r) = Thread(s1)
    BY <1>3 DEF Moves
  <2> QED BY <1>3, <2>1 DEF SameGlobals, GlobalsInv
<1>6. Cardinality(Live(s)) \in Nat /\ Cardinality(Idle(s)) \in Nat
  <2>1. ThreadsInv(p, s)
    BY DEF LibInv
  <2> QED BY <1>4, <2>1, MoveCounts
<1>7. /\ r.num_threads_running = s.num_threads_running - (IF "running" = "ended" THEN 1 ELSE 0)
      /\ r.blocked_threads_count =
           s.blocked_threads_count
           + (IF "running" \in {"blocked", "waiting"} THEN 1 ELSE 0)
           - (IF s.threads[t].at \in {"blocked", "waiting"} THEN 1 ELSE 0)
  <2>1. /\ r.num_threads_running = s.num_threads_running
        /\ r.blocked_threads_count = s.blocked_threads_count
    BY <1>3 DEF SameGlobals
  <2>2. s.num_threads_running \in Int /\ s.blocked_threads_count \in Int
    BY <1>6 DEF LibInv, CountInv
  <2> QED BY <2>1, <2>2
<1>8. "running" \in Places /\ pc + 1 \in Nat \ {0}
  BY <1>1 DEF Places
<1> HIDE DEF pc
<1>9. LibInv(p, r)
  BY <1>4, <1>5, <1>7, <1>8, MoveKeepsLib
<1> QED BY <1>3, <1>4, <1>9 DEF r, pc

(* A thread changes its place at a call.                                   *)
LEMMA PlaceKeepsLib ==
  ASSUME NEW p, NEW s, NEW s1, NEW t \in Thread(s), NEW where \in Places,
         LibInv(p, s), s.threads[t].at # "ended",
         s1.threads = s.threads, GlobalsInv(s1),
         where \in {"waiting", "waking"} => Instr(p, s, t).op = "await",
         s1.num_threads_running = s.num_threads_running - (IF where = "ended" THEN 1 ELSE 0),
         s1.blocked_threads_count =
           s.blocked_threads_count
           + (IF where \in {"blocked", "waiting"} THEN 1 ELSE 0)
           - (IF s.threads[t].at \in {"blocked", "waiting"} THEN 1 ELSE 0)
  PROVE  LET r == At(s1, t, where)
         IN  /\ LibInv(p, r)
             /\ Moves(s, r, t, s.threads[t].pc, where)
             /\ Instr(p, r, t) = Instr(p, s, t)
             /\ SameGlobals(s1, r)
PROOF
<1> DEFINE r == At(s1, t, where)
           pc == s.threads[t].pc
<1>1. /\ DOMAIN s.threads[t] = {"body", "pc", "at"} /\ pc \in Nat \ {0}
      /\ DOMAIN s1 = Fields
  BY DEF LibInv, GlobalsInv, ThreadsInv
<1>2. /\ t \in Thread(s1) /\ DOMAIN s1.threads[t] = {"body", "pc", "at"}
      /\ s1.threads[t].pc = pc
  BY <1>1 DEF Thread
<1>3. DOMAIN r = Fields /\ Moves(s1, r, t, pc, where) /\ SameGlobals(s1, r)
  BY <1>1, <1>2, AtMoves
<1> HIDE DEF r
<1>4. Moves(s, r, t, pc, where)
  BY <1>3, MovesAfterGlobals
<1>5. GlobalsInv(r)
  <2>1. Thread(r) = Thread(s1)
    BY <1>3 DEF Moves
  <2> QED BY <1>3, <2>1 DEF SameGlobals, GlobalsInv
<1>6. Instr(p, r, t) = Instr(p, s, t)
  BY <1>4 DEF Moves, Instr
<1>7. /\ r.num_threads_running = s1.num_threads_running
      /\ r.blocked_threads_count = s1.blocked_threads_count
  BY <1>3 DEF SameGlobals
<1> HIDE DEF pc
<1>8. LibInv(p, r)
  BY <1>1, <1>4, <1>5, <1>6, <1>7, MoveKeepsLib
<1> QED BY <1>3, <1>4, <1>6, <1>8 DEF r, pc

StepGoal(p, s, r) ==
  /\ LibInv(p, r)
  /\ OnlyOwnersRelease(p) /\ MutexInv(p, s) => MutexInv(p, r) /\ r.report \notin OwnershipReport

(* pthread_create.                                                         *)
LEMMA CreateKeeps ==
  ASSUME NEW p \in Programs, NEW s, NEW t \in Thread(s), LibInv(p, s),
         s.report = "none", s.threads[t].at = "running", Instr(p, s, t).op = "create",
         Instr(p, s, t).x \in DOMAIN p
  PROVE  StepGoal(p, s, pthread_create(s, t, Instr(p, s, t)))
PROOF
<1> DEFINE b == Instr(p, s, t).x
           s1 == Created(s, b)
           r == Advance(s1, t)
           n == Cardinality(Thread(s))
<1>0. b \in DOMAIN p /\ s1 = Created(s, b)
  OBVIOUS
<1> HIDE DEF b, s1, n, r
<1>1. /\ LibInv(p, s1)
      /\ Thread(s1) = Thread(s) \cup {n} /\ n \notin Thread(s)
      /\ \A u \in Thread(s) : s1.threads[u] = s.threads[u]
      /\ s1.threads[n] = NewThread(b)
      /\ s1.lock = s.lock /\ s1.report = s.report
  BY <1>0, SpawnKeepsLib DEF n
<1>2. t \in Thread(s1) /\ s1.threads[t] = s.threads[t] /\ s1.threads[t].at = "running"
  BY <1>1
<1>3. GlobalsInv(s1)
  BY <1>1 DEF LibInv
<1>4. LibInv(p, r) /\ Moves(s1, r, t, s1.threads[t].pc + 1, "running") /\ SameGlobals(s1, r)
  BY <1>1, <1>2, <1>3, AdvanceKeepsLib DEF r
<1>5. ASSUME MutexInv(p, s) PROVE MutexInv(p, r)
  <2>1. ASSUME NEW m, NEW u \in Thread(s1)
        PROVE  IF u = n THEN Balance(p[s1.threads[u].body], s1.threads[u].pc, m) = 0
               ELSE /\ Balance(p[s1.threads[u].body], s1.threads[u].pc, m)
                         = Balance(p[s.threads[u].body], s.threads[u].pc, m)
                    /\ Holds(p, s1, u, m) <=> Holds(p, s, u, m)
    <3>1. CASE u = n
      <4>1. s1.threads[u].pc = 1
        BY <1>1, <3>1 DEF NewThread
      <4>2. \A op : Calls(p[s1.threads[u].body], 1, op, m) = {}
        BY DEF Calls
      <4>3. Cardinality({}) = 0
        BY FS_EmptySet
      <4>4. Balance(p[s1.threads[u].body], s1.threads[u].pc, m) = 0 - 0
        BY <4>1, <4>2, <4>3 DEF Balance
      <4> QED BY <3>1, <4>4
    <3>2. CASE u # n
      <4>1. s1.threads[u] = s.threads[u]
        BY <1>1, <3>2
      <4> QED BY <3>2, <4>1 DEF Holds, InWait, Instr
    <3> QED BY <3>1, <3>2
  <2>2. \A m : ~Holds(p, s1, n, m)
    <3>1. n \in Thread(s1)
      BY <1>1
    <3>2. \A m : Balance(p[s1.threads[n].body], s1.threads[n].pc, m) = 0
      BY <2>1, <3>1
    <3> QED BY <3>2 DEF Holds
  <2>3. MutexInv(p, s1)
    <3> SUFFICES ASSUME NEW m \in Mutex
                 PROVE  /\ \A u \in Thread(s1) :
                             Balance(p[s1.threads[u].body], s1.threads[u].pc, m) \in {0, 1}
                        /\ \A u \in Thread(s1) : Holds(p, s1, u, m) => s1.lock[m] = 1
                        /\ \A u, v \in Thread(s1) :
                             Holds(p, s1, u, m) /\ Holds(p, s1, v, m) => u = v
      BY DEF MutexInv
    <3>1. /\ \A u \in Thread(s) :
               Balance(p[s.threads[u].body], s.threads[u].pc, m) \in {0, 1}
          /\ \A u \in Thread(s) : Holds(p, s, u, m) => s.lock[m] = 1
          /\ \A u, v \in Thread(s) :
               Holds(p, s, u, m) /\ Holds(p, s, v, m) => u = v
      BY <1>5 DEF MutexInv
    <3>2. ASSUME NEW u \in Thread(s1)
          PROVE  Balance(p[s1.threads[u].body], s1.threads[u].pc, m) \in {0, 1}
      <4>1. CASE u = n
        BY <2>1, <4>1
      <4>2. CASE u # n
        <5>1. u \in Thread(s)
          BY <1>1, <4>2
        <5> QED BY <2>1, <3>1, <4>2, <5>1
      <4> QED BY <4>1, <4>2
    <3>3. \A u \in Thread(s1) : Holds(p, s1, u, m) => u \in Thread(s) /\ Holds(p, s, u, m)
      BY <1>1, <2>1, <2>2
    <3> QED BY <1>1, <3>1, <3>2, <3>3
  <2>4. Instr(p, s1, t).op = "create"
    BY <1>2 DEF Instr
  <2> QED BY <1>1, <1>2, <1>4, <2>3, <2>4, MoveKeepsMutex DEF SameGlobals
<1>6. r.report \notin OwnershipReport
  BY <1>1, <1>4 DEF SameGlobals, OwnershipReport
<1> QED BY <1>4, <1>5, <1>6 DEF StepGoal, pthread_create, Created, r, s1, b

(* What holds of the thread a step is of.                                  *)
LEMMA AtACall ==
  ASSUME NEW p \in Programs, NEW s, NEW t \in Thread(s), LibInv(p, s)
  PROVE  LET i == Instr(p, s, t)
             body == p[s.threads[t].body]
             pc == s.threads[t].pc
         IN  /\ DOMAIN s = Fields /\ DOMAIN s.threads[t] = {"body", "pc", "at"}
             /\ s.threads[t].body \in DOMAIN p /\ pc \in Nat \ {0}
             /\ WellFormed(p, i)
             /\ \A m \in Mutex :
                  /\ Balance(body, pc, m) \in Int
                  /\ Balance(body, pc + 1, m) = Balance(body, pc, m) + Gain(i, m)
             /\ s.num_threads_running \in Int /\ s.blocked_threads_count \in Int
             /\ OnlyOwnersRelease(p) =>
                  /\ i.op = "unlock" => Balance(body, pc, i.x) > 0
                  /\ i.op = "await" => Balance(body, pc, i.m) > 0
PROOF
<1> DEFINE i == Instr(p, s, t)
           body == p[s.threads[t].body]
           pc == s.threads[t].pc
<1>1. /\ DOMAIN s = Fields /\ DOMAIN s.threads[t] = {"body", "pc", "at"}
      /\ s.threads[t].body \in DOMAIN p /\ pc \in Nat \ {0}
  BY DEF LibInv, GlobalsInv, ThreadsInv
<1>2. \A m \in Mutex :
        /\ Balance(body, pc, m) \in Int
        /\ Balance(body, pc + 1, m) = Balance(body, pc, m) + Gain(i, m)
  BY <1>1, BalanceStep
<1>3. s.num_threads_running \in Int /\ s.blocked_threads_count \in Int
  <2>1. ThreadsInv(p, s)
    BY DEF LibInv
  <2>2. Moves(s, s, t, pc, s.threads[t].at)
    BY <1>1 DEF Moves
  <2>3. Cardinality(Live(s)) \in Nat /\ Cardinality(Idle(s)) \in Nat
    BY <2>1, <2>2, MoveCounts
  <2> QED BY <2>3 DEF LibInv, CountInv
<1>4. CASE pc <= Len(body)
  <2>1. i = p[s.threads[t].body][pc] /\ Len(body) \in Nat /\ pc \in 1 .. Len(body)
    BY <1>1, <1>4, ProgramAssumption DEF Instr
  <2>2. WellFormed(p, i)
    BY <1>1, <2>1, ProgramAssumption
  <2>3. OnlyOwnersRelease(p) =>
          /\ i.op = "unlock" => Balance(body, pc, i.x) > 0
          /\ i.op = "await" => Balance(body, pc, i.m) > 0
    BY <1>1, <2>1 DEF OnlyOwnersRelease
  <2> QED BY <1>1, <1>2, <1>3, <2>2, <2>3
<1>5. CASE ~(pc <= Len(body))
  <2>1. i.op = "return"
    BY <1>5 DEF Instr
  <2>2. WellFormed(p, i)
    BY <2>1 DEF WellFormed
  <2> QED BY <1>1, <1>2, <1>3, <2>1, <2>2
<1> QED BY <1>4, <1>5

(* pthread_mutex_lock.                                                     *)
LEMMA LockKeeps ==
  ASSUME NEW p \in Programs, NEW s, NEW t \in Thread(s), LibInv(p, s),
         s.report = "none", s.threads[t].at = "running", Instr(p, s, t).op = "lock"
  PROVE  StepGoal(p, s, pthread_mutex_lock_check(s, t, Instr(p, s, t)))
PROOF
<1> DEFINE i == Instr(p, s, t)
           body == p[s.threads[t].body]
           pc == s.threads[t].pc
<1>1. i.x \in Mutex /\ DOMAIN s = Fields
  BY AtACall DEF WellFormed
<1>2. CASE s.lock[i.x] = 0
  <2> DEFINE s1 == [s EXCEPT !.lock[i.x] = 1]
             r == Advance(s1, t)
  <2>1. /\ DOMAIN s1 = Fields /\ s1.threads = s.threads
        /\ s1.lock = [s.lock EXCEPT ![i.x] = 1]
        /\ s1.cond_lock = s.cond_lock /\ s1.predicate = s.predicate
        /\ s1.thread_ended = s.thread_ended /\ s1.report = s.report
        /\ s1.num_threads_running = s.num_threads_running
        /\ s1.blocked_threads_count = s.blocked_threads_count
    BY <1>1 DEF Fields
  <2> HIDE DEF s1
  <2>2. s1.lock \in [Mutex -> {0, 1}] /\ s1.lock[i.x] = 1
        /\ \A m \in Mutex : m # i.x => s1.lock[m] = s.lock[m]
    BY <1>1, <2>1 DEF LibInv, GlobalsInv
  <2>3. GlobalsInv(s1)
    BY <2>1, <2>2 DEF LibInv, GlobalsInv, Thread
  <2>4. LibInv(p, r) /\ Moves(s, r, t, pc + 1, "running") /\ SameGlobals(s1, r)
    BY <2>1, <2>3, AdvanceKeepsLib
  <2> HIDE DEF r
  <2>5. ASSUME MutexInv(p, s) PROVE MutexInv(p, r)
    <3>1. ASSUME NEW m \in Mutex
          PROVE  /\ Balance(body, pc + 1, m) \in {0, 1}
                 /\ Holds(p, r, t, m) => r.lock[m] = 1 /\ (Holds(p, s, t, m) \/ s.lock[m] = 0)
                 /\ r.lock[m] \in {1, s.lock[m]} \/ Holds(p, s, t, m)
      <4>1. /\ Balance(body, pc, m) \in {0, 1}
            /\ Balance(body, pc + 1, m) = Balance(body, pc, m) + Gain(i, m)
            /\ Holds(p, s, t, m) => s.lock[m] = 1
        BY <2>5, AtACall DEF MutexInv
      <4>2. /\ Holds(p, s, t, m) <=> Balance(body, pc, m) > 0
            /\ Holds(p, r, t, m) <=> Balance(body, pc + 1, m) > 0
        BY <2>4 DEF Holds, InWait, Moves
      <4>3. Gain(i, m) = IF m = i.x THEN 1 ELSE 0
        BY DEF Gain
      <4>4. r.lock = s1.lock
        BY <2>4 DEF SameGlobals
      <4> HIDE DEF body, pc, i
      <4>5. CASE m = i.x
        BY <1>2, <2>2, <4>1, <4>2, <4>3, <4>4, <4>5
      <4>6. CASE m # i.x
        BY <2>2, <4>1, <4>2, <4>3, <4>4, <4>6
      <4> QED BY <4>5, <4>6
    <3> QED BY <2>4, <2>5, <3>1, MoveMutex, Zenon
  <2>6. r.report \notin OwnershipReport
    BY <2>1, <2>4 DEF SameGlobals, OwnershipReport
  <2> QED BY <1>2, <2>4, <2>5, <2>6 DEF StepGoal, pthread_mutex_lock_check, r, s1
<1>3. CASE s.lock[i.x] # 0
  <2>1. pthread_mutex_lock_check(s, t, i) = Block(s, t, "mutex_lock")
    BY <1>3 DEF pthread_mutex_lock_check
  <2>2. "mutex_lock" \in Reports
    BY DEF Reports
  <2> DEFINE r == Block(s, t, "mutex_lock")
  <2>3. LibInv(p, r) /\ r.report \in {"mutex_lock", s.report} /\ (MutexInv(p, s) => MutexInv(p, r))
    BY <2>2, BlockKeeps
  <2> HIDE DEF r
  <2>4. StepGoal(p, s, r)
    BY <2>3 DEF StepGoal, OwnershipReport
  <2> QED BY <2>1, <2>4 DEF r
<1> QED BY <1>2, <1>3

(* pthread_mutex_unlock.                                                   *)
LEMMA UnlockKeeps ==
  ASSUME NEW p \in Programs, NEW s, NEW t \in Thread(s), LibInv(p, s),
         s.report = "none", s.threads[t].at = "running", Instr(p, s, t).op = "unlock"
  PROVE  StepGoal(p, s, pthread_mutex_unlock_check(s, t, Instr(p, s, t)))
PROOF
<1> DEFINE i == Instr(p, s, t)
           body == p[s.threads[t].body]
           pc == s.threads[t].pc
           a == Advance(s, t)
           r == pthread_mutex_unlock_check(s, t, i)
<1>1. i.x \in Mutex /\ DOMAIN s = Fields
  BY AtACall DEF WellFormed
<1>2. LibInv(p, a) /\ Moves(s, a, t, pc + 1, "running") /\ SameGlobals(s, a)
  <2>1. GlobalsInv(s)
    BY DEF LibInv
  <2> QED BY <2>1, AdvanceKeepsLib
<1>3. r = [a EXCEPT !.lock[i.x] = 0, !.report = IF s.lock[i.x] = 0 THEN "unlock" ELSE @]
  BY DEF pthread_mutex_unlock_check
<1> HIDE DEF a, r
<1>4. /\ DOMAIN r = Fields /\ r.threads = a.threads
      /\ r.lock = [s.lock EXCEPT ![i.x] = 0]
      /\ r.cond_lock = s.cond_lock /\ r.predicate = s.predicate
      /\ r.thread_ended = s.thread_ended
      /\ r.report = IF s.lock[i.x] = 0 THEN "unlock" ELSE s.report
      /\ r.num_threads_running = s.num_threads_running
      /\ r.blocked_threads_count = s.blocked_threads_count
  <2>1. DOMAIN a = Fields
    BY <1>2 DEF LibInv, GlobalsInv
  <2> QED BY <1>2, <1>3, <2>1 DEF Fields, SameGlobals
<1>5. Moves(s, r, t, pc + 1, "running")
  BY <1>2, <1>4 DEF Moves, Thread
<1>6. r.lock \in [Mutex -> {0, 1}] /\ r.lock[i.x] = 0
      /\ \A m \in Mutex : m # i.x => r.lock[m] = s.lock[m]
  BY <1>1, <1>4 DEF LibInv, GlobalsInv
<1>7. LibInv(p, r)
  <2>1. ThreadsInv(p, r)
    <3>1. Thread(r) = Thread(a) /\ \A u : Instr(p, r, u) = Instr(p, a, u)
      BY <1>4 DEF Thread, Instr
    <3> QED BY <1>2, <1>4, <3>1 DEF LibInv, ThreadsInv
  <2>2. CountInv(r)
    <3>1. Live(r) = Live(a) /\ Idle(r) = Idle(a)
      BY <1>4 DEF Live, Idle, Thread
    <3> QED BY <1>2, <1>4, <3>1 DEF LibInv, CountInv, SameGlobals
  <2>3. GlobalsInv(r)
    <3>1. Thread(r) = Thread(s)
      BY <1>5 DEF Moves
    <3>2. r.report \in Reports
      BY <1>4 DEF LibInv, GlobalsInv, Reports
    <3> QED BY <1>4, <1>6, <3>1, <3>2 DEF LibInv, GlobalsInv
  <2> QED BY <2>1, <2>2, <2>3 DEF LibInv
<1>8. ASSUME OnlyOwnersRelease(p), MutexInv(p, s)
      PROVE  MutexInv(p, r) /\ r.report \notin OwnershipReport
  <2>1. Balance(body, pc, i.x) > 0
    BY <1>8, AtACall
  <2>2. \A m \in Mutex :
          /\ Holds(p, s, t, m) <=> Balance(body, pc, m) > 0
          /\ Holds(p, r, t, m) <=> Balance(body, pc + 1, m) > 0
    BY <1>5 DEF Holds, InWait, Moves
  <2>3. ASSUME NEW m \in Mutex
        PROVE  /\ Balance(body, pc + 1, m) \in {0, 1}
               /\ Holds(p, r, t, m) => r.lock[m] = 1 /\ (Holds(p, s, t, m) \/ s.lock[m] = 0)
               /\ r.lock[m] \in {1, s.lock[m]} \/ Holds(p, s, t, m)
    <3>1. /\ Balance(body, pc, m) \in {0, 1}
          /\ Balance(body, pc + 1, m) = Balance(body, pc, m) + Gain(i, m)
          /\ Holds(p, s, t, m) => s.lock[m] = 1
      BY <1>8, AtACall DEF MutexInv
    <3>2. Gain(i, m) = IF m = i.x THEN -1 ELSE 0
      BY DEF Gain
    <3> HIDE DEF body, pc, i
    <3>3. CASE m = i.x
      BY <1>6, <2>1, <2>2, <3>1, <3>2, <3>3
    <3>4. CASE m # i.x
      BY <1>6, <2>2, <3>1, <3>2, <3>4
    <3> QED BY <3>3, <3>4
  <2>4. MutexInv(p, r)
    BY <1>5, <1>8, <2>3, MoveMutex, Zenon
  <2>5. s.lock[i.x] = 1
    BY <1>1, <1>8, <2>1, <2>2 DEF MutexInv
  <2> QED BY <1>4, <2>4, <2>5 DEF OwnershipReport
<1> QED BY <1>7, <1>8 DEF StepGoal, r

(* join when the thread has ended, signal, set, and a true predicate.      *)
LEMMA AdvanceKeeps ==
  ASSUME NEW p \in Programs, NEW s, NEW s1, NEW t \in Thread(s), LibInv(p, s),
         s.report = "none", s.threads[t].at = "running",
         Instr(p, s, t).op \notin {"lock", "unlock"},
         GlobalsInv(s1), s1.threads = s.threads, s1.lock = s.lock, s1.report = s.report,
         s1.num_threads_running = s.num_threads_running,
         s1.blocked_threads_count = s.blocked_threads_count
  PROVE  StepGoal(p, s, Advance(s1, t))
PROOF
<1> DEFINE r == Advance(s1, t)
<1>1. /\ LibInv(p, r)
      /\ Moves(s, r, t, s.threads[t].pc + 1, "running")
      /\ SameGlobals(s1, r)
  BY AdvanceKeepsLib
<1> HIDE DEF r
<1>2. r.lock = s.lock /\ r.report = "none"
  BY <1>1 DEF SameGlobals
<1>3. MutexInv(p, s) => MutexInv(p, r)
  BY <1>1, <1>2, MoveKeepsMutex
<1> QED BY <1>1, <1>2, <1>3 DEF StepGoal, r, OwnershipReport

(* pthread_join.                                                           *)
LEMMA JoinKeeps ==
  ASSUME NEW p \in Programs, NEW s, NEW t \in Thread(s), LibInv(p, s),
         s.report = "none", s.threads[t].at = "running", Instr(p, s, t).op = "join"
  PROVE  StepGoal(p, s, pthread_join_switch(s, t, Instr(p, s, t)))
PROOF
<1> DEFINE i == Instr(p, s, t)
<1>1. CASE i.x \in s.thread_ended
  <2>1. GlobalsInv(s)
    BY DEF LibInv
  <2>2. StepGoal(p, s, Advance(s, t))
    BY <2>1, AdvanceKeeps
  <2> QED BY <1>1, <2>2 DEF pthread_join_switch
<1>2. CASE i.x \notin s.thread_ended
  <2>1. pthread_join_switch(s, t, i) = Block(s, t, "join")
    BY <1>2 DEF pthread_join_switch
  <2>2. "join" \in Reports
    BY DEF Reports
  <2> DEFINE r == Block(s, t, "join")
  <2>3. LibInv(p, r) /\ r.report \in {"join", s.report} /\ (MutexInv(p, s) => MutexInv(p, r))
    BY <2>2, BlockKeeps
  <2> HIDE DEF r
  <2>4. StepGoal(p, s, r)
    BY <2>3 DEF StepGoal, OwnershipReport
  <2> QED BY <2>1, <2>4 DEF r
<1> QED BY <1>1, <1>2

(* pthread_cond_signal.                                                    *)
LEMMA SignalKeeps ==
  ASSUME NEW p \in Programs, NEW s, NEW t \in Thread(s), LibInv(p, s),
         s.report = "none", s.threads[t].at = "running", Instr(p, s, t).op = "signal"
  PROVE  StepGoal(p, s, pthread_cond_signal(s, t, Instr(p, s, t)))
PROOF
<1> DEFINE i == Instr(p, s, t)
           s1 == [s EXCEPT !.cond_lock[i.x] = 0]
<1>1. i.x \in Cond /\ DOMAIN s = Fields
  BY AtACall DEF WellFormed
<1>2. /\ DOMAIN s1 = Fields /\ s1.threads = s.threads /\ s1.lock = s.lock
      /\ s1.cond_lock = [s.cond_lock EXCEPT ![i.x] = 0]
      /\ s1.predicate = s.predicate /\ s1.thread_ended = s.thread_ended
      /\ s1.report = s.report
      /\ s1.num_threads_running = s.num_threads_running
      /\ s1.blocked_threads_count = s.blocked_threads_count
  BY <1>1 DEF Fields
<1> HIDE DEF s1
<1>3. GlobalsInv(s1)
  BY <1>1, <1>2 DEF LibInv, GlobalsInv, Thread
<1>4. StepGoal(p, s, Advance(s1, t))
  BY <1>2, <1>3, AdvanceKeeps
<1> QED BY <1>4 DEF pthread_cond_signal, s1

(* An assignment of the program.                                           *)
LEMMA SetKeeps ==
  ASSUME NEW p \in Programs, NEW s, NEW t \in Thread(s), LibInv(p, s),
         s.report = "none", s.threads[t].at = "running", Instr(p, s, t).op = "set"
  PROVE  StepGoal(p, s, Advance([s EXCEPT !.predicate = @ \cup {Instr(p, s, t).x}], t))
PROOF
<1> DEFINE i == Instr(p, s, t)
           s1 == [s EXCEPT !.predicate = @ \cup {i.x}]
<1>1. i.x \in Cond /\ DOMAIN s = Fields
  BY AtACall DEF WellFormed
<1>2. /\ DOMAIN s1 = Fields /\ s1.threads = s.threads /\ s1.lock = s.lock
      /\ s1.cond_lock = s.cond_lock
      /\ s1.predicate = s.predicate \cup {i.x} /\ s1.thread_ended = s.thread_ended
      /\ s1.report = s.report
      /\ s1.num_threads_running = s.num_threads_running
      /\ s1.blocked_threads_count = s.blocked_threads_count
  BY <1>1 DEF Fields
<1> HIDE DEF s1
<1>3. GlobalsInv(s1)
  BY <1>1, <1>2 DEF LibInv, GlobalsInv, Thread
<1>4. StepGoal(p, s, Advance(s1, t))
  BY <1>2, <1>3, AdvanceKeeps
<1> QED BY <1>4 DEF s1

(* A thread ends, and its locks stay as they are.                          *)
LEMMA EndKeeps ==
  ASSUME NEW p \in Programs, NEW s, NEW s1, NEW t \in Thread(s), LibInv(p, s),
         s.report = "none", s.threads[t].at = "running",
         GlobalsInv(s1), s1.threads = s.threads, s1.lock = s.lock, s1.report = s.report,
         s1.num_threads_running = s.num_threads_running - 1,
         s1.blocked_threads_count = s.blocked_threads_count
  PROVE  StepGoal(p, s, At(s1, t, "ended"))
PROOF
<1> DEFINE r == At(s1, t, "ended")
<1>1. s.num_threads_running \in Int /\ s.blocked_threads_count \in Int
  BY AtACall
<1>2. /\ s1.num_threads_running = s.num_threads_running - (IF "ended" = "ended" THEN 1 ELSE 0)
      /\ s1.blocked_threads_count =
           s.blocked_threads_count
           + (IF "ended" \in {"blocked", "waiting"} THEN 1 ELSE 0)
           - (IF s.threads[t].at \in {"blocked", "waiting"} THEN 1 ELSE 0)
  BY <1>1
<1>3. "ended" \in Places
  BY DEF Places
<1>4. /\ LibInv(p, r)
      /\ Moves(s, r, t, s.threads[t].pc, "ended")
      /\ SameGlobals(s1, r)
  BY <1>2, <1>3, PlaceKeepsLib
<1> HIDE DEF r
<1>5. r.lock = s.lock /\ r.report = "none"
  BY <1>4 DEF SameGlobals
<1>6. MutexInv(p, s) => MutexInv(p, r)
  <2> DEFINE pc == s.threads[t].pc
  <2>1. /\ pc \in {s.threads[t].pc, s.threads[t].pc + 1}
        /\ pc # s.threads[t].pc => Instr(p, s, t).op \notin {"lock", "unlock"}
        /\ "ended" \notin {"waiting", "waking"}
        /\ s.threads[t].at \notin {"waiting", "waking"}
        /\ Moves(s, r, t, pc, "ended")
    BY <1>4
  <2> HIDE DEF pc
  <2> QED BY <1>5, <2>1, MoveKeepsMutex
<1> QED BY <1>4, <1>5, <1>6 DEF StepGoal, r, OwnershipReport

(* The end of a thread.                                                    *)
LEMMA EndsKeep ==
  ASSUME NEW p \in Programs, NEW s, NEW t \in Thread(s), LibInv(p, s),
         s.report = "none", s.threads[t].at = "running"
  PROVE  StepGoal(p, s, EndThread(s, t)) /\ (t = 0 => StepGoal(p, s, EndMain(s)))
PROOF
<1>1. DOMAIN s = Fields
  BY AtACall
<1>2. StepGoal(p, s, EndThread(s, t))
  <2> DEFINE s1 == [s EXCEPT !.thread_ended = @ \cup {t}, !.num_threads_running = @ - 1]
  <2>1. /\ DOMAIN s1 = Fields /\ s1.threads = s.threads /\ s1.lock = s.lock
        /\ s1.cond_lock = s.cond_lock /\ s1.predicate = s.predicate
        /\ s1.thread_ended = s.thread_ended \cup {t}
        /\ s1.report = s.report
        /\ s1.num_threads_running = s.num_threads_running - 1
        /\ s1.blocked_threads_count = s.blocked_threads_count
    BY <1>1 DEF Fields
  <2> HIDE DEF s1
  <2>2. GlobalsInv(s1)
    BY <2>1 DEF LibInv, GlobalsInv, Thread
  <2>3. StepGoal(p, s, At(s1, t, "ended"))
    BY <2>1, <2>2, EndKeeps
  <2> QED BY <2>3 DEF EndThread, s1
<1>3. ASSUME t = 0 PROVE StepGoal(p, s, EndMain(s))
  <2> DEFINE s1 == [s EXCEPT !.num_threads_running = @ - 1]
  <2>1. /\ DOMAIN s1 = Fields /\ s1.threads = s.threads /\ s1.lock = s.lock
        /\ s1.cond_lock = s.cond_lock /\ s1.predicate = s.predicate
        /\ s1.thread_ended = s.thread_ended
        /\ s1.report = s.report
        /\ s1.num_threads_running = s.num_threads_running - 1
        /\ s1.blocked_threads_count = s.blocked_threads_count
    BY <1>1 DEF Fields
  <2> HIDE DEF s1
  <2>2. GlobalsInv(s1)
    BY <2>1 DEF LibInv, GlobalsInv, Thread
  <2>3. StepGoal(p, s, At(s1, t, "ended"))
    BY <2>1, <2>2, EndKeeps
  <2> QED BY <1>3, <2>3 DEF EndMain, s1
<1> QED BY <1>2, <1>3

-----------------------------------------------------------------------------
(* The wait for a condition gives its mutex up and takes it again.         *)

(* pthread_cond_wait gives the mutex back.                                 *)
LEMMA ReleaseKeeps ==
  ASSUME NEW p \in Programs, NEW s, NEW t \in Thread(s), LibInv(p, s),
         s.report = "none", s.threads[t].at = "running", Instr(p, s, t).op = "await"
  PROVE  StepGoal(p, s, CondRelease(s, t, Instr(p, s, t)))
PROOF
<1> DEFINE i == Instr(p, s, t)
           body == p[s.threads[t].body]
           pc == s.threads[t].pc
           s0 == [s EXCEPT !.lock[i.m] = 0, !.cond_lock[i.x] = 1]
           s2 == CountBlocked(s0, "cond_wait")
           s1 == [s2 EXCEPT !.report = IF s.lock[i.m] = 0 THEN "not_held" ELSE @]
           r == At(s1, t, "waiting")
<1>1. i.x \in Cond /\ i.m \in Mutex /\ DOMAIN s = Fields
  BY AtACall DEF WellFormed
<1>2. /\ DOMAIN s0 = Fields /\ s0.threads = s.threads
      /\ s0.lock = [s.lock EXCEPT ![i.m] = 0]
      /\ s0.cond_lock = [s.cond_lock EXCEPT ![i.x] = 1]
      /\ s0.predicate = s.predicate /\ s0.thread_ended = s.thread_ended
      /\ s0.report = s.report
      /\ s0.num_threads_running = s.num_threads_running
      /\ s0.blocked_threads_count = s.blocked_threads_count
  BY <1>1 DEF Fields
<1> HIDE DEF s0
<1>3. /\ DOMAIN s1 = Fields /\ s1.threads = s.threads
      /\ s1.lock = s0.lock /\ s1.cond_lock = s0.cond_lock
      /\ s1.predicate = s.predicate /\ s1.thread_ended = s.thread_ended
      /\ s1.num_threads_running = s.num_threads_running
      /\ s1.blocked_threads_count = s.blocked_threads_count + 1
      /\ s1.report \in {"cond_wait", "not_held", "none"}
      /\ s.lock[i.m] # 0 => s1.report # "not_held"
  <2>1. /\ DOMAIN s2 = Fields /\ s2.threads = s.threads
        /\ s2.lock = s0.lock /\ s2.cond_lock = s0.cond_lock
        /\ s2.predicate = s.predicate /\ s2.thread_ended = s.thread_ended
        /\ s2.num_threads_running = s.num_threads_running
        /\ s2.blocked_threads_count = s.blocked_threads_count + 1
        /\ s2.report \in {"cond_wait", "none"}
    BY <1>2, CountBlockedChanges
  <2> HIDE DEF s2
  <2> QED BY <2>1 DEF Fields
<1> HIDE DEF s1
<1>4. s1.lock \in [Mutex -> {0, 1}] /\ s1.lock[i.m] = 0
      /\ \A m \in Mutex : m # i.m => s1.lock[m] = s.lock[m]
  BY <1>1, <1>2, <1>3 DEF LibInv, GlobalsInv
<1>5. GlobalsInv(s1)
  <2>1. s1.cond_lock \in [Cond -> {0, 1}]
    BY <1>1, <1>2, <1>3 DEF LibInv, GlobalsInv
  <2>2. Thread(s1) = Thread(s) /\ s1.report \in Reports
    BY <1>3 DEF Thread, Reports
  <2> QED BY <1>3, <1>4, <2>1, <2>2 DEF LibInv, GlobalsInv
<1>6. /\ s1.num_threads_running = s.num_threads_running - (IF "waiting" = "ended" THEN 1 ELSE 0)
      /\ s1.blocked_threads_count =
           s.blocked_threads_count
           + (IF "waiting" \in {"blocked", "waiting"} THEN 1 ELSE 0)
           - (IF s.threads[t].at \in {"blocked", "waiting"} THEN 1 ELSE 0)
  <2>1. s.num_threads_running \in Int /\ s.blocked_threads_count \in Int
    BY AtACall
  <2> QED BY <1>3, <2>1
<1>7. "waiting" \in Places
  BY DEF Places
<1>8. /\ LibInv(p, r) /\ Moves(s, r, t, pc, "waiting")
      /\ Instr(p, r, t) = i /\ SameGlobals(s1, r)
  BY <1>3, <1>5, <1>6, <1>7, PlaceKeepsLib
<1> HIDE DEF r
<1>9. r.lock = s1.lock /\ r.report = s1.report
  BY <1>8 DEF SameGlobals
<1>10. ASSUME OnlyOwnersRelease(p), MutexInv(p, s) PROVE MutexInv(p, r) /\ r.report \notin OwnershipReport
  <2>1. Balance(body, pc, i.m) > 0
    BY <1>10, AtACall
  <2>2. \A m \in Mutex :
          /\ Holds(p, s, t, m) <=> Balance(body, pc, m) > 0
          /\ Holds(p, r, t, m) <=> Balance(body, pc, m) > 0 /\ m # i.m
    BY <1>8 DEF Holds, InWait, Moves
  <2>3. ASSUME NEW m \in Mutex
        PROVE  /\ Balance(body, pc, m) \in {0, 1}
               /\ Holds(p, r, t, m) => r.lock[m] = 1 /\ (Holds(p, s, t, m) \/ s.lock[m] = 0)
               /\ r.lock[m] \in {1, s.lock[m]} \/ Holds(p, s, t, m)
    <3>1. Balance(body, pc, m) \in {0, 1} /\ (Holds(p, s, t, m) => s.lock[m] = 1)
      BY <1>10 DEF MutexInv
    <3> HIDE DEF body, pc, i
    <3>2. CASE m = i.m
      BY <1>4, <1>9, <2>1, <2>2, <3>1, <3>2
    <3>3. CASE m # i.m
      BY <1>4, <1>9, <2>2, <3>1, <3>3
    <3> QED BY <3>2, <3>3
  <2>4. MutexInv(p, r)
    BY <1>8, <1>10, <2>3, MoveMutex, Zenon
  <2>5. s.lock[i.m] = 1
    BY <1>1, <1>10, <2>1, <2>2 DEF MutexInv
  <2>6. r.report \notin OwnershipReport
    BY <1>3, <1>9, <2>5 DEF OwnershipReport
  <2> QED BY <2>4, <2>6
<1> QED BY <1>8, <1>10 DEF StepGoal, CondRelease, r, s1, s2, s0

(* A thread that was signalled goes on.                                    *)
LEMMA WakeKeeps ==
  ASSUME NEW p \in Programs, NEW s, NEW t \in Thread(s), LibInv(p, s),
         s.report = "none", s.threads[t].at = "waiting"
  PROVE  StepGoal(p, s, CondWake(s, t))
PROOF
<1> DEFINE i == Instr(p, s, t)
           body == p[s.threads[t].body]
           pc == s.threads[t].pc
           s1 == [s EXCEPT !.blocked_threads_count = @ - 1]
           r == At(s1, t, "waking")
<1>1. /\ DOMAIN s = Fields /\ i.op = "await"
      /\ s.num_threads_running \in Int /\ s.blocked_threads_count \in Int
  <2>1. i.op = "await"
    BY DEF LibInv, ThreadsInv
  <2> QED BY <2>1, AtACall
<1>2. /\ DOMAIN s1 = Fields /\ s1.threads = s.threads /\ s1.lock = s.lock
      /\ s1.cond_lock = s.cond_lock
      /\ s1.predicate = s.predicate /\ s1.thread_ended = s.thread_ended
      /\ s1.report = s.report
      /\ s1.num_threads_running = s.num_threads_running
      /\ s1.blocked_threads_count = s.blocked_threads_count - 1
  BY <1>1 DEF Fields
<1> HIDE DEF s1
<1>3. GlobalsInv(s1)
  BY <1>2 DEF LibInv, GlobalsInv, Thread
<1>4. /\ s1.num_threads_running = s.num_threads_running - (IF "waking" = "ended" THEN 1 ELSE 0)
      /\ s1.blocked_threads_count =
           s.blocked_threads_count
           + (IF "waking" \in {"blocked", "waiting"} THEN 1 ELSE 0)
           - (IF s.threads[t].at \in {"blocked", "waiting"} THEN 1 ELSE 0)
  BY <1>1, <1>2
<1>5. "waking" \in Places
  BY DEF Places
<1>6. /\ LibInv(p, r) /\ Moves(s, r, t, pc, "waking")
      /\ Instr(p, r, t) = i /\ SameGlobals(s1, r)
  BY <1>1, <1>2, <1>3, <1>4, <1>5, PlaceKeepsLib
<1> HIDE DEF r
<1>7. r.lock = s.lock /\ r.report \notin OwnershipReport
  BY <1>2, <1>6 DEF SameGlobals, OwnershipReport
<1>8. ASSUME MutexInv(p, s) PROVE MutexInv(p, r)
  <2>1. \A m \in Mutex : Holds(p, r, t, m) <=> Holds(p, s, t, m)
    BY <1>6 DEF Holds, InWait, Moves
  <2>2. \A m \in Mutex :
          /\ Balance(body, pc, m) \in {0, 1}
          /\ Holds(p, r, t, m) => r.lock[m] = 1 /\ (Holds(p, s, t, m) \/ s.lock[m] = 0)
          /\ r.lock[m] \in {1, s.lock[m]} \/ Holds(p, s, t, m)
    BY <1>7, <1>8, <2>1 DEF MutexInv
  <2> QED BY <1>6, <1>8, <2>2, MoveMutex, Zenon
<1> QED BY <1>6, <1>7, <1>8 DEF StepGoal, CondWake, r, s1

(* pthread_cond_wait takes the mutex again.                                *)
LEMMA ReacquireKeeps ==
  ASSUME NEW p \in Programs, NEW s, NEW t \in Thread(s), LibInv(p, s),
         s.report = "none", s.threads[t].at = "waking", MayReacquire(s, Instr(p, s, t))
  PROVE  StepGoal(p, s, CondReacquire(s, t, Instr(p, s, t)))
PROOF
<1> DEFINE i == Instr(p, s, t)
           body == p[s.threads[t].body]
           pc == s.threads[t].pc
           s1 == [s EXCEPT !.lock[i.m] = 1]
           r == At(s1, t, "running")
<1>1. /\ DOMAIN s = Fields /\ i.m \in Mutex /\ s.lock[i.m] = 0
      /\ s.num_threads_running \in Int /\ s.blocked_threads_count \in Int
  <2>1. i.op = "await"
    BY DEF LibInv, ThreadsInv
  <2>2. WellFormed(p, i)
    BY AtACall
  <2>3. i.m \in Mutex
    BY <2>1, <2>2 DEF WellFormed
  <2> QED BY <2>3, AtACall DEF MayReacquire
<1>2. /\ DOMAIN s1 = Fields /\ s1.threads = s.threads
      /\ s1.lock = [s.lock EXCEPT ![i.m] = 1]
      /\ s1.cond_lock = s.cond_lock
      /\ s1.predicate = s.predicate /\ s1.thread_ended = s.thread_ended
      /\ s1.report = s.report
      /\ s1.num_threads_running = s.num_threads_running
      /\ s1.blocked_threads_count = s.blocked_threads_count
  BY <1>1 DEF Fields
<1> HIDE DEF s1
<1>3. s1.lock \in [Mutex -> {0, 1}] /\ s1.lock[i.m] = 1
      /\ \A m \in Mutex : m # i.m => s1.lock[m] = s.lock[m]
  BY <1>1, <1>2 DEF LibInv, GlobalsInv
<1>4. GlobalsInv(s1)
  BY <1>2, <1>3 DEF LibInv, GlobalsInv, Thread
<1>5. /\ s1.num_threads_running = s.num_threads_running - (IF "running" = "ended" THEN 1 ELSE 0)
      /\ s1.blocked_threads_count =
           s.blocked_threads_count
           + (IF "running" \in {"blocked", "waiting"} THEN 1 ELSE 0)
           - (IF s.threads[t].at \in {"blocked", "waiting"} THEN 1 ELSE 0)
  BY <1>1, <1>2
<1>6. "running" \in Places
  BY DEF Places
<1>7. /\ LibInv(p, r) /\ Moves(s, r, t, pc, "running")
      /\ Instr(p, r, t) = i /\ SameGlobals(s1, r)
  BY <1>2, <1>4, <1>5, <1>6, PlaceKeepsLib
<1> HIDE DEF r
<1>8. r.lock = s1.lock /\ r.report \notin OwnershipReport
  BY <1>2, <1>7 DEF SameGlobals, OwnershipReport
<1>9. ASSUME MutexInv(p, s) PROVE MutexInv(p, r)
  <2>1. \A m \in Mutex :
          /\ Holds(p, s, t, m) <=> Balance(body, pc, m) > 0 /\ m # i.m
          /\ Holds(p, r, t, m) <=> Balance(body, pc, m) > 0
    BY <1>7 DEF Holds, InWait, Moves
  <2>2. ASSUME NEW m \in Mutex
        PROVE  /\ Balance(body, pc, m) \in {0, 1}
               /\ Holds(p, r, t, m) => r.lock[m] = 1 /\ (Holds(p, s, t, m) \/ s.lock[m] = 0)
               /\ r.lock[m] \in {1, s.lock[m]} \/ Holds(p, s, t, m)
    <3>1. Balance(body, pc, m) \in {0, 1} /\ (Holds(p, s, t, m) => s.lock[m] = 1)
      BY <1>9 DEF MutexInv
    <3> HIDE DEF body, pc, i
    <3>2. CASE m = i.m
      BY <1>1, <1>3, <1>8, <2>1, <3>1, <3>2
    <3>3. CASE m # i.m
      BY <1>3, <1>8, <2>1, <3>1, <3>3
    <3> QED BY <3>2, <3>3
  <2> QED BY <1>7, <1>9, <2>2, MoveMutex, Zenon
<1> QED BY <1>7, <1>8, <1>9 DEF StepGoal, CondReacquire, r, s1

-----------------------------------------------------------------------------
(* Every step of every thread.                                             *)

(* Every call keeps the counts and the ownership of mutexes.               *)
LEMMA StepKeeps ==
  ASSUME NEW p \in Programs, NEW s, NEW t \in Thread(s), LibInv(p, s), May(p, s, t)
  PROVE  StepGoal(p, s, Step(p, s, t))
PROOF
<1> DEFINE i == Instr(p, s, t)
           where == s.threads[t].at
           calls(op) == where = "running" /\ i.op = op
<1>1. /\ s.report = "none"
      /\ where \in {"waiting", "waking", "running"}
      /\ where = "waking" => MayReacquire(s, i)
  BY DEF May
<1>2. CASE where = "waiting"
  BY <1>1, <1>2, WakeKeeps DEF Step
<1>3. CASE where = "waking"
  BY <1>1, <1>3, ReacquireKeeps DEF Step
<1>4. CASE calls("create")
  <2>1. i.x \in DOMAIN p
    BY <1>4, AtACall DEF WellFormed
  <2> QED BY <1>1, <1>4, <2>1, CreateKeeps DEF Step
<1>5. CASE calls("join")
  BY <1>1, <1>5, JoinKeeps DEF Step
<1>6. CASE calls("lock")
  BY <1>1, <1>6, LockKeeps DEF Step
<1>7. CASE calls("unlock")
  BY <1>1, <1>7, UnlockKeeps DEF Step
<1>8. CASE calls("signal")
  BY <1>1, <1>8, SignalKeeps DEF Step
<1>9. CASE calls("set")
  BY <1>1, <1>9, SetKeeps DEF Step
<1>10. CASE calls("await") /\ i.x \in s.predicate
  <2>1. GlobalsInv(s)
    BY DEF LibInv
  <2>2. StepGoal(p, s, Advance(s, t))
    BY <1>1, <1>10, <2>1, AdvanceKeeps
  <2> QED BY <1>10, <2>2 DEF Step
<1>11. CASE calls("await") /\ i.x \notin s.predicate
  BY <1>1, <1>11, ReleaseKeeps DEF Step
<1>12. CASE calls("return") /\ t = 0
  BY <1>1, <1>12, EndsKeep DEF Step
<1>13. CASE /\ where = "running" /\ ~(calls("return") /\ t = 0)
            /\ i.op \notin {"create", "join", "lock", "unlock", "signal", "set", "await"}
  <2>1. Step(p, s, t) = EndThread(s, t)
    BY <1>13 DEF Step
  <2> QED BY <1>1, <1>13, <2>1, EndsKeep
<1> QED
  BY <1>1, <1>2, <1>3, <1>4, <1>5, <1>6, <1>7, <1>8, <1>9, <1>10, <1>11, <1>12, <1>13

(* They hold before the first call.                                        *)
LEMMA InitialKeeps ==
  ASSUME NEW p \in Programs
  PROVE  LibInv(p, InitialLib) /\ MutexInv(p, InitialLib) /\ InitialLib.report = "none"
PROOF
<1> DEFINE s == InitialLib
<1>1. /\ DOMAIN s = Fields /\ s.threads = [t \in {0} |-> NewThread(1)]
      /\ s.lock = [m \in Mutex |-> 0] /\ s.cond_lock = [c \in Cond |-> 0]
      /\ s.predicate = {} /\ s.thread_ended = {}
      /\ s.num_threads_running = 1 /\ s.blocked_threads_count = 0
      /\ s.report = "none"
  BY DEF InitialLib, Fields
<1> HIDE DEF s
<1>2. Thread(s) = {0} /\ Cardinality({0}) = 1 /\ {0} = 0 .. 1 - 1
  <2>1. Cardinality({0}) = 1
    BY FS_Singleton
  <2> QED BY <1>1, <2>1 DEF Thread
<1>3. /\ s.threads[0].body = 1 /\ s.threads[0].pc = 1 /\ s.threads[0].at = "running"
      /\ DOMAIN s.threads[0] = {"body", "pc", "at"}
  BY <1>1 DEF NewThread
<1>4. ThreadsInv(p, s)
  BY <1>2, <1>3, ProgramAssumption DEF ThreadsInv, Places
<1>5. GlobalsInv(s)
  BY <1>1 DEF GlobalsInv, Reports
<1>6. CountInv(s)
  <2>1. Live(s) = {0} /\ Idle(s) = {}
    BY <1>2, <1>3 DEF Live, Idle
  <2> QED BY <1>1, <1>2, <2>1, FS_EmptySet DEF CountInv
<1>7. MutexInv(p, s)
  <2>1. \A m : Balance(p[s.threads[0].body], s.threads[0].pc, m) = 0
    <3>1. \A op, m : Calls(p[s.threads[0].body], 1, op, m) = {}
      BY DEF Calls
    <3>2. \A m : Balance(p[s.threads[0].body], s.threads[0].pc, m) = 0 - 0
      BY <1>3, <3>1, FS_EmptySet DEF Balance
    <3> QED BY <3>2
  <2>2. \A m : ~Holds(p, s, 0, m)
    BY <2>1 DEF Holds
  <2> QED BY <1>2, <2>1, <2>2 DEF MutexInv
<1> QED BY <1>1, <1>4, <1>5, <1>6, <1>7 DEF LibInv, s

(* The inductive invariant, of the library and of the holders of its       *)
(* mutexes (pthread_lib.c:120-611).                                        *)
THEOREM PthreadInvariant == Spec => [](PthreadInv /\ OwnershipInv)
PROOF
<1>1. Init => PthreadInv /\ OwnershipInv
  BY InitialKeeps DEF Init, PthreadInv, OwnershipInv, OwnershipReport
<1>2. PthreadInv /\ OwnershipInv /\ [Next]_vars => (PthreadInv /\ OwnershipInv)'
  <2> SUFFICES ASSUME PthreadInv, OwnershipInv, [Next]_vars
               PROVE  (PthreadInv /\ OwnershipInv)'
    OBVIOUS
  <2>1. ASSUME NEW t \in Thread(lib), ThreadStep(t)
        PROVE  (PthreadInv /\ OwnershipInv)'
    <3>1. StepGoal(program, lib, Step(program, lib, t))
      BY <2>1, StepKeeps DEF ThreadStep, PthreadInv
    <3>2. program' = program /\ StepGoal(program, lib, lib')
      BY <2>1, <3>1 DEF ThreadStep
    <3> QED BY <3>2 DEF StepGoal, PthreadInv, OwnershipInv
  <2>2. CASE UNCHANGED vars
    BY <2>2 DEF vars, PthreadInv, OwnershipInv
  <2> QED BY <2>1, <2>2 DEF Next
<1> QED BY <1>1, <1>2, PTL DEF Spec

(* The library's counters are exact in every interleaving: whatever a      *)
(* deadlock is decided from is true of the threads                         *)
(* (pthread_lib.c:52-53, 120-136, 174, 197, 219, 244, 369, 562, 601).      *)
THEOREM CountsExactTheorem == Spec => []CountsExact
PROOF
<1>1. PthreadInv => CountsExact
  BY DEF PthreadInv, LibInv, CountInv, CountsExact, Idle
<1> QED BY <1>1, PthreadInvariant, PTL

(* Threads, flags and counters stay in their ranges: no more threads are   *)
(* blocked than are running, and no more are running than there are.       *)
THEOREM PthreadTypeCorrect == Spec => []TypeOK
PROOF
<1>1. ASSUME PthreadInv PROVE TypeOK
  <2>1. ThreadsInv(program, lib) /\ GlobalsInv(lib) /\ CountInv(lib)
    BY <1>1 DEF PthreadInv, LibInv
  <2> DEFINE n == Cardinality(Thread(lib))
  <2>2. n \in Nat \ {0} /\ Thread(lib) = 0 .. n - 1
    BY <2>1 DEF ThreadsInv
  <2>3. IsFiniteSet(Thread(lib))
    <3>1. 0 \in Int /\ n - 1 \in Int
      BY <2>2
    <3> HIDE DEF n
    <3> QED BY <2>2, <3>1, FS_Interval
  <2>4. Live(lib) \subseteq Thread(lib) /\ Idle(lib) \subseteq Live(lib)
    BY DEF Live, Idle
  <2>5. IsFiniteSet(Live(lib)) /\ Cardinality(Live(lib)) <= n
    BY <2>3, <2>4, FS_Subset
  <2>6. IsFiniteSet(Idle(lib)) /\ Cardinality(Idle(lib)) <= Cardinality(Live(lib))
    BY <2>4, <2>5, FS_Subset
  <2>7. Cardinality(Live(lib)) \in Nat /\ Cardinality(Idle(lib)) \in Nat
    BY <2>5, <2>6, FS_CardinalityType
  <2>8. /\ lib.num_threads_running \in 0 .. n
        /\ lib.blocked_threads_count \in 0 .. lib.num_threads_running
    <3> HIDE DEF n
    <3> QED BY <2>1, <2>2, <2>5, <2>6, <2>7 DEF CountInv
  <2>9. \A t \in Thread(lib) :
          lib.threads[t].at \in {"running", "blocked", "waiting", "waking", "ended"}
    BY <2>1 DEF ThreadsInv, Places
  <2> QED BY <1>1, <2>1, <2>2, <2>8, <2>9 DEF PthreadInv, GlobalsInv, TypeOK
<1> QED BY <1>1, PthreadInvariant, PTL

(* However waits, wake-ups and locks interleave, a mutex has one holder,   *)
(* in every program whose threads release only what they hold.             *)
THEOREM MutualExclusionTheorem == Spec => [](OnlyOwnersRelease(program) => MutualExclusion)
PROOF
<1>1. ASSUME PthreadInv, OwnershipInv, OnlyOwnersRelease(program) PROVE MutualExclusion
  <2> SUFFICES ASSUME NEW m \in Mutex
               PROVE  Cardinality({t \in Thread(lib) : Holds(program, lib, t, m)}) <= 1
    BY DEF MutualExclusion
  <2> DEFINE H == {t \in Thread(lib) : Holds(program, lib, t, m)}
  <2>1. \A t, u \in H : t = u
    BY <1>1 DEF OwnershipInv, MutexInv
  <2>2. CASE H = {}
    BY <2>2, FS_EmptySet
  <2>3. CASE H # {}
    <3>1. PICK t \in H : H = {t}
      <4> HIDE DEF H
      <4> QED BY <2>1, <2>3
    <3>2. Cardinality({t}) = 1
      BY FS_Singleton
    <3> HIDE DEF H
    <3>3. Cardinality(H) <= 1
      BY <3>1, <3>2
    <3> QED BY <3>3 DEF H
  <2> QED BY <2>2, <2>3
<1> QED BY <1>1, PthreadInvariant, PTL

(* Nor do the assertions that a mutex is held fail in such a program: a    *)
(* cond_wait that gives a mutex up and takes it again never leaves its     *)
(* thread without it (pthread_lib.c:384-394, 544-611).                     *)
THEOREM NoFalseOwnershipAlarm ==
  Spec => [](OnlyOwnersRelease(program) => lib.report \notin OwnershipReport)
PROOF
<1>1. OwnershipInv /\ OnlyOwnersRelease(program) => lib.report \notin OwnershipReport
  BY DEF OwnershipInv
<1> QED BY <1>1, PthreadInvariant, PTL
=============================================================================
