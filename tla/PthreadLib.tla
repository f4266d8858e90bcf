----------------------------- MODULE PthreadLib -----------------------------
(***************************************************************************)
(* c2goto/library/pthread_lib.c under --deadlock-check: the C functions    *)
(* that stand for the pthread library while ESBMC explores the             *)
(* interleavings of a program.  A thread that cannot go on does not wait:  *)
(* it counts itself in __ESBMC_blocked_threads_count, asserts that the     *)
(* count is not the number of threads running, lets others run, and then   *)
(* assumes false, which discards the interleaving; the library relies on   *)
(* another interleaving to show what happens when it does not block.       *)
(*                                                                         *)
(* Every atomic block of the library is one step, and a discarded          *)
(* continuation is a step that is not there.  Not modelled: keys, reader-  *)
(* writer locks, trylock, mutex destruction, detached threads.             *)
(***************************************************************************)
EXTENDS PosixThreads

CONSTANT Programs

(* A program's calls name its bodies, mutexes and conditions.              *)
WellFormed(p, i) ==
  /\ i.op = "create" => i.x \in DOMAIN p
  /\ i.op \in {"lock", "unlock"} => i.x \in Mutex
  /\ i.op \in {"signal", "set"} => i.x \in Cond
  /\ i.op = "await" => i.x \in Cond /\ i.m \in Mutex

ASSUME ProgramAssumption ==
  \A p \in Programs :
    /\ 1 \in DOMAIN p
    /\ \A b \in DOMAIN p :
         /\ Len(p[b]) \in Nat
         /\ \A n \in 1 .. Len(p[b]) : WellFormed(p, p[b][n])

VARIABLES
  program,   \* the program under test
  lib        \* the library's globals and the threads

vars == <<program, lib>>

InitialLib ==
  [threads |-> [t \in {0} |-> NewThread(1)],
   lock |-> [m \in Mutex |-> 0],
   cond_lock |-> [c \in Cond |-> 0],
   predicate |-> {},
   thread_ended |-> {},
   num_threads_running |-> 1,
   blocked_threads_count |-> 0,
   report |-> "none"]            \* the assertion that failed, if one did

-----------------------------------------------------------------------------
(* The library, as functions from the state before to the state after.     *)

(* __ESBMC_blocked_threads_count++, and the assertion.                     *)
CountBlocked(s, assertion) ==
  LET count == s.blocked_threads_count + 1
  IN  [s EXCEPT
        !.blocked_threads_count = count,
        !.report = IF count = s.num_threads_running THEN assertion ELSE @]

(* The end of the atomic block lets others run; then comes assume(false).  *)
Block(s, t, assertion) == At(CountBlocked(s, assertion), t, "blocked")

pthread_create(s, t, i) ==
  Advance([s EXCEPT !.threads = Spawn(s, i.x), !.num_threads_running = @ + 1], t)

pthread_join_switch(s, t, i) ==
  IF i.x \in s.thread_ended THEN Advance(s, t) ELSE Block(s, t, "join")

pthread_mutex_lock_check(s, t, i) ==
  IF s.lock[i.x] = 0
    THEN Advance([s EXCEPT !.lock[i.x] = 1], t)
    ELSE Block(s, t, "mutex_lock")

pthread_mutex_unlock_check(s, t, i) ==
  [Advance(s, t) EXCEPT !.lock[i.x] = 0,
                        !.report = IF s.lock[i.x] = 0 THEN "unlock" ELSE @]

pthread_cond_signal(s, t, i) == Advance([s EXCEPT !.cond_lock[i.x] = 0], t)

(* do_pthread_cond_wait up to the gap in which others may run ...          *)
CondRelease(s, t, i) ==
  LET counted == CountBlocked([s EXCEPT !.lock[i.m] = 0, !.cond_lock[i.x] = 1], "cond_wait")
  IN  At([counted EXCEPT !.report = IF s.lock[i.m] = 0 THEN "not_held" ELSE @], t, "waiting")

CondWake_StillBlocked(s, t) == At(s, t, "waking")

(* ... signalled, or woken spuriously (nondet_bool), so always possible,   *)
CondWake(s, t) == At([s EXCEPT !.blocked_threads_count = @ - 1], t, "waking")

MayReacquire_Always(s, i) == TRUE

(* ... and the mutex taken again.  The library calls pthread_mutex_lock,   *)
(* which was compiled to the variant that assumes the mutex free and       *)
(* counts nothing.                                                         *)
MayReacquire(s, i) == s.lock[i.m] = 0

CondReacquire(s, t, i) == At([s EXCEPT !.lock[i.m] = 1], t, "running")

(* The end of a thread other than main, or pthread_exit in any thread:     *)
(* discarded while somebody is blocked.                                    *)
MayEnd(s) == s.blocked_threads_count = 0

EndThread(s, t) ==
  At([s EXCEPT !.thread_ended = @ \cup {t}, !.num_threads_running = @ - 1], t, "ended")

EndMain_StillRunning(s) == At(s, 0, "ended")

(* pthread_end_main_hook, when main returns: no assumption.                *)
EndMain(s) == At([s EXCEPT !.num_threads_running = @ - 1], 0, "ended")

-----------------------------------------------------------------------------
(* One thread's next step, if the exploration goes on with it.             *)

May(p, s, t) ==
  LET i == Instr(p, s, t)
  IN  /\ s.report = "none"
      /\ \/ s.threads[t].at = "waiting"
         \/ s.threads[t].at = "waking" /\ MayReacquire(s, i)
         \/ /\ s.threads[t].at = "running"
            /\ i.op = "exit" \/ (i.op = "return" /\ t # 0) => MayEnd(s)

Step(p, s, t) ==
  LET i == Instr(p, s, t)
      calls(op) == s.threads[t].at = "running" /\ i.op = op
  IN  CASE s.threads[t].at = "waiting" -> CondWake(s, t)
        [] s.threads[t].at = "waking" -> CondReacquire(s, t, i)
        [] calls("create") -> pthread_create(s, t, i)
        [] calls("join") -> pthread_join_switch(s, t, i)
        [] calls("lock") -> pthread_mutex_lock_check(s, t, i)
        [] calls("unlock") -> pthread_mutex_unlock_check(s, t, i)
        [] calls("signal") -> pthread_cond_signal(s, t, i)
        [] calls("set") -> Advance([s EXCEPT !.predicate = @ \cup {i.x}], t)
        [] calls("await") /\ i.x \in s.predicate -> Advance(s, t)
        [] calls("await") /\ i.x \notin s.predicate -> CondRelease(s, t, i)
        [] calls("return") /\ t = 0 -> EndMain(s)
        [] OTHER -> EndThread(s, t)

Init ==
  /\ program \in Programs
  /\ lib = InitialLib

ThreadStep(t) ==
  /\ May(program, lib, t)
  /\ lib' = Step(program, lib, t)
  /\ UNCHANGED program

Next == \E t \in Thread(lib) : ThreadStep(t)

Spec == Init /\ [][Next]_vars

-----------------------------------------------------------------------------
(* Properties *)

Reports == {"none", "join", "mutex_lock", "cond_wait", "not_held", "unlock"}

TypeOK ==
  /\ program \in Programs
  /\ Thread(lib) = 0 .. Cardinality(Thread(lib)) - 1
  /\ \A t \in Thread(lib) :
       lib.threads[t].at \in {"running", "blocked", "waiting", "waking", "ended"}
  /\ lib.lock \in [Mutex -> {0, 1}]
  /\ lib.cond_lock \in [Cond -> {0, 1}]
  /\ lib.predicate \subseteq Cond
  /\ lib.thread_ended \subseteq Thread(lib)
  /\ lib.num_threads_running \in 0 .. Cardinality(Thread(lib))
  /\ lib.blocked_threads_count \in 0 .. lib.num_threads_running
  /\ lib.report \in Reports

(* The two counters a deadlock is decided from never drift from the        *)
(* threads: no thread is running that is not counted, and exactly those    *)
(* that blocked or wait in a cond_wait are counted as blocked              *)
(* (lines 52-53, 120-136, 174, 197, 219, 244, 369, 562, 601).              *)
CountsExact ==
  LET here(where) == {t \in Thread(lib) : lib.threads[t].at \in where}
  IN  /\ lib.num_threads_running = Cardinality(Live(lib))
      /\ lib.blocked_threads_count = Cardinality(here({"blocked", "waiting"}))

(* A mutex that its thread gave up in a cond_wait is never held by two     *)
(* threads once they wake, signalled or not: at most one thread is between *)
(* lock and unlock (lines 351-394, 544-611).                               *)
Calls(body, pc, op, m) ==
  {n \in 1 .. pc - 1 : n <= Len(body) /\ body[n].op = op /\ body[n].x = m}

Balance(body, pc, m) ==
  Cardinality(Calls(body, pc, "lock", m)) - Cardinality(Calls(body, pc, "unlock", m))

InWait(p, s, t, m) ==
  s.threads[t].at \in {"waiting", "waking"} /\ Instr(p, s, t).m = m

Holds(p, s, t, m) ==
  Balance(p[s.threads[t].body], s.threads[t].pc, m) > 0 /\ ~InWait(p, s, t, m)

MutualExclusion ==
  \A m \in Mutex : Cardinality({t \in Thread(lib) : Holds(program, lib, t, m)}) <= 1

(* A thread unlocks, or gives up in a wait, only a mutex it locked: POSIX  *)
(* leaves it undefined what else would happen.                             *)
OnlyOwnersRelease(p) ==
  \A b \in DOMAIN p : \A n \in 1 .. Len(p[b]) :
    LET i == p[b][n]
    IN  /\ i.op = "unlock" => Balance(p[b], n, i.x) > 0
        /\ i.op = "await" => Balance(p[b], n, i.m) > 0

(* Whether the thread could not go on if it had waited until now instead   *)
(* of blocking for good.                                                   *)
Stuck(p, s, t) ==
  LET i == Instr(p, s, t)
  IN  CASE s.threads[t].at = "waiting" -> s.cond_lock[i.x] = 1
        [] s.threads[t].at = "waking" -> s.lock[i.m] = 1
        [] i.op = "lock" -> s.lock[i.x] = 1
        [] i.op = "join" -> i.x \notin s.thread_ended
        [] OTHER -> FALSE

DeadlockReport == {"join", "mutex_lock", "cond_wait"}

(* The programs of which some interleaving reports a deadlock it is in.    *)
Reporting ==
  {p \in Programs :
     LET Successors(s) == {Step(p, s, t) : t \in {u \in Live(s) : May(p, s, u)}}
     IN  \E s \in Reachable(Successors, InitialLib) :
           s.report \in DeadlockReport /\ \A t \in Live(s) : Stuck(p, s, t)}

Deadlocking == {p \in Programs : Deadlocks(p) # {}}

(* A deadlock of a thread that was woken from a cond_wait and cannot take  *)
(* its mutex again: a thread that has ended held it.                       *)
Abandoned(p, s) ==
  \E t \in Live(s) :
    /\ s.threads[t].at = "waking"
    /\ \A u \in Live(s) : ~Holds(p, s, u, Instr(p, s, t).m)

(* "A thread terminating during a search for a deadlock means there's no   *)
(* deadlock or it can be found down a different path. Proof left as        *)
(* exercise to the reader" (lines 175-177): a program that can deadlock    *)
(* has an interleaving that reports it, though interleavings are discarded *)
(* when a thread ends while another is blocked, and a thread that blocked  *)
(* never goes on.  The exercise fails of the programs whose deadlocks are  *)
(* all abandoned ones, and those are missed without exception: the wait    *)
(* takes its mutex again by an assumption that counts nothing (line 608).  *)
EveryDeadlockReported ==
  program \in Deadlocking =>
    (program \in Reporting <=> \E s \in Deadlocks(program) : ~Abandoned(program, s))

(* "If there are now no more threads unblocked, croak" (line 245): a       *)
(* deadlock is reported only of a program that has one.                    *)
OnlyDeadlocksReported == lib.report \in DeadlockReport => program \in Deadlocking
=============================================================================
