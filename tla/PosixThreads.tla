---------------------------- MODULE PosixThreads ----------------------------
(***************************************************************************)
(* The reference for PthreadLib: what POSIX says of the same programs.  A  *)
(* thread that cannot go on simply waits, nothing is counted, and a        *)
(* deadlock is a state that some threads have not left and none of them    *)
(* can leave.  (Spurious wakeups are allowed, but nobody may rely on one.) *)
(* As in ESBMC, the other threads go on when main returns.                 *)
(*                                                                         *)
(* A program is a sequence of bodies, main's first; an instruction is a    *)
(* call [op, x, m]; threads are numbered as they are created, main is 0.   *)
(***************************************************************************)
EXTENDS Integers, Sequences, FiniteSets

CONSTANTS
  Mutex, Cond,
  MaxDepth      \* no program of the instance has a longer shortest path to a state

Thread(s) == DOMAIN s.threads

NewThread(body) == [body |-> body, pc |-> 1, at |-> "running"]

Spawn(s, body) ==
  [t \in 0 .. Cardinality(Thread(s)) |->
     IF t \in Thread(s) THEN s.threads[t] ELSE NewThread(body)]

(* Falling off the end of a body is a call too: "return".                  *)
Instr(p, s, t) ==
  LET body == p[s.threads[t].body]
  IN  IF s.threads[t].pc <= Len(body) THEN body[s.threads[t].pc]
      ELSE [op |-> "return", x |-> "none", m |-> "none"]

Advance(s, t) == [s EXCEPT !.threads[t].pc = s.threads[t].pc + 1]

At(s, t, where) == [s EXCEPT !.threads[t].at = where]

InitialPosix ==
  [threads |-> [t \in {0} |-> NewThread(1)],
   locked |-> {},
   predicate |-> {}]

Live(s) == {t \in Thread(s) : s.threads[t].at # "ended"}

(* The states thread t can take s to in one step; none if it must wait.    *)
PosixSteps(p, s, t) ==
  LET i == Instr(p, s, t)
      at == s.threads[t].at
      waiters(c) == {u \in Thread(s) : s.threads[u].at = "waiting" /\ Instr(p, s, u).x = c}
      joinable(u) == u \in Thread(s) /\ s.threads[u].at = "ended"
      calls(op) == at = "running" /\ i.op = op
  IN  CASE calls("create") -> {Advance([s EXCEPT !.threads = Spawn(s, i.x)], t)}
        [] calls("join") -> IF joinable(i.x) THEN {Advance(s, t)} ELSE {}
        [] calls("lock") ->
             IF i.x \in s.locked THEN {} ELSE {Advance([s EXCEPT !.locked = @ \cup {i.x}], t)}
        [] calls("unlock") -> {Advance([s EXCEPT !.locked = @ \ {i.x}], t)}
        [] calls("set") -> {Advance([s EXCEPT !.predicate = @ \cup {i.x}], t)}
        [] calls("await") /\ i.x \in s.predicate -> {Advance(s, t)}
        [] calls("await") /\ i.x \notin s.predicate ->
             {At([s EXCEPT !.locked = @ \ {i.m}], t, "waiting")}
        [] calls("signal") ->
             IF waiters(i.x) = {} THEN {Advance(s, t)}
             ELSE {Advance(At(s, u, "waking"), t) : u \in waiters(i.x)}
        [] calls("return") \/ calls("exit") -> {At(s, t, "ended")}
        [] at = "waiting" -> {At(s, t, "waking")}
        [] at = "waking" ->
             IF i.m \in s.locked THEN {}
             ELSE {At([s EXCEPT !.locked = @ \cup {i.m}], t, "running")}
        [] OTHER -> {}

(* Nobody can go on; a waiter that nobody signals cannot.                  *)
Deadlocked(p, s) ==
  /\ Live(s) # {}
  /\ \A t \in Live(s) : s.threads[t].at = "waiting" \/ PosixSteps(p, s, t) = {}

(* Everything reachable from start, breadth first.                         *)
Reachable(Successors(_), start) ==
  LET search[n \in 0 .. MaxDepth] ==
        IF n = 0 THEN [seen |-> {start}, frontier |-> {start}]
        ELSE LET before == search[n - 1]
                 new == UNION {Successors(s) : s \in before.frontier} \ before.seen
             IN  [seen |-> before.seen \cup new, frontier |-> new]
  IN  search[MaxDepth].seen

(* The deadlocks a program can run into.                                   *)
Deadlocks(p) ==
  LET Successors(s) == UNION {PosixSteps(p, s, t) : t \in Live(s)}
  IN  {s \in Reachable(Successors, InitialPosix) : Deadlocked(p, s)}
=============================================================================
