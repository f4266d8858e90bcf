---------------------------- MODULE MCPthreadLib ----------------------------
(* Main and two threads over two mutexes and a condition variable.         *)
EXTENDS PthreadLib

MCMutex == {"m", "n"}
MCCond == {"c"}

I(op, x) == [op |-> op, x |-> x, m |-> "none"]
Await(c, m) == [op |-> "await", x |-> c, m |-> m]

(* Create both threads and join them, or end without them; hold a mutex    *)
(* meanwhile; wait for one of them.                                        *)
MainBodies == {
  <<I("create", 2), I("create", 3), I("join", 1), I("join", 2)>>,
  <<I("create", 2), I("create", 3)>>,
  <<I("lock", "m"), I("create", 2), I("create", 3), I("unlock", "m"), I("join", 2)>>,
  <<I("lock", "m"), I("create", 2), I("create", 3), Await("c", "m"), I("unlock", "m"), I("exit", "none")>>}

(* The two orders of two mutexes; a notifier; a waiter; a thread that      *)
(* joins its sibling while it holds a mutex.                               *)
ThreadBodies == {
  <<I("lock", "m"), I("lock", "n"), I("unlock", "n"), I("unlock", "m")>>,
  <<I("lock", "n"), I("lock", "m"), I("unlock", "m"), I("unlock", "n")>>,
  <<I("lock", "m"), I("set", "c"), I("signal", "c"), I("unlock", "m")>>,
  <<I("lock", "m"), Await("c", "m"), I("unlock", "m")>>,
  <<I("lock", "n"), I("join", 1), I("unlock", "n")>>}

Awaiting(body) == \E n \in DOMAIN body : body[n].op = "await"

(* At most one thread waits on the condition variable: a signal of the     *)
(* library wakes every waiter, so a signal that should have been a         *)
(* broadcast deadlocks the program and not the library.                    *)
MCPrograms ==
  {p \in {<<a, b, c>> : a \in MainBodies, b, c \in ThreadBodies} :
     Cardinality({n \in 1 .. 3 : Awaiting(p[n])}) <= 1}

(* Main joins both threads, so that its return is not at issue.            *)
JoiningPrograms ==
  {p \in MCPrograms : p[1] = <<I("create", 2), I("create", 3), I("join", 1), I("join", 2)>>}

(* Main waits; the thread that wakes it ends with the mutex main needs.    *)
HoldingPrograms ==
  {<<<<I("lock", "m"), I("create", 2), I("create", 3), Await("c", "m"), I("unlock", "m"),
       I("exit", "none")>>,
     <<I("set", "c"), I("lock", "m"), I("signal", "c"), I("exit", "none")>>,
     other>> :
     other \in {<<I("lock", "n"), I("unlock", "n")>>,
                <<I("lock", "n"), I("join", 1), I("unlock", "n")>>}}

(* Holding programs deadlock in a way of their own.                        *)
AllPrograms == MCPrograms \cup HoldingPrograms

(* What the theorem about mutual exclusion asks of a program.              *)
ASSUME OwnersAssumption ==
  \A p \in AllPrograms : OnlyOwnersRelease(p)
=============================================================================
