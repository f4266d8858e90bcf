------------------------- MODULE MCReachabilityTree -------------------------
(* Two threads spawned by main, whose bodies and whose main's remainder    *)
(* are drawn from small families of shared-memory accesses.                *)
EXTENDS ReachabilityTree

I(op, x) == [op |-> op, x |-> x]

Default == [CS_bound |-> -1, por |-> TRUE]
Bounded == [CS_bound |-> 3, por |-> FALSE]

MCOptions == {Default, Bounded}
DefaultOnly == {Default}

MCVars == {"x", "y"}

Begin == I("atomic_begin", "none")
End == I("atomic_end", "none")

(* Write twice, read into a local and judge it, judge it only once the     *)
(* writer has moved on, write and wait for an answer, answer and overwrite *)
(* (the three switches between these two are all needed), publish and      *)
(* look, and an atomic block.                                              *)
ThreadBodies == {
  <<I("store", "x"), I("store", "y")>>,
  <<I("load", "x"), I("claim", "none")>>,
  <<I("load", "x"), I("assume", "y"), I("claim", "none")>>,
  <<I("store", "x"), I("assume", "y"), I("assert", "x")>>,
  <<I("assume", "x"), I("store", "y"), I("store", "x")>>,
  <<I("store", "y"), I("load", "x"), I("claim", "none")>>,
  <<Begin, I("inc", "x"), I("inc", "y"), End, I("assert", "x")>>}

MainBodies == {
  <<>>,
  <<I("load", "x"), I("claim", "none")>>,
  <<I("store", "x"), I("assert", "y")>>,
  <<I("yield", "none"), I("load", "y"), I("claim", "none")>>}

Flat(m, b, c, leak_check) ==
  [bodies |-> <<<<I("spawn", 2), I("spawn", 3)>> \o m, b, c>>, leak_check |-> leak_check]

Nested(m, b, c, leak_check) ==
  [bodies |-> <<<<I("spawn", 2)>> \o m, <<I("spawn", 3)>> \o b, c>>,
   leak_check |-> leak_check]

(* With --memory-leak-check the other threads go on when main has ended;   *)
(* without it main has to wait for what it wants to see.                   *)
MCPrograms ==
  {Flat(m, b, c, TRUE) : m \in MainBodies, b, c \in ThreadBodies}
    \cup {Flat(<<I("join", 2), I("assert", "x")>>, b, c, FALSE) : b, c \in ThreadBodies}

NestedPrograms ==
  {Nested(m, <<>>, c, TRUE) : m \in MainBodies, c \in ThreadBodies}
=============================================================================
