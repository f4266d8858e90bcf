-------------------------------- MODULE Guards --------------------------------
(***************************************************************************)
(* util/guard.cpp: the condition under which symbolic execution is where   *)
(* it is, kept as the conjuncts that were added to it.  An input World     *)
(* fixes every unknown of a program; a conjunct carries the worlds it      *)
(* holds in (den) and the symbols its text names.                          *)
(*                                                                         *)
(* The conjuncts are a set.  The code keeps a list and compares lists with *)
(* std::set_difference and std::set_intersection, which on a list that is  *)
(* not sorted may find fewer common conjuncts than there are.              *)
(***************************************************************************)
EXTENDS Integers, FiniteSets

CONSTANT World

Literal(symbol, negated, den) ==
  [kind |-> "symbol", symbol |-> symbol, negated |-> negated, den |-> den, syms |-> {symbol}]

NoSymbol == <<"none", 0>>

Condition(den, syms) ==
  [kind |-> "other", symbol |-> NoSymbol, negated |-> FALSE, den |-> den, syms |-> syms]

False == [kind |-> "false", symbol |-> NoSymbol, negated |-> FALSE, den |-> {}, syms |-> {}]

Den(g) == {w \in World : \A c \in g : w \in c.den}

Syms(g) == UNION {c.syms : c \in g}

TrueGuard == {}
FalseGuard == {False}

is_true(g) == g = TrueGuard
is_false(g) == g = FalseGuard

(* False swallows whatever else is there, and stays.                       *)
add(g, c) ==
  IF is_false(g) THEN g
  ELSE IF c.kind = "false" THEN FalseGuard
  ELSE g \cup {c}

make_false(g) == add(g, False)

Opposite(c, d) ==
  c.kind = "symbol" /\ d.kind = "symbol" /\ c.symbol = d.symbol /\ c.negated # d.negated

(* The disjunction of two conjunctions; of a symbol and its negation       *)
(* nothing is left.                                                        *)
Either(g1, g2) ==
  IF \E c \in g1, d \in g2 : g1 = {c} /\ g2 = {d} /\ Opposite(c, d) THEN {}
  ELSE {Condition(Den(g1) \cup Den(g2), Syms(g1) \cup Syms(g2))}

Or_WholeGuards(g1, g2) ==
  IF is_false(g2) \/ is_true(g1) THEN g1
  ELSE IF is_false(g1) \/ is_true(g2) THEN g2
  ELSE (g1 \cap g2) \cup {Condition(Den(g1 \ g2), Syms(g1 \ g2))}

(* operator |=: what both have in common is not part of the disjunction.   *)
Or(g1, g2) ==
  IF is_false(g2) \/ is_true(g1) THEN g1
  ELSE IF is_false(g1) \/ is_true(g2) THEN g2
  ELSE IF g1 = g2 THEN g1
  ELSE (g1 \cap g2) \cup Either(g1 \ g2, g2 \ g1)

(* operator -=.                                                            *)
Minus(g1, g2) == g1 \ g2

(* guard_expr: the worlds in which the guard implies a condition.          *)
guard_expr(g, den) == (World \ Den(g)) \cup den
=============================================================================
