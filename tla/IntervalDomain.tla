---------------------------- MODULE IntervalDomain ----------------------------
(***************************************************************************)
(* interval_template.h and interval_domain.cpp: intervals, and the         *)
(* abstract state the analysis keeps at a location: an interval for some   *)
(* of the integer variables and some of the float ones (none means any     *)
(* value), and how often each interval has grown.                          *)
(*                                                                         *)
(* An absent bound is 0.  A float is a whole number of units in the last   *)
(* place.  Left out: wrapped and modular intervals, typecasts, the         *)
(* operators other than +, and the simplification of assertions.           *)
(***************************************************************************)
EXTENDS Integers, Sequences, FiniteSets, SequencesExt

CONSTANTS
  IntVars,     \* the integer variables of the programs
  FloatVars    \* their float variables

ASSUME VarAssumption == IntVars \cap FloatVars = {}

Interval == [lower_set : BOOLEAN, lower : Int, upper_set : BOOLEAN, upper : Int]

TopInterval == [lower_set |-> FALSE, lower |-> 0, upper_set |-> FALSE, upper |-> 0]

Singleton(c) == [lower_set |-> TRUE, lower |-> c, upper_set |-> TRUE, upper |-> c]

Between(a, b) == [lower_set |-> TRUE, lower |-> a, upper_set |-> TRUE, upper |-> b]

(* is_bottom of an interval.                                               *)
Empty(i) == i.lower_set /\ i.upper_set /\ i.lower > i.upper

HasValue(i, v) ==
  /\ i.lower_set => i.lower <= v
  /\ i.upper_set => v <= i.upper

Included(i, j) ==
  /\ j.lower_set => i.lower_set /\ j.lower <= i.lower
  /\ j.upper_set => i.upper_set /\ i.upper <= j.upper

Smaller(a, b) == IF a <= b THEN a ELSE b
Larger(a, b) == IF a <= b THEN b ELSE a

Bounds(lset, l, uset, u) ==
  [lower_set |-> lset, lower |-> IF lset THEN l ELSE 0,
   upper_set |-> uset, upper |-> IF uset THEN u ELSE 0]

(* approx_union_with.                                                      *)
Hull(i, j) ==
  Bounds(i.lower_set /\ j.lower_set, Smaller(i.lower, j.lower),
         i.upper_set /\ j.upper_set, Larger(i.upper, j.upper))

(* contract_interval_le for a <= b, whose iteration ends with these two:   *)
(* nothing is left of either when a lies above b.                          *)
ContractLower(a, b) ==
  IF ~b.upper_set THEN a
  ELSE Bounds(a.lower_set, a.lower,
              TRUE, IF a.upper_set THEN Smaller(a.upper, b.upper) ELSE b.upper)

ContractUpper(a, b) ==
  IF ~a.lower_set THEN b
  ELSE Bounds(TRUE, IF b.lower_set THEN Larger(b.lower, a.lower) ELSE a.lower,
              b.upper_set, b.upper)

(* extrapolate_intervals: a bound that moved is given up, and with it the  *)
(* other one unless overflow is assumed away.                              *)
Extrapolate(before, after, under_approximate) ==
  LET lower_decreased ==
        ~after.lower_set \/ (before.lower_set /\ after.lower < before.lower)
      upper_increased ==
        ~after.upper_set \/ (before.upper_set /\ after.upper > before.upper)
  IN  IF (lower_decreased \/ upper_increased) /\ ~under_approximate THEN TopInterval
      ELSE Bounds(~lower_decreased /\ before.lower_set, before.lower,
                  ~upper_increased /\ before.upper_set, before.upper)

(* interpolate_intervals: an absent bound is taken from the other side.    *)
Interpolate(before, after) ==
  LET lower == IF before.lower_set THEN before ELSE after
      upper == IF before.upper_set THEN before ELSE after
  IN  Bounds(lower.lower_set, lower.lower, upper.upper_set, upper.upper)

PlusConst(i, c) == Bounds(i.lower_set, i.lower + c, i.upper_set, i.upper + c)

-----------------------------------------------------------------------------
(* Abstract states                                                         *)

NoMap == [x \in {} |-> TopInterval]

Bottom == [bottom |-> TRUE, int_map |-> NoMap, real_map |-> NoMap, fixpoint_map |-> [x \in {} |-> 0]]

TopState == [Bottom EXCEPT !.bottom = FALSE]

MapFor(s, x) == IF x \in IntVars THEN s.int_map ELSE s.real_map

get_interval_from_symbol(s, x) ==
  LET map == MapFor(s, x) IN IF x \in DOMAIN map THEN map[x] ELSE TopInterval

WithMap(map, x, i) == [y \in DOMAIN map \cup {x} |-> IF y = x THEN i ELSE map[y]]

WithoutVars(map, xs) == [y \in DOMAIN map \ xs |-> map[y]]

update_symbol_interval(s, x, i) ==
  IF x \in IntVars THEN [s EXCEPT !.int_map = WithMap(@, x, i)]
  ELSE [s EXCEPT !.real_map = WithMap(@, x, i)]

havoc_rec(s, xs) ==
  [s EXCEPT !.int_map = WithoutVars(@, xs), !.real_map = WithoutVars(@, xs)]

(* A float constant stands for itself and both of its neighbours; zero,    *)
(* which is not a normal number, for anything.                             *)
get_interval_from_const(c, is_int) ==
  IF is_int THEN Singleton(c) ELSE IF c = 0 THEN TopInterval ELSE Between(c - 1, c + 1)

get_interval(s, e, is_int, options) ==
  CASE e.op = "const" -> get_interval_from_const(e.c, is_int)
    [] e.op = "var" -> get_interval_from_symbol(s, e.x)
    [] e.op = "plus" /\ options.arithmetic ->
         PlusConst(get_interval_from_symbol(s, e.x), e.c)
    [] OTHER -> TopInterval

apply_assignment(s, x, e, options) ==
  update_symbol_interval(s, x, get_interval(s, e, x \in IntVars, options))

(* The sides of a comparison have one type; a constant takes the other's.  *)
IsIntCmp(a, b) ==
  \A e \in {a, b} : e.op \in {"var", "plus"} => e.x \in IntVars

UpdateSide(s, e, i) == IF e.op = "var" THEN update_symbol_interval(s, e.x, i) ELSE s

apply_assume_less_NoBottom(s, a, b, options) ==
  LET is_int == IsIntCmp(a, b)
      lhs == get_interval(s, a, is_int, options)
      rhs == get_interval(s, b, is_int, options)
  IN  UpdateSide(UpdateSide(s, a, ContractLower(lhs, rhs)), b, ContractUpper(lhs, rhs))

(* Both sides of a comparison narrowed; nothing is left when one is empty. *)
Narrowed(s, a, b, lower, upper) ==
  IF s.bottom \/ Empty(lower) \/ Empty(upper) THEN Bottom
  ELSE UpdateSide(UpdateSide(s, a, lower), b, upper)

(* apply_assume_less: a <= b, and a < b, which is treated alike.           *)
apply_assume_less(s, a, b, options) ==
  LET is_int == IsIntCmp(a, b)
      lhs == get_interval(s, a, is_int, options)
      rhs == get_interval(s, b, is_int, options)
  IN  Narrowed(s, a, b, ContractLower(lhs, rhs), ContractUpper(lhs, rhs))

assume_cmp(s, op, a, b, options) ==
  CASE op = "eq" -> apply_assume_less(apply_assume_less(s, b, a, options), a, b, options)
    [] op = "ne" -> s
    [] op \in {"ge", "gt"} -> apply_assume_less(s, b, a, options)
    [] op \in {"le", "lt"} -> apply_assume_less(s, a, b, options)

Negated == [lt |-> "ge", le |-> "gt", gt |-> "le", ge |-> "lt", eq |-> "ne", ne |-> "eq"]

(* assume_rec: of a negated conjunction and of a disjunction nothing is    *)
(* used.                                                                   *)
assume_rec(s, g, negation, options) ==
  LET cmp(t, c) ==
        assume_cmp(t, IF negation THEN Negated[c.op] ELSE c.op, c.a, c.b, options)
  IN  CASE g.op = "true" -> s
        [] g.op \in {"and", "or"} ->
             IF negation = (g.op = "and") THEN s ELSE FoldLeft(cmp, s, g.parts)
        [] OTHER -> cmp(s, g)

-----------------------------------------------------------------------------
(* interval_domaint::join                                                  *)

(* Counters only matter up to the limit they are compared with.            *)
Counted(n, options) == Smaller(n + 1, options.limit + 1)

(* What becomes of one map when the intervals in grown grow to their hull, *)
(* how often each has, and whether anything changed.                       *)
Grow(map, other, counters, hull, grown, options) ==
  LET kept == DOMAIN hull
      dropped == DOMAIN map \ kept
      count == [x \in (DOMAIN counters \ dropped) \cup grown |->
                  IF x \notin grown THEN counters[x]
                  ELSE IF x \in DOMAIN counters THEN Counted(counters[x], options)
                  ELSE 0]
      result == [x \in kept |->
                   IF x \in grown
                     THEN IF options.extrapolate /\ count[x] > options.limit
                            THEN Extrapolate(map[x], hull[x], options.under_approximate)
                            ELSE hull[x]
                     ELSE IF options.narrowing THEN Interpolate(hull[x], other[x]) ELSE hull[x]]
  IN  [map |-> result, counters |-> count,
       changed |-> dropped # {} \/ grown # {} \/ \E x \in kept : result[x] # hull[x]]

JoinMap(map, other, counters, options) ==
  LET hull == [x \in DOMAIN map \cap DOMAIN other |-> Hull(map[x], other[x])]
  IN  Grow(map, other, counters, hull, {x \in DOMAIN hull : hull[x] # map[x]}, options)

(* The float map is left alone when an integer interval has changed.       *)
WithMaps(s, ints, reals) ==
  IF ints.changed
    THEN [state |-> [s EXCEPT !.int_map = ints.map, !.fixpoint_map = ints.counters],
          changed |-> TRUE]
    ELSE [state |-> [s EXCEPT !.int_map = ints.map, !.real_map = reals.map,
                              !.fixpoint_map = reals.counters],
          changed |-> reals.changed]

(* The hull is taken of the state that comes in and the one already there. *)
Join(s, b, options) ==
  IF b.bottom THEN [state |-> s, changed |-> FALSE]
  ELSE IF s.bottom THEN [state |-> b, changed |-> TRUE]
  ELSE LET ints == JoinMap(s.int_map, b.int_map, s.fixpoint_map, options)
       IN  WithMaps(s, ints, JoinMap(s.real_map, b.real_map, ints.counters, options))

-----------------------------------------------------------------------------
(* What an abstract state says of the values of the variables.             *)

Mapped(s) == DOMAIN s.int_map \cup DOMAIN s.real_map

Admits(s, val) ==
  /\ ~s.bottom
  /\ \A x \in Mapped(s) : HasValue(get_interval_from_symbol(s, x), val[x])

(* s is at least as precise as t.                                          *)
Refines(s, t) ==
  \/ s.bottom
  \/ /\ ~t.bottom
     /\ \A x \in IntVars \cup FloatVars :
          Included(get_interval_from_symbol(s, x), get_interval_from_symbol(t, x))
=============================================================================
