------------------------ MODULE IntervalAnalysis_proofs ------------------------
(***************************************************************************)
(* Proofs about IntervalAnalysis, for every program and all options: its   *)
(* states are well typed; without narrowing and where integers and floats  *)
(* do not meet in one program, the work list forgets nothing; and where,   *)
(* besides, no function calls itself nor names what a call of it returns   *)
(* into, the intervals contain what executions do, and no assumption made  *)
(* of them removes one.                                                    *)
(***************************************************************************)
EXTENDS IntervalAnalysis, SetLemmas

-----------------------------------------------------------------------------
(* Intervals *)

Good == {i \in Interval : ~Empty(i)}

(* Inclusion is transitive.                                                *)
LEMMA IncludedTransitive ==
  ASSUME NEW i \in Interval, NEW j \in Interval, NEW k \in Interval, Included(i, j), Included(j, k)
  PROVE  Included(i, k)
BY DEF Included, Interval

(* The hull of two intervals contains both (interval_template.h, join).    *)
LEMMA HullContains ==
  ASSUME NEW i \in Good, NEW j \in Good
  PROVE  Hull(i, j) \in Good /\ Included(i, Hull(i, j)) /\ Included(j, Hull(i, j))
BY DEF Good, Interval, Empty, Included, Hull, Bounds, Smaller, Larger

(* Extrapolation only gives up bounds: what an interval has grown to is in *)
(* what it is extrapolated to (interval_domain.cpp:194-224).               *)
LEMMA ExtrapolateContains ==
  ASSUME NEW i \in Good, NEW j \in Good, Included(i, j), NEW u \in BOOLEAN
  PROVE  Extrapolate(i, j, u) \in Good /\ Included(j, Extrapolate(i, j, u))
PROOF
<1> DEFINE lower == ~j.lower_set \/ (i.lower_set /\ j.lower < i.lower)
           upper == ~j.upper_set \/ (i.upper_set /\ j.upper > i.upper)
           b == Bounds(~lower /\ i.lower_set, i.lower, ~upper /\ i.upper_set, i.upper)
<1>1. i \in Interval /\ j \in Interval /\ ~Empty(i)
  BY DEF Good
<1>2. b \in Interval /\ Included(j, b) /\ ~Empty(b)
  <2>1. /\ i.lower_set \in BOOLEAN /\ i.upper_set \in BOOLEAN /\ i.lower \in Int /\ i.upper \in Int
        /\ j.lower_set \in BOOLEAN /\ j.upper_set \in BOOLEAN /\ j.lower \in Int /\ j.upper \in Int
    BY <1>1 DEF Interval
  <2>2. b \in Interval
    BY <2>1 DEF Interval, Bounds
  <2>3. /\ b.lower_set <=> ~lower /\ i.lower_set
        /\ b.lower_set => b.lower = i.lower
        /\ b.upper_set <=> ~upper /\ i.upper_set
        /\ b.upper_set => b.upper = i.upper
    BY <2>1 DEF Bounds
  <2> HIDE DEF b
  <2> QED BY <1>1, <2>1, <2>2, <2>3 DEF Included, Empty
<1>4. TopInterval \in Good /\ Included(j, TopInterval)
  BY <1>1 DEF Good, Interval, Empty, Included, TopInterval
<1>5. Extrapolate(i, j, u) \in {b, TopInterval}
  BY DEF Extrapolate
<1> HIDE DEF b
<1> QED BY <1>2, <1>4, <1>5 DEF Good

(* Narrowing leaves something of an interval.                              *)
LEMMA InterpolateType ==
  ASSUME NEW i \in Good, NEW j \in Good, Included(j, i)
  PROVE  Interpolate(i, j) \in Good
BY DEF Good, Interval, Empty, Included, Interpolate, Bounds

(* An assumption that leaves something leaves an interval.                 *)
LEMMA ContractType ==
  ASSUME NEW i \in Interval, NEW j \in Interval
  PROVE  ContractLower(i, j) \in Interval /\ ContractUpper(i, j) \in Interval
BY DEF Interval, ContractLower, ContractUpper, Bounds, Smaller, Larger

(* Nothing is known of what has no interval.                               *)
LEMMA TopContains ==
  /\ TopInterval \in Good
  /\ \A i \in Interval : Included(i, TopInterval)
BY DEF Good, Interval, Empty, Included, TopInterval

-----------------------------------------------------------------------------
(* Abstract states                                                         *)

Partial(V, T) == UNION {[W -> T] : W \in SUBSET V}

(* A function on some of V.                                                *)
LEMMA PartialFunction ==
  ASSUME NEW V, NEW T, NEW m
  PROVE  m \in Partial(V, T) <=>
           /\ DOMAIN m \subseteq V
           /\ m = [x \in DOMAIN m |-> m[x]]
           /\ \A x \in DOMAIN m : m[x] \in T
PROOF
<1>1. ASSUME m \in Partial(V, T)
      PROVE  /\ DOMAIN m \subseteq V
             /\ m = [x \in DOMAIN m |-> m[x]]
             /\ \A x \in DOMAIN m : m[x] \in T
  <2>1. PICK W \in SUBSET V : m \in [W -> T]
    BY <1>1 DEF Partial
  <2> QED BY <2>1
<1>2. ASSUME DOMAIN m \subseteq V, m = [x \in DOMAIN m |-> m[x]], \A x \in DOMAIN m : m[x] \in T
      PROVE  m \in Partial(V, T)
  <2>1. m \in [DOMAIN m -> T]
    BY <1>2
  <2> QED BY <1>2, <2>1 DEF Partial
<1> QED BY <1>1, <1>2

Counters(o) == Partial(IntVars \cup FloatVars, 0 .. o.limit + 1)

(* A counter counts up to the limit, for some of the variables.            *)
LEMMA CountersFunction ==
  ASSUME NEW o, NEW counters \in Counters(o)
  PROVE  /\ DOMAIN counters \subseteq IntVars \cup FloatVars
         /\ counters = [x \in DOMAIN counters |-> counters[x]]
         /\ \A x \in DOMAIN counters : counters[x] \in 0 .. o.limit + 1
PROOF
<1> DEFINE V == IntVars \cup FloatVars
           T == 0 .. o.limit + 1
<1>1. counters \in Partial(V, T)
  BY DEF Counters
<1> HIDE DEF V, T
<1>2. /\ DOMAIN counters \subseteq V
      /\ counters = [x \in DOMAIN counters |-> counters[x]]
      /\ \A x \in DOMAIN counters : counters[x] \in T
  BY <1>1, PartialFunction
<1> QED BY <1>2 DEF V, T

(* The states that can be at a location.                                   *)
AbstractState(p, o) ==
  {s \in [bottom : BOOLEAN, int_map : Partial(Ints(p), Good), real_map : Partial(Floats(p), Good),
          fixpoint_map : Counters(o)] :
     s.bottom => Mapped(s) = {}}

Settings ==
  [arithmetic : BOOLEAN, extrapolate : BOOLEAN, under_approximate : BOOLEAN,
   narrowing : BOOLEAN, limit : Nat]

(* The growth of a map contains the map and what it was joined with, and   *)
(* is the map if nothing has changed (interval_domain.cpp:703-759).        *)
LEMMA JoinMapContains ==
  ASSUME NEW V \in SUBSET (IntVars \cup FloatVars), NEW o \in Settings,
         NEW m \in Partial(V, Good), NEW other \in Partial(V, Good), NEW counters \in Counters(o)
  PROVE  LET j == JoinMap(m, other, counters, o)
         IN  /\ j.map \in Partial(V, Good)
             /\ j.counters \in Counters(o)
             /\ j.changed \in BOOLEAN
             /\ ~j.changed => j.map = m /\ j.counters = counters
             /\ DOMAIN j.map = DOMAIN m \cap DOMAIN other
             /\ ~o.narrowing => \A x \in DOMAIN j.map :
                                  Included(m[x], j.map[x]) /\ Included(other[x], j.map[x])
PROOF
<1> DEFINE kept == DOMAIN m \cap DOMAIN other
           hull == [x \in kept |-> Hull(m[x], other[x])]
           grown == {x \in kept : hull[x] # m[x]}
           dropped == DOMAIN m \ kept
           count == [x \in (DOMAIN counters \ dropped) \cup grown |->
                       IF x \notin grown THEN counters[x]
                       ELSE IF x \in DOMAIN counters THEN Counted(counters[x], o)
                       ELSE 0]
           result == [x \in kept |->
                        IF x \in grown
                          THEN IF o.extrapolate /\ count[x] > o.limit
                                 THEN Extrapolate(m[x], hull[x], o.under_approximate)
                                 ELSE hull[x]
                          ELSE IF o.narrowing THEN Interpolate(hull[x], other[x]) ELSE hull[x]]
           changed == dropped # {} \/ grown # {} \/ \E x \in kept : result[x] # hull[x]
<1>1. JoinMap(m, other, counters, o) = [map |-> result, counters |-> count, changed |-> changed]
  BY DEF JoinMap, Grow
<1>2. /\ DOMAIN m \subseteq V /\ m = [x \in DOMAIN m |-> m[x]] /\ \A x \in DOMAIN m : m[x] \in Good
      /\ DOMAIN other \subseteq V /\ \A x \in DOMAIN other : other[x] \in Good
      /\ DOMAIN counters \subseteq IntVars \cup FloatVars
      /\ counters = [x \in DOMAIN counters |-> counters[x]]
      /\ \A x \in DOMAIN counters : counters[x] \in 0 .. o.limit + 1
  <2>1. DOMAIN m \subseteq V /\ m = [x \in DOMAIN m |-> m[x]] /\ \A x \in DOMAIN m : m[x] \in Good
    BY PartialFunction
  <2>2. DOMAIN other \subseteq V /\ \A x \in DOMAIN other : other[x] \in Good
    BY PartialFunction
  <2>3. /\ DOMAIN counters \subseteq IntVars \cup FloatVars
        /\ counters = [x \in DOMAIN counters |-> counters[x]]
        /\ \A x \in DOMAIN counters : counters[x] \in 0 .. o.limit + 1
    BY CountersFunction
  <2> QED BY <2>1, <2>2, <2>3
<1>3. ASSUME NEW x \in kept
      PROVE  /\ hull[x] \in Good /\ Included(m[x], hull[x]) /\ Included(other[x], hull[x])
             /\ result[x] \in Good
             /\ ~o.narrowing => Included(m[x], result[x]) /\ Included(other[x], result[x])
  <2>1. m[x] \in Good /\ other[x] \in Good
    BY <1>2
  <2>2. hull[x] \in Good /\ Included(m[x], hull[x]) /\ Included(other[x], hull[x])
    BY <2>1, HullContains
  <2> HIDE DEF hull, count, grown
  <2> DEFINE e == Extrapolate(m[x], hull[x], o.under_approximate)
  <2>3. e \in Good /\ Included(hull[x], e)
    BY <2>1, <2>2, ExtrapolateContains DEF Settings
  <2>4. Included(m[x], e) /\ Included(other[x], e)
    BY <2>1, <2>2, <2>3, IncludedTransitive DEF Good
  <2>5. Interpolate(hull[x], other[x]) \in Good
    BY <2>1, <2>2, InterpolateType
  <2> HIDE DEF e
  <2>6. result[x] \in {e, hull[x], Interpolate(hull[x], other[x])}
        /\ (~o.narrowing => result[x] \in {e, hull[x]})
    BY DEF e
  <2> HIDE DEF result
  <2> QED BY <2>2, <2>3, <2>4, <2>5, <2>6
<1>4. result \in Partial(V, Good)
  <2> HIDE DEF hull, count, grown
  <2>1. result \in [kept -> Good]
    BY <1>3
  <2> QED BY <1>2, <2>1 DEF Partial
<1>5. count \in Counters(o)
  <2> DEFINE D == (DOMAIN counters \ dropped) \cup grown
  <2>1. D \subseteq IntVars \cup FloatVars
    BY <1>2
  <2>2. o.limit \in Nat
    BY DEF Settings
  <2>3. ASSUME NEW x \in D PROVE count[x] \in 0 .. o.limit + 1
    <3>1. x \in DOMAIN counters =>
            counters[x] \in 0 .. o.limit + 1 /\ Counted(counters[x], o) \in 0 .. o.limit + 1
      BY <1>2, <2>2 DEF Counted, Smaller
    <3>2. x \notin grown => x \in DOMAIN counters
      OBVIOUS
    <3> HIDE DEF grown, dropped
    <3> QED BY <2>2, <3>1, <3>2
  <2> HIDE DEF grown, dropped
  <2>4. count \in [D -> 0 .. o.limit + 1]
    BY <2>3
  <2> HIDE DEF count, D
  <2> QED BY <2>1, <2>4 DEF Counters, Partial
<1>6. ASSUME ~changed PROVE result = m /\ count = counters
  <2>1. kept = DOMAIN m /\ grown = {} /\ \A x \in kept : result[x] = hull[x]
    BY <1>6
  <2>2. \A x \in DOMAIN m : result[x] = m[x]
    BY <2>1
  <2>3. dropped = {}
    BY <2>1
  <2>4. count = [x \in DOMAIN counters |-> counters[x]]
    <3> HIDE DEF grown, dropped
    <3> QED BY <2>1, <2>3
  <2>5. DOMAIN result = DOMAIN m
    BY <2>1
  <2>6. result = [x \in DOMAIN m |-> result[x]]
    BY <2>1
  <2> HIDE DEF result, count
  <2> QED BY <1>2, <2>2, <2>4, <2>6
<1>7. DOMAIN result = kept /\ changed \in BOOLEAN
  OBVIOUS
<1> HIDE DEF result, count, changed
<1> QED BY <1>1, <1>3, <1>4, <1>5, <1>6, <1>7

(* What a state says of a variable.                                        *)
LEMMA LookupType ==
  ASSUME NEW p, NEW o, NEW s \in AbstractState(p, o), NEW x \in IntVars \cup FloatVars
  PROVE  /\ get_interval_from_symbol(s, x) \in Good
         /\ x \in IntVars =>
              get_interval_from_symbol(s, x) =
                IF x \in DOMAIN s.int_map THEN s.int_map[x] ELSE TopInterval
         /\ x \in FloatVars =>
              get_interval_from_symbol(s, x) =
                IF x \in DOMAIN s.real_map THEN s.real_map[x] ELSE TopInterval
PROOF
<1>1. \A y \in DOMAIN s.int_map : s.int_map[y] \in Good
  <2>1. s.int_map \in Partial(Ints(p), Good)
    BY DEF AbstractState
  <2> QED BY <2>1, PartialFunction
<1>2. \A y \in DOMAIN s.real_map : s.real_map[y] \in Good
  <2>1. s.real_map \in Partial(Floats(p), Good)
    BY DEF AbstractState
  <2> QED BY <2>1, PartialFunction
<1>3. x \in FloatVars => x \notin IntVars
  BY VarAssumption
<1> QED BY <1>1, <1>2, <1>3, TopContains DEF get_interval_from_symbol, MapFor

(* A state refines another one when its maps do.                           *)
LEMMA MapsRefine ==
  ASSUME NEW p, NEW o, NEW s \in AbstractState(p, o), NEW t \in AbstractState(p, o), ~t.bottom,
         \A x \in DOMAIN t.int_map : x \in DOMAIN s.int_map /\ Included(s.int_map[x], t.int_map[x]),
         \A x \in DOMAIN t.real_map : x \in DOMAIN s.real_map /\ Included(s.real_map[x], t.real_map[x])
  PROVE  Refines(s, t)
PROOF
<1> SUFFICES ASSUME NEW x \in IntVars \cup FloatVars
             PROVE  Included(get_interval_from_symbol(s, x), get_interval_from_symbol(t, x))
  BY DEF Refines
<1>1. get_interval_from_symbol(s, x) \in Interval
  BY LookupType DEF Good
<1>2. CASE x \in IntVars
  <2>1. CASE x \in DOMAIN t.int_map
    BY <1>2, <2>1, LookupType
  <2>2. CASE x \notin DOMAIN t.int_map
    <3>1. get_interval_from_symbol(t, x) = TopInterval
      BY <1>2, <2>2, LookupType
    <3> QED BY <1>1, <3>1, TopContains
  <2> QED BY <2>1, <2>2
<1>3. CASE x \in FloatVars
  <2>1. CASE x \in DOMAIN t.real_map
    BY <1>3, <2>1, LookupType
  <2>2. CASE x \notin DOMAIN t.real_map
    <3>1. get_interval_from_symbol(t, x) = TopInterval
      BY <1>3, <2>2, LookupType
    <3> QED BY <1>1, <3>1, TopContains
  <2> QED BY <2>1, <2>2
<1> QED BY <1>2, <1>3

(* Refinement is transitive.                                               *)
LEMMA RefinesTransitive ==
  ASSUME NEW p, NEW o, NEW s \in AbstractState(p, o), NEW t \in AbstractState(p, o),
         NEW u \in AbstractState(p, o), Refines(s, t), Refines(t, u)
  PROVE  Refines(s, u)
PROOF
<1> SUFFICES ASSUME ~s.bottom PROVE Refines(s, u)
  BY DEF Refines
<1>1. ~t.bottom /\ ~u.bottom
  BY DEF Refines
<1>2. ASSUME NEW x \in IntVars \cup FloatVars
      PROVE  Included(get_interval_from_symbol(s, x), get_interval_from_symbol(u, x))
  <2>1. /\ Included(get_interval_from_symbol(s, x), get_interval_from_symbol(t, x))
        /\ Included(get_interval_from_symbol(t, x), get_interval_from_symbol(u, x))
    BY <1>1 DEF Refines
  <2>2. /\ get_interval_from_symbol(s, x) \in Interval
        /\ get_interval_from_symbol(t, x) \in Interval
        /\ get_interval_from_symbol(u, x) \in Interval
    BY LookupType DEF Good
  <2> QED BY <2>1, <2>2, IncludedTransitive
<1> QED BY <1>1, <1>2 DEF Refines

(* A state refines itself.                                                 *)
LEMMA RefinesReflexive ==
  ASSUME NEW p, NEW o, NEW s \in AbstractState(p, o)
  PROVE  Refines(s, s)
PROOF
<1>1. ASSUME NEW x \in IntVars \cup FloatVars
      PROVE  Included(get_interval_from_symbol(s, x), get_interval_from_symbol(s, x))
  BY LookupType DEF Good, Interval, Included
<1> QED BY <1>1 DEF Refines

(* A state as a record of its parts.                                       *)
State(b, ints, reals, counters) ==
  [bottom |-> b, int_map |-> ints, real_map |-> reals, fixpoint_map |-> counters]

(* Parts of the right kinds make a state, an impossible one if both maps   *)
(* are empty.                                                              *)
LEMMA StateIntro ==
  ASSUME NEW p, NEW o, NEW b \in BOOLEAN, NEW ints \in Partial(Ints(p), Good),
         NEW reals \in Partial(Floats(p), Good), NEW counters \in Counters(o),
         b => DOMAIN ints = {} /\ DOMAIN reals = {}
  PROVE  State(b, ints, reals, counters) \in AbstractState(p, o)
PROOF
<1> DEFINE s == State(b, ints, reals, counters)
<1>1. s.bottom = b /\ s.int_map = ints /\ s.real_map = reals /\ s.fixpoint_map = counters
  BY DEF State
<1>2. s \in [bottom : BOOLEAN, int_map : Partial(Ints(p), Good), real_map : Partial(Floats(p), Good),
             fixpoint_map : Counters(o)]
  BY Zenon DEF State
<1>3. s.bottom => Mapped(s) = {}
  BY <1>1 DEF Mapped
<1> QED BY <1>2, <1>3 DEF AbstractState

(* The parts of a state are of the right kinds.                            *)
LEMMA StateElim ==
  ASSUME NEW p, NEW o, NEW s \in AbstractState(p, o)
  PROVE  /\ s = State(s.bottom, s.int_map, s.real_map, s.fixpoint_map)
         /\ s.bottom \in BOOLEAN
         /\ s.int_map \in Partial(Ints(p), Good)
         /\ s.real_map \in Partial(Floats(p), Good)
         /\ s.fixpoint_map \in Counters(o)
         /\ s.bottom => DOMAIN s.int_map = {} /\ DOMAIN s.real_map = {}
BY DEF AbstractState, State, Mapped

(* A state in which one part is replaced.                                  *)
LEMMA StateExcept ==
  ASSUME NEW b, NEW m, NEW n, NEW k, NEW v
  PROVE  /\ [State(b, m, n, k) EXCEPT !.int_map = v] = State(b, v, n, k)
         /\ [State(b, m, n, k) EXCEPT !.real_map = v] = State(b, m, v, k)
         /\ [State(b, m, n, k) EXCEPT !.fixpoint_map = v] = State(b, m, n, v)
BY DEF State

(* What a join leaves of a state.                                          *)
LEMMA WithMapsState ==
  ASSUME NEW b, NEW m, NEW n, NEW k, NEW ints, NEW reals
  PROVE  /\ ints.changed =>
              WithMaps(State(b, m, n, k), ints, reals) =
                [state |-> State(b, ints.map, n, ints.counters), changed |-> TRUE]
         /\ ~ints.changed =>
              WithMaps(State(b, m, n, k), ints, reals) =
                [state |-> State(b, ints.map, reals.map, reals.counters),
                 changed |-> reals.changed]
PROOF
<1> DEFINE s == State(b, m, n, k)
<1>1. /\ ints.changed =>
           WithMaps(s, ints, reals) =
             [state |-> [s EXCEPT !.int_map = ints.map, !.fixpoint_map = ints.counters],
              changed |-> TRUE]
      /\ ~ints.changed =>
           WithMaps(s, ints, reals) =
             [state |-> [s EXCEPT !.int_map = ints.map, !.real_map = reals.map,
                                  !.fixpoint_map = reals.counters],
              changed |-> reals.changed]
  BY DEF WithMaps
<1> DEFINE v == ints.map
           w == ints.counters
           x == reals.map
           y == reals.counters
<1> HIDE DEF v, w, x, y
<1>2. [s EXCEPT !.int_map = v, !.fixpoint_map = w] = State(b, v, n, w)
  <2>1. [s EXCEPT !.int_map = v, !.fixpoint_map = w]
          = [[s EXCEPT !.int_map = v] EXCEPT !.fixpoint_map = w]
    OBVIOUS
  <2>2. [s EXCEPT !.int_map = v] = State(b, v, n, k)
    BY DEF State
  <2>3. [State(b, v, n, k) EXCEPT !.fixpoint_map = w] = State(b, v, n, w)
    BY DEF State
  <2> QED BY <2>1, <2>2, <2>3
<1>3. [s EXCEPT !.int_map = v, !.real_map = x, !.fixpoint_map = y] = State(b, v, x, y)
  <2>1. [s EXCEPT !.int_map = v, !.real_map = x, !.fixpoint_map = y]
          = [[[s EXCEPT !.int_map = v] EXCEPT !.real_map = x] EXCEPT !.fixpoint_map = y]
    OBVIOUS
  <2>2. [s EXCEPT !.int_map = v] = State(b, v, n, k)
    BY DEF State
  <2>3. [State(b, v, n, k) EXCEPT !.real_map = x] = State(b, v, x, k)
    BY DEF State
  <2>4. [State(b, v, x, k) EXCEPT !.fixpoint_map = y] = State(b, v, x, y)
    BY DEF State
  <2> QED BY <2>1, <2>2, <2>3, <2>4
<1> QED BY <1>1, <1>2, <1>3 DEF v, w, x, y

(* interval_domaint::join.  The state at a location only grows, and it     *)
(* contains what came in unless integers and floats changed at once.       *)
LEMMA JoinContains ==
  ASSUME NEW p, NEW o \in Settings, NEW s \in AbstractState(p, o), NEW b \in AbstractState(p, o)
  PROVE  LET j == Join(s, b, o)
         IN  /\ j.state \in AbstractState(p, o)
             /\ j.changed \in BOOLEAN
             /\ ~j.changed => j.state = s
             /\ j.changed => ~j.state.bottom
             /\ ~s.bottom => ~j.state.bottom
             /\ ~o.narrowing => Refines(s, j.state)
             /\ ~o.narrowing /\ OneKind(p) => Refines(b, j.state)
PROOF
<1> DEFINE j == Join(s, b, o)
<1>1. CASE b.bottom
  BY <1>1, RefinesReflexive DEF Join, Refines
<1>2. CASE ~b.bottom /\ s.bottom
  BY <1>2, RefinesReflexive DEF Join, Refines
<1>3. CASE ~b.bottom /\ ~s.bottom
  <2> DEFINE ints == JoinMap(s.int_map, b.int_map, s.fixpoint_map, o)
             reals == JoinMap(s.real_map, b.real_map, ints.counters, o)
  <2>1. /\ s.int_map \in Partial(Ints(p), Good) /\ b.int_map \in Partial(Ints(p), Good)
        /\ s.real_map \in Partial(Floats(p), Good) /\ b.real_map \in Partial(Floats(p), Good)
        /\ s.fixpoint_map \in Counters(o)
        /\ s = State(FALSE, s.int_map, s.real_map, s.fixpoint_map)
    <3>1. s.bottom = FALSE
      BY <1>3, StateElim
    <3> QED BY <3>1, StateElim
  <2>2. /\ Ints(p) \in SUBSET (IntVars \cup FloatVars)
        /\ Floats(p) \in SUBSET (IntVars \cup FloatVars)
    BY DEF Ints, Floats
  <2>3. /\ ints.map \in Partial(Ints(p), Good)
        /\ ints.counters \in Counters(o)
        /\ ints.changed \in BOOLEAN
        /\ ~ints.changed => ints.map = s.int_map /\ ints.counters = s.fixpoint_map
        /\ DOMAIN ints.map = DOMAIN s.int_map \cap DOMAIN b.int_map
        /\ ~o.narrowing => \A x \in DOMAIN ints.map :
              Included(s.int_map[x], ints.map[x]) /\ Included(b.int_map[x], ints.map[x])
    <3> HIDE DEF ints
    <3> QED BY <2>1, <2>2, JoinMapContains DEF ints
  <2>4. /\ reals.map \in Partial(Floats(p), Good)
        /\ reals.counters \in Counters(o)
        /\ reals.changed \in BOOLEAN
        /\ ~reals.changed => reals.map = s.real_map /\ reals.counters = ints.counters
        /\ DOMAIN reals.map = DOMAIN s.real_map \cap DOMAIN b.real_map
        /\ ~o.narrowing => \A x \in DOMAIN reals.map :
              Included(s.real_map[x], reals.map[x]) /\ Included(b.real_map[x], reals.map[x])
    <3> HIDE DEF ints
    <3>1. ints.counters \in Counters(o)
      BY <2>3
    <3> QED BY <2>1, <2>2, <3>1, JoinMapContains DEF reals
  <2>5. j = WithMaps(s, ints, reals)
    BY <1>3 DEF Join
  <2> HIDE DEF ints, reals, j
  <2>6. /\ ints.changed =>
             j = [state |-> State(FALSE, ints.map, s.real_map, ints.counters), changed |-> TRUE]
        /\ ~ints.changed =>
             j = [state |-> State(FALSE, ints.map, reals.map, reals.counters),
                  changed |-> reals.changed]
    <3> DEFINE z == FALSE
               m == s.int_map
               n == s.real_map
               k == s.fixpoint_map
    <3>1. j = WithMaps(State(z, m, n, k), ints, reals)
      BY <2>1, <2>5
    <3> HIDE DEF z, m, n, k
    <3>2. /\ ints.changed =>
               WithMaps(State(z, m, n, k), ints, reals) =
                 [state |-> State(z, ints.map, n, ints.counters), changed |-> TRUE]
          /\ ~ints.changed =>
               WithMaps(State(z, m, n, k), ints, reals) =
                 [state |-> State(z, ints.map, reals.map, reals.counters),
                  changed |-> reals.changed]
      BY WithMapsState
    <3> QED BY <3>1, <3>2 DEF z, n
  <2>7. CASE ints.changed
    <3>1. /\ j.state = State(FALSE, ints.map, s.real_map, ints.counters)
          /\ j.changed = TRUE
      <4> DEFINE t == State(FALSE, ints.map, s.real_map, ints.counters)
      <4>1. j = [state |-> t, changed |-> TRUE]
        BY <2>6, <2>7
      <4> HIDE DEF t
      <4>2. j.state = t /\ j.changed = TRUE
        BY <4>1
      <4> QED BY <4>2 DEF t
    <3>2. /\ j.state \in AbstractState(p, o) /\ ~j.state.bottom
          /\ j.state.int_map = ints.map /\ j.state.real_map = s.real_map
      <4>1. State(FALSE, ints.map, s.real_map, ints.counters) \in AbstractState(p, o)
        BY <2>1, <2>3, StateIntro
      <4> QED BY <3>1, <4>1 DEF State
    <3>3. ASSUME ~o.narrowing PROVE Refines(s, j.state)
      <4>1. \A x \in DOMAIN j.state.int_map :
              x \in DOMAIN s.int_map /\ Included(s.int_map[x], j.state.int_map[x])
        BY <2>3, <3>2, <3>3
      <4>2. \A x \in DOMAIN j.state.real_map :
              x \in DOMAIN s.real_map /\ Included(s.real_map[x], j.state.real_map[x])
        <5>1. \A x \in DOMAIN s.real_map : s.real_map[x] \in Interval
          BY <2>1, PartialFunction DEF Good
        <5>2. \A i \in Interval : Included(i, i)
          BY DEF Included, Interval
        <5> QED BY <3>2, <5>1, <5>2
      <4> QED BY <3>2, <4>1, <4>2, MapsRefine
    <3>4. ASSUME ~o.narrowing, OneKind(p) PROVE Refines(b, j.state)
      <4>1. \A x \in DOMAIN j.state.int_map :
              x \in DOMAIN b.int_map /\ Included(b.int_map[x], j.state.int_map[x])
        BY <2>3, <3>2, <3>4
      <4>2. Floats(p) = {}
        <5> SUFFICES ASSUME Ints(p) = {} PROVE FALSE
          BY <3>4 DEF OneKind
        <5>1. DOMAIN s.int_map = {} /\ DOMAIN b.int_map = {}
          BY <2>1, PartialFunction
        <5>2. ~ints.changed
          BY <5>1 DEF ints, JoinMap, Grow
        <5> QED BY <2>7, <5>2
      <4>3. DOMAIN s.real_map = {}
        BY <2>1, <4>2, PartialFunction
      <4>4. \A x \in DOMAIN j.state.real_map :
              x \in DOMAIN b.real_map /\ Included(b.real_map[x], j.state.real_map[x])
        BY <3>2, <4>3
      <4> QED BY <3>2, <4>1, <4>4, MapsRefine
    <3> QED BY <3>1, <3>2, <3>3, <3>4 DEF j
  <2>8. CASE ~ints.changed
    <3>1. /\ j.state = State(FALSE, ints.map, reals.map, reals.counters)
          /\ j.changed = reals.changed
      <4> DEFINE t == State(FALSE, ints.map, reals.map, reals.counters)
                 c == reals.changed
      <4>1. j = [state |-> t, changed |-> c]
        BY <2>6, <2>8
      <4> HIDE DEF t, c
      <4>2. j.state = t /\ j.changed = c
        BY <4>1
      <4> QED BY <4>2 DEF t, c
    <3>2. /\ j.state \in AbstractState(p, o) /\ ~j.state.bottom
          /\ j.state.int_map = ints.map /\ j.state.real_map = reals.map
      <4>1. State(FALSE, ints.map, reals.map, reals.counters) \in AbstractState(p, o)
        BY <2>3, <2>4, StateIntro
      <4> QED BY <3>1, <4>1 DEF State
    <3>3. ~j.changed => j.state = s
      BY <2>1, <2>3, <2>4, <2>8, <3>1
    <3>4. ASSUME ~o.narrowing PROVE Refines(s, j.state) /\ Refines(b, j.state)
      <4>1. \A x \in DOMAIN j.state.int_map :
              /\ x \in DOMAIN s.int_map /\ Included(s.int_map[x], j.state.int_map[x])
              /\ x \in DOMAIN b.int_map /\ Included(b.int_map[x], j.state.int_map[x])
        BY <2>3, <3>2, <3>4
      <4>2. \A x \in DOMAIN j.state.real_map :
              /\ x \in DOMAIN s.real_map /\ Included(s.real_map[x], j.state.real_map[x])
              /\ x \in DOMAIN b.real_map /\ Included(b.real_map[x], j.state.real_map[x])
        BY <2>4, <3>2, <3>4
      <4> QED BY <3>2, <4>1, <4>2, MapsRefine
    <3> QED BY <2>4, <3>1, <3>2, <3>3, <3>4 DEF j
  <2> QED BY <2>7, <2>8
<1>4. s.bottom \in BOOLEAN /\ b.bottom \in BOOLEAN
  BY StateElim
<1> QED BY <1>1, <1>2, <1>3, <1>4

(* Nothing known, and nothing possible.                                    *)
LEMMA SimpleStates ==
  ASSUME NEW p, NEW o \in Settings
  PROVE  /\ Bottom \in AbstractState(p, o) /\ Bottom.bottom
         /\ TopState \in AbstractState(p, o) /\ ~TopState.bottom
PROOF
<1> DEFINE k == [x \in {} |-> 0]
<1>1. /\ NoMap \in Partial(Ints(p), Good) /\ NoMap \in Partial(Floats(p), Good)
      /\ k \in Counters(o) /\ DOMAIN NoMap = {}
  BY DEF NoMap, Partial, Counters
<1>2. Bottom = State(TRUE, NoMap, NoMap, k)
  BY DEF Bottom, State
<1>3. TopState = State(FALSE, NoMap, NoMap, k)
  <2> DEFINE m == NoMap
             t == State(TRUE, m, m, k)
             z == FALSE
             u == State(z, m, m, k)
  <2>1. TopState = [t EXCEPT !.bottom = z]
    BY <1>2 DEF TopState
  <2> HIDE DEF m, k, z
  <2>2. [t EXCEPT !.bottom = z] = u
    BY DEF State
  <2> HIDE DEF t, u
  <2>3. TopState = u
    BY <2>1, <2>2
  <2> QED BY <2>3 DEF u, m, k, z
<1> HIDE DEF k
<1>4. State(TRUE, NoMap, NoMap, k) \in AbstractState(p, o)
  BY <1>1, StateIntro
<1>5. State(FALSE, NoMap, NoMap, k) \in AbstractState(p, o)
  BY <1>1, StateIntro
<1>6. Bottom.bottom /\ ~TopState.bottom
  BY <1>2, <1>3 DEF State
<1> QED BY <1>2, <1>3, <1>4, <1>5, <1>6

-----------------------------------------------------------------------------
(* The effect of instructions on abstract states.                          *)

(* A map with one more interval.                                           *)
LEMMA WithMapType ==
  ASSUME NEW V, NEW m \in Partial(V, Good), NEW x \in V, NEW i \in Good
  PROVE  WithMap(m, x, i) \in Partial(V, Good)
PROOF
<1> DEFINE W == DOMAIN m \cup {x}
<1>1. DOMAIN m \subseteq V /\ \A y \in DOMAIN m : m[y] \in Good
  BY PartialFunction
<1>2. WithMap(m, x, i) \in [W -> Good]
  BY <1>1 DEF WithMap
<1>3. W \in SUBSET V
  BY <1>1
<1> QED BY <1>2, <1>3 DEF Partial

(* A map with fewer.                                                       *)
LEMMA WithoutVarsType ==
  ASSUME NEW V, NEW m \in Partial(V, Good), NEW xs
  PROVE  /\ WithoutVars(m, xs) \in Partial(V, Good)
         /\ DOMAIN WithoutVars(m, xs) \subseteq DOMAIN m
PROOF
<1> DEFINE W == DOMAIN m \ xs
<1>1. DOMAIN m \subseteq V /\ \A y \in DOMAIN m : m[y] \in Good
  BY PartialFunction
<1>2. WithoutVars(m, xs) \in [W -> Good]
  BY <1>1 DEF WithoutVars
<1>3. W \in SUBSET V
  BY <1>1
<1> QED BY <1>2, <1>3 DEF Partial

(* havoc_rec forgets, and nothing more.                                    *)
LEMMA HavocType ==
  ASSUME NEW p, NEW o, NEW s \in AbstractState(p, o), NEW xs
  PROVE  havoc_rec(s, xs) \in AbstractState(p, o) /\ havoc_rec(s, xs).bottom = s.bottom
PROOF
<1> DEFINE b == s.bottom
           m == s.int_map
           n == s.real_map
           k == s.fixpoint_map
           v == WithoutVars(m, xs)
           w == WithoutVars(n, xs)
<1>1. /\ s = State(b, m, n, k) /\ b \in BOOLEAN /\ m \in Partial(Ints(p), Good)
      /\ n \in Partial(Floats(p), Good) /\ k \in Counters(o)
      /\ b => DOMAIN m = {} /\ DOMAIN n = {}
  BY StateElim
<1>2. /\ v \in Partial(Ints(p), Good) /\ DOMAIN v \subseteq DOMAIN m
      /\ w \in Partial(Floats(p), Good) /\ DOMAIN w \subseteq DOMAIN n
  <2> HIDE DEF m, n
  <2> QED BY <1>1, WithoutVarsType
<1>3. havoc_rec(s, xs) = [[s EXCEPT !.int_map = v] EXCEPT !.real_map = w]
  BY DEF havoc_rec
<1> HIDE DEF b, m, n, k, v, w
<1>4. [s EXCEPT !.int_map = v] = State(b, v, n, k)
  BY <1>1 DEF State
<1>5. [State(b, v, n, k) EXCEPT !.real_map = w] = State(b, v, w, k)
  BY DEF State
<1>6. State(b, v, w, k) \in AbstractState(p, o)
  BY <1>1, <1>2, StateIntro
<1>7. State(b, v, w, k).bottom = b
  BY DEF State
<1>8. havoc_rec(s, xs) = State(b, v, w, k)
  BY <1>3, <1>4, <1>5
<1> QED BY <1>6, <1>7, <1>8 DEF b

(* A variable is given an interval.                                        *)
LEMMA UpdateType ==
  ASSUME NEW p, NEW o, NEW s \in AbstractState(p, o), NEW x \in Ints(p) \cup Floats(p),
         NEW i \in Good
  PROVE  /\ ~s.bottom => update_symbol_interval(s, x, i) \in AbstractState(p, o)
         /\ update_symbol_interval(s, x, i).bottom = s.bottom
PROOF
<1> DEFINE b == s.bottom
           m == s.int_map
           n == s.real_map
           k == s.fixpoint_map
<1>1. /\ s = State(b, m, n, k) /\ b \in BOOLEAN /\ m \in Partial(Ints(p), Good)
      /\ n \in Partial(Floats(p), Good) /\ k \in Counters(o)
  BY StateElim
<1>2. CASE x \in IntVars
  <2> DEFINE v == WithMap(m, x, i)
  <2>1. update_symbol_interval(s, x, i) = [s EXCEPT !.int_map = v]
    BY <1>2 DEF update_symbol_interval
  <2> HIDE DEF b, m, n, k
  <2>2. x \in Ints(p)
    BY <1>2, VarAssumption DEF Ints, Floats
  <2>3. v \in Partial(Ints(p), Good)
    BY <1>1, <2>2, WithMapType
  <2> HIDE DEF v
  <2>4. [s EXCEPT !.int_map = v] = State(b, v, n, k)
    BY <1>1 DEF State
  <2>5. ~b => State(b, v, n, k) \in AbstractState(p, o)
    BY <1>1, <2>3, StateIntro
  <2>6. State(b, v, n, k).bottom = b
    BY DEF State
  <2> QED BY <2>1, <2>4, <2>5, <2>6 DEF b
<1>3. CASE x \notin IntVars
  <2> DEFINE v == WithMap(n, x, i)
  <2>1. update_symbol_interval(s, x, i) = [s EXCEPT !.real_map = v]
    BY <1>3 DEF update_symbol_interval
  <2> HIDE DEF b, m, n, k
  <2>2. x \in Floats(p)
    BY <1>3 DEF Ints, Floats
  <2>3. v \in Partial(Floats(p), Good)
    BY <1>1, <2>2, WithMapType
  <2> HIDE DEF v
  <2>4. [s EXCEPT !.real_map = v] = State(b, m, v, k)
    BY <1>1 DEF State
  <2>5. ~b => State(b, m, v, k) \in AbstractState(p, o)
    BY <1>1, <2>3, StateIntro
  <2>6. State(b, m, v, k).bottom = b
    BY DEF State
  <2> QED BY <2>1, <2>4, <2>5, <2>6 DEF b
<1> QED BY <1>2, <1>3

(* An expression that names variables of the program.                      *)
ExprIn(p, e) == ExprOK(e) /\ ExprVars(e) \subseteq Ints(p) \cup Floats(p)

(* An expression has an interval of which something is left.               *)
LEMMA ExprInterval ==
  ASSUME NEW p, NEW o \in Settings, NEW s \in AbstractState(p, o), NEW e, ExprIn(p, e), NEW is_int
  PROVE  get_interval(s, e, is_int, o) \in Good
PROOF
<1>1. CASE e.op = "const"
  <2>1. e.c \in Int /\ get_interval(s, e, is_int, o) = get_interval_from_const(e.c, is_int)
    BY <1>1 DEF ExprIn, ExprOK, get_interval
  <2>2. /\ Singleton(e.c) \in Good /\ Between(e.c - 1, e.c + 1) \in Good
    BY <2>1 DEF Singleton, Between, Good, Interval, Empty
  <2> QED BY <2>1, <2>2, TopContains DEF get_interval_from_const
<1>2. CASE e.op = "var"
  <2>1. /\ e.x \in IntVars \cup FloatVars
        /\ get_interval(s, e, is_int, o) = get_interval_from_symbol(s, e.x)
    BY <1>2 DEF ExprIn, ExprOK, get_interval
  <2> QED BY <2>1, LookupType
<1>3. CASE e.op = "plus"
  <2> DEFINE i == get_interval_from_symbol(s, e.x)
  <2>1. /\ e.x \in IntVars \cup FloatVars /\ e.c \in Int
        /\ get_interval(s, e, is_int, o) = IF o.arithmetic THEN PlusConst(i, e.c) ELSE TopInterval
    BY <1>3 DEF ExprIn, ExprOK, get_interval
  <2>2. i \in Good
    BY <2>1, LookupType
  <2> HIDE DEF i
  <2>3. PlusConst(i, e.c) \in Good
    BY <2>1, <2>2 DEF PlusConst, Bounds, Good, Interval, Empty
  <2> QED BY <2>1, <2>3, TopContains
<1>4. CASE e.op = "nondet"
  BY <1>4, TopContains DEF get_interval
<1> QED BY <1>1, <1>2, <1>3, <1>4 DEF ExprIn, ExprOK
(* apply_assume_less keeps an impossible state so, and of another one      *)
(* leaves a state or nothing.                                              *)
LEMMA AssumeLessType ==
  ASSUME NEW p, NEW o \in Settings, NEW s \in AbstractState(p, o),
         NEW a, ExprIn(p, a), NEW b, ExprIn(p, b)
  PROVE  /\ apply_assume_less(s, a, b, o) \in AbstractState(p, o)
         /\ s.bottom => apply_assume_less(s, a, b, o).bottom
PROOF
<1> DEFINE is_int == IsIntCmp(a, b)
           lhs == get_interval(s, a, is_int, o)
           rhs == get_interval(s, b, is_int, o)
           lower == ContractLower(lhs, rhs)
           upper == ContractUpper(lhs, rhs)
<1>1. apply_assume_less(s, a, b, o) = Narrowed(s, a, b, lower, upper)
  BY DEF apply_assume_less
<1>2. lower \in Interval /\ upper \in Interval
  <2> HIDE DEF lhs, rhs
  <2>1. lhs \in Good /\ rhs \in Good
    BY ExprInterval DEF lhs, rhs
  <2> QED BY <2>1, ContractType DEF Good
<1> HIDE DEF lower, upper
<1>3. CASE s.bottom \/ Empty(lower) \/ Empty(upper)
  <2>1. apply_assume_less(s, a, b, o) = Bottom
    BY <1>1, <1>3 DEF Narrowed
  <2> QED BY <2>1, SimpleStates
<1>4. CASE ~s.bottom /\ ~Empty(lower) /\ ~Empty(upper)
  <2> DEFINE t == UpdateSide(s, a, lower)
  <2>1. apply_assume_less(s, a, b, o) = UpdateSide(t, b, upper)
    BY <1>1, <1>4 DEF Narrowed
  <2>2. lower \in Good /\ upper \in Good
    BY <1>2, <1>4 DEF Good
  <2>3. t \in AbstractState(p, o) /\ ~t.bottom
    <3>1. CASE a.op = "var"
      <4>1. t = update_symbol_interval(s, a.x, lower)
        BY <3>1 DEF UpdateSide
      <4>2. a.x \in Ints(p) \cup Floats(p)
        BY <3>1 DEF ExprIn, ExprVars
      <4> HIDE DEF t
      <4> QED BY <1>4, <2>2, <4>1, <4>2, UpdateType
    <3>2. CASE a.op # "var"
      BY <1>4, <3>2 DEF UpdateSide
    <3> QED BY <3>1, <3>2
  <2> HIDE DEF t
  <2>4. UpdateSide(t, b, upper) \in AbstractState(p, o)
    <3>1. CASE b.op = "var"
      <4>1. UpdateSide(t, b, upper) = update_symbol_interval(t, b.x, upper)
        BY <3>1 DEF UpdateSide
      <4>2. b.x \in Ints(p) \cup Floats(p)
        BY <3>1 DEF ExprIn, ExprVars
      <4> QED BY <2>2, <2>3, <4>1, <4>2, UpdateType
    <3>2. CASE b.op # "var"
      BY <2>3, <3>2 DEF UpdateSide
    <3> QED BY <3>1, <3>2
  <2> QED BY <1>4, <2>1, <2>4
<1> QED BY <1>3, <1>4

CmpIn(p, g) == g.op \in DOMAIN Negated /\ ExprIn(p, g.a) /\ ExprIn(p, g.b)

(* So does the assumption of a comparison, or of its negation.             *)
LEMMA AssumeCmpType ==
  ASSUME NEW p, NEW o \in Settings, NEW s \in AbstractState(p, o),
         NEW g, CmpIn(p, g), NEW op \in {g.op, Negated[g.op]}
  PROVE  /\ assume_cmp(s, op, g.a, g.b, o) \in AbstractState(p, o)
         /\ s.bottom => assume_cmp(s, op, g.a, g.b, o).bottom
PROOF
<1>1. op \in {"eq", "ne", "ge", "gt", "le", "lt"}
  BY DEF CmpIn, Negated
<1>2. ExprIn(p, g.a) /\ ExprIn(p, g.b)
  BY DEF CmpIn
<1> DEFINE there == apply_assume_less(s, g.b, g.a, o)
           here == apply_assume_less(s, g.a, g.b, o)
           both == apply_assume_less(there, g.a, g.b, o)
<1>3. /\ there \in AbstractState(p, o) /\ (s.bottom => there.bottom)
      /\ here \in AbstractState(p, o) /\ (s.bottom => here.bottom)
  BY <1>2, AssumeLessType
<1>4. both \in AbstractState(p, o) /\ (there.bottom => both.bottom)
  <2> HIDE DEF there
  <2> QED BY <1>2, <1>3, AssumeLessType
<1>5. assume_cmp(s, op, g.a, g.b, o) =
        CASE op = "eq" -> both [] op = "ne" -> s [] op \in {"ge", "gt"} -> there
          [] op \in {"le", "lt"} -> here
  BY DEF assume_cmp
<1> HIDE DEF there, here, both
<1> QED BY <1>1, <1>3, <1>4, <1>5

GuardIn(p, g) ==
  \/ g.op = "true"
  \/ CmpIn(p, g)
  \/ /\ g.op \in {"and", "or"}
     /\ Len(g.parts) \in Nat /\ DOMAIN g.parts = 1 .. Len(g.parts)
     /\ \A n \in DOMAIN g.parts : CmpIn(p, g.parts[n])

AssumeOne(t, c, negation, o) ==
  assume_cmp(t, IF negation THEN Negated[c.op] ELSE c.op, c.a, c.b, o)

(* What folds the comparisons of a guard stays in a set that each of them  *)
(* stays in.                                                               *)
LEMMA FoldStays ==
  ASSUME NEW g, g.op \in {"and", "or"}, NEW negation \in BOOLEAN, negation # (g.op = "and"),
         Len(g.parts) \in Nat, DOMAIN g.parts = 1 .. Len(g.parts), NEW o, NEW D, NEW s \in D,
         \A t \in D : \A m \in 1 .. Len(g.parts) : AssumeOne(t, g.parts[m], negation, o) \in D
  PROVE  assume_rec(s, g, negation, o) \in D
PROOF
<1> DEFINE cmp(t, c) == assume_cmp(t, IF negation THEN Negated[c.op] ELSE c.op, c.a, c.b, o)
           parts == g.parts
           n == Len(parts)
           S == 1 .. n
           F == [m \in S |-> [t \in D |-> cmp(t, parts[m])]]
           Chosen(it) ==
             it = [r \in SUBSET S |->
                     IF r = {} THEN s ELSE cmp(it[r \ {Max(r)}], parts[Max(r)])]
<1>1. assume_rec(s, g, negation, o) = FoldLeft(cmp, s, parts)
  BY DEF assume_rec
<1>2. FoldLeft(cmp, s, parts) = (CHOOSE it : Chosen(it))[S]
  BY Zenon DEF FoldLeft, MapThenFoldSet
<1>3. ASSUME NEW t \in D, NEW m \in S PROVE cmp(t, parts[m]) \in D
  BY DEF AssumeOne
<1> HIDE DEF cmp
<1>4. n \in Nat /\ s \in D /\ F \in [S -> [D -> D]]
  BY <1>3
<1>5. PICK it \in [SUBSET S -> D] : IsLeftFold(n, s, F, it)
  <2> HIDE DEF F, n
  <2>1. n \in Nat /\ s \in D /\ F \in [1 .. n -> [D -> D]]
    BY <1>4
  <2> QED BY <2>1, LeftFoldExists, Zenon
<1>6. ASSUME NEW r \in SUBSET S, r # {}
      PROVE  Max(r) \in S /\ r \ {Max(r)} \in SUBSET S
  <2>1. r \in SUBSET Nat /\ \A y \in r : y <= n
    BY <1>4
  <2> QED BY <1>4, <1>6, <2>1, MaxProperties
<1>7. Chosen(it)
  <2>1. ASSUME NEW r \in SUBSET S
        PROVE  it[r] = IF r = {} THEN s ELSE cmp(it[r \ {Max(r)}], parts[Max(r)])
    <3>1. it[r] = IF r = {} THEN s ELSE F[Max(r)][it[r \ {Max(r)}]]
      BY <1>5 DEF IsLeftFold
    <3>2. r # {} => Max(r) \in S /\ it[r \ {Max(r)}] \in D
      BY <1>5, <1>6
    <3> QED BY <3>1, <3>2
  <2>2. it = [r \in SUBSET S |-> it[r]]
    BY <1>5
  <2> HIDE DEF S
  <2> QED BY <2>1, <2>2
<1> DEFINE chosen == CHOOSE f : Chosen(f)
<1>8. Chosen(chosen)
  <2> HIDE DEF Chosen
  <2> QED BY <1>7
<1> HIDE DEF chosen
<1>9. SUBSET S \subseteq {r \in SUBSET S : chosen[r] \in D}
  <2> DEFINE G == {r \in SUBSET S : chosen[r] \in D}
  <2>1. {} \in G
    BY <1>4, <1>8
  <2>2. ASSUME NEW r \in SUBSET S, r # {}, r \ {Max(r)} \in G PROVE r \in G
    <3>1. Max(r) \in S
      BY <1>6, <2>2
    <3>2. chosen[r] = cmp(chosen[r \ {Max(r)}], parts[Max(r)])
      BY <1>8, <2>2
    <3> HIDE DEF S
    <3> QED BY <1>3, <2>2, <3>1, <3>2 DEF cmp
  <2> HIDE DEF G
  <2>3. SUBSET S \subseteq G
    BY <1>4, <2>1, <2>2, GreatestRemovedInduction
  <2> QED BY <2>3 DEF G
<1>10. chosen[S] \in D
  BY <1>9
<1> QED BY <1>1, <1>2, <1>10 DEF chosen

(* assume_rec, however many comparisons it folds.                          *)
LEMMA AssumeRecType ==
  ASSUME NEW p, NEW o \in Settings, NEW s \in AbstractState(p, o),
         NEW g, GuardIn(p, g), NEW negation \in BOOLEAN
  PROVE  /\ assume_rec(s, g, negation, o) \in AbstractState(p, o)
         /\ s.bottom => assume_rec(s, g, negation, o).bottom
PROOF
<1> DEFINE cmp(t, c) == assume_cmp(t, IF negation THEN Negated[c.op] ELSE c.op, c.a, c.b, o)
<1>1. CASE g.op = "true"
  BY <1>1 DEF assume_rec
<1>2. CASE CmpIn(p, g)
  <2>1. g.op \notin {"true", "and", "or"}
    BY <1>2 DEF CmpIn, Negated
  <2>2. assume_rec(s, g, negation, o) = cmp(s, g)
    BY <2>1 DEF assume_rec
  <2> DEFINE op == IF negation THEN Negated[g.op] ELSE g.op
  <2>3. op \in {g.op, Negated[g.op]}
    OBVIOUS
  <2> HIDE DEF op
  <2>4. /\ assume_cmp(s, op, g.a, g.b, o) \in AbstractState(p, o)
        /\ s.bottom => assume_cmp(s, op, g.a, g.b, o).bottom
    BY <1>2, <2>3, AssumeCmpType
  <2> QED BY <2>2, <2>4 DEF op
<1>3. CASE g.op \in {"and", "or"} /\ negation = (g.op = "and")
  BY <1>3 DEF assume_rec
<1>4. CASE /\ g.op \in {"and", "or"} /\ negation # (g.op = "and")
           /\ Len(g.parts) \in Nat /\ DOMAIN g.parts = 1 .. Len(g.parts)
           /\ \A n \in DOMAIN g.parts : CmpIn(p, g.parts[n])
  <2> DEFINE D == {t \in AbstractState(p, o) : s.bottom => t.bottom}
  <2>1. ASSUME NEW t \in D, NEW m \in 1 .. Len(g.parts)
        PROVE  AssumeOne(t, g.parts[m], negation, o) \in D
    <3> DEFINE c == g.parts[m]
               op == IF negation THEN Negated[c.op] ELSE c.op
    <3>1. CmpIn(p, c) /\ op \in {c.op, Negated[c.op]}
      BY <1>4
    <3> HIDE DEF c, op
    <3>2. /\ assume_cmp(t, op, c.a, c.b, o) \in AbstractState(p, o)
          /\ t.bottom => assume_cmp(t, op, c.a, c.b, o).bottom
      BY <3>1, AssumeCmpType
    <3> QED BY <3>2 DEF c, op, AssumeOne
  <2>2. s \in D /\ Len(g.parts) \in Nat
    BY <1>4
  <2> HIDE DEF D
  <2>3. assume_rec(s, g, negation, o) \in D
    BY <1>4, <2>1, <2>2, FoldStays
  <2> QED BY <2>3 DEF D
<1> QED BY <1>1, <1>2, <1>3, <1>4 DEF GuardIn
-----------------------------------------------------------------------------
(* Locations                                                               *)

(* A location is an index in the body of a function.                       *)
LEMMA LocationIs ==
  ASSUME NEW p, WellFormed(p), NEW l \in Location(p)
  PROVE  /\ l = <<l[1], l[2]>>
         /\ l[1] \in DOMAIN p.body
         /\ l[2] \in 1 .. Len(p.body[l[1]])
         /\ Len(p.body[l[1]]) \in Nat \ {0}
PROOF
<1>1. PICK f \in DOMAIN p.body : \E i \in DOMAIN p.body[f] : l = <<f, i>>
  BY DEF Location
<1>2. PICK i \in DOMAIN p.body[f] : l = <<f, i>>
  BY <1>1
<1>3. DOMAIN p.body[f] = 1 .. Len(p.body[f]) /\ Len(p.body[f]) \in Nat \ {0}
  BY DEF WellFormed
<1>4. l[1] = f /\ l[2] = i
  BY <1>2
<1> QED BY <1>2, <1>3, <1>4

(* An instruction of a function is a location.                             *)
LEMMA LocationIntro ==
  ASSUME NEW p, WellFormed(p), NEW f \in DOMAIN p.body, NEW i \in 1 .. Len(p.body[f])
  PROVE  <<f, i>> \in Location(p)
PROOF
<1>1. i \in DOMAIN p.body[f]
  BY DEF WellFormed
<1> QED BY <1>1 DEF Location

(* The beginning and the end of a function are locations of it.            *)
LEMMA LocationsOfFunction ==
  ASSUME NEW p, WellFormed(p), NEW f \in DOMAIN p.body
  PROVE  /\ Begin(f) \in Location(p) /\ EndOf(p, f) \in Location(p)
         /\ Begin(f)[1] = f /\ EndOf(p, f)[1] = f
         /\ Instr(p, EndOf(p, f)).type = "END_FUNCTION"
PROOF
<1>1. Len(p.body[f]) \in Nat \ {0} /\ p.body[f][Len(p.body[f])].type = "END_FUNCTION"
  BY DEF WellFormed
<1>2. 1 \in 1 .. Len(p.body[f]) /\ Len(p.body[f]) \in 1 .. Len(p.body[f])
  BY <1>1
<1> QED BY <1>1, <1>2, LocationIntro DEF Begin, EndOf, Instr

(* All but the end of a function is followed by a location of it.          *)
LEMMA FollowingIs ==
  ASSUME NEW p, WellFormed(p), NEW l \in Location(p), Instr(p, l).type # "END_FUNCTION"
  PROVE  Following(l) \in Location(p) /\ Following(l)[1] = l[1]
PROOF
<1> DEFINE f == l[1]
<1>1. f \in DOMAIN p.body /\ l[2] \in 1 .. Len(p.body[f]) /\ Len(p.body[f]) \in Nat \ {0}
  BY LocationIs
<1>2. l[2] # Len(p.body[f])
  BY <1>1 DEF WellFormed, Instr
<1>3. l[2] + 1 \in 1 .. Len(p.body[f])
  BY <1>1, <1>2
<1>4. <<f, l[2] + 1>> \in Location(p)
  BY <1>1, <1>3, LocationIntro
<1> QED BY <1>4 DEF Following

(* At most two edges leave a location, to locations of the same function.  *)
LEMMA SuccessorsType ==
  ASSUME NEW p, WellFormed(p), NEW l \in Location(p)
  PROVE  LET to == get_successors(p, l)
         IN  \/ to = <<>>
             \/ to = <<to[1]>> /\ to[1] \in Location(p) /\ to[1][1] = l[1]
             \/ /\ to = <<to[1], to[2]>>
                /\ to[1] \in Location(p) /\ to[1][1] = l[1]
                /\ to[2] \in Location(p) /\ to[2][1] = l[1]
PROOF
<1> DEFINE i == Instr(p, l)
<1>0. l[1] \in DOMAIN p.body /\ l[2] \in 1 .. Len(p.body[l[1]])
  BY LocationIs
<1>1. CASE i.type = "GOTO"
  <2> DEFINE t == Target(p, l)
             n == Following(l)
  <2>1. t \in Location(p) /\ t[1] = l[1]
    <3>1. i.target \in 1 .. Len(p.body[l[1]])
      BY <1>0, <1>1 DEF WellFormed, Instr
    <3> QED BY <1>0, <3>1, LocationIntro DEF Target
  <2>2. n \in Location(p) /\ n[1] = l[1]
    BY <1>1, FollowingIs
  <2>3. get_successors(p, l) = <<t>> \o (IF i.guard.op = "true" THEN <<>> ELSE <<n>>)
    BY <1>1 DEF get_successors
  <2> HIDE DEF t, n
  <2>4. <<t>> \o <<>> = <<t>> /\ <<t>> \o <<n>> = <<t, n>>
    BY SmallConcat
  <2>5. get_successors(p, l) \in {<<t>>, <<t, n>>}
    BY <2>3, <2>4
  <2> QED BY <2>1, <2>2, <2>5
<1>2. CASE i.type = "RETURN"
  <2>1. get_successors(p, l) = <<EndOf(p, l[1])>>
    BY <1>2 DEF get_successors
  <2> QED BY <1>0, <2>1, LocationsOfFunction
<1>3. CASE i.type = "END_FUNCTION"
  BY <1>3 DEF get_successors
<1>4. CASE i.type \notin {"GOTO", "RETURN", "END_FUNCTION"}
  <2>1. get_successors(p, l) = <<Following(l)>>
    BY <1>4 DEF get_successors
  <2> QED BY <1>4, <2>1, FollowingIs
<1> QED BY <1>1, <1>2, <1>3, <1>4

-----------------------------------------------------------------------------
(* One instruction                                                         *)

(* transform, for a program and options that are given.                    *)
Effect(p, o, s, from, to) ==
  LET i == Instr(p, from)
  IN  CASE i.type = "DECL" -> havoc_rec(s, {i.x})
        [] i.type = "ASSIGN" -> apply_assignment(s, i.x, i.e, o)
        [] i.type = "GOTO" /\ Target(p, from) # Following(from) ->
             assume_rec(s, i.guard, to = Following(from), o)
        [] i.type = "ASSUME" -> assume_rec(s, i.guard, FALSE, o)
        [] i.type = "FUNCTION_CALL" -> havoc_rec(s, i.ret)
        [] OTHER -> s

(* The effect is ai.cpp's transform, in the program analysed.              *)
LEMMA EffectIsTransform ==
  ASSUME NEW s, NEW from, NEW to
  PROVE  transform(s, from, to) = Effect(program, options, s, from, to)
BY Zenon DEF transform, Effect

(* The variables an instruction names are variables of the program.        *)
LEMMA SymbolsNamed ==
  ASSUME NEW p, WellFormed(p), NEW l \in Location(p), NEW i, i = Instr(p, l)
  PROVE  /\ i.type \in {"GOTO", "ASSUME"} => GuardIn(p, i.guard)
         /\ i.type \in {"DECL", "ASSIGN"} => i.x \in Ints(p) \cup Floats(p)
         /\ i.type = "ASSIGN" => ExprIn(p, i.e)
PROOF
<1> DEFINE f == l[1]
           V == IntVars \cup FloatVars
           names == CASE i.type \in {"GOTO", "ASSUME", "ASSERT"} -> GuardVars(i.guard)
                      [] i.type = "DECL" -> {i.x}
                      [] i.type = "ASSIGN" -> {i.x} \cup ExprVars(i.e)
                      [] i.type = "FUNCTION_CALL" -> i.ret
                      [] i.type = "RETURN" -> ExprVars(i.e)
                      [] OTHER -> {}
<1>1. /\ f \in DOMAIN p.body /\ l[2] \in 1 .. Len(p.body[f]) /\ l[2] \in DOMAIN p.body[f]
      /\ i = p.body[f][l[2]]
  BY LocationIs DEF WellFormed, Instr
<1>2. /\ i.type \in {"GOTO", "ASSUME"} => GuardOK(i.guard)
      /\ i.type \in {"DECL", "ASSIGN"} => i.x \in V
      /\ i.type = "ASSIGN" => ExprOK(i.e)
  BY <1>1 DEF WellFormed
<1>3. names \subseteq Symbols(p, f)
  BY <1>1 DEF Symbols
<1>4. Symbols(p, f) \subseteq Named(p)
  BY <1>1 DEF Named
<1>5. ASSUME NEW x \in V, x \in names PROVE x \in Ints(p) \cup Floats(p)
  BY <1>3, <1>4, <1>5 DEF Ints, Floats
<1>6. ASSUME NEW e, ExprOK(e), ExprVars(e) \subseteq names PROVE ExprIn(p, e)
  <2>1. ASSUME NEW x \in ExprVars(e) PROVE x \in V
    BY <1>6 DEF ExprOK, ExprVars
  <2> HIDE DEF names, V
  <2> QED BY <1>5, <1>6, <2>1 DEF ExprIn
<1>7. CASE i.type \in {"GOTO", "ASSUME"}
  <2> DEFINE g == i.guard
  <2>1. names = GuardVars(g) /\ GuardOK(g)
    BY <1>2, <1>7
  <2> HIDE DEF names, V, g
  <2>2. ASSUME g.op = "true" PROVE GuardIn(p, g)
    BY <2>2 DEF GuardIn
  <2>3. ASSUME Comparison(g) PROVE GuardIn(p, g)
    <3>1. g.op \notin {"true", "and", "or"}
      BY <2>3 DEF Comparison, Negated
    <3>2. names = ExprVars(g.a) \cup ExprVars(g.b)
      BY <2>1, <3>1 DEF GuardVars
    <3> QED BY <1>6, <2>3, <3>2 DEF Comparison, GuardIn, CmpIn
  <2>4. ASSUME g.op \in {"and", "or"} PROVE GuardIn(p, g)
    <3>1. /\ Len(g.parts) \in Nat /\ DOMAIN g.parts = 1 .. Len(g.parts)
          /\ \A n \in DOMAIN g.parts : Comparison(g.parts[n])
      BY <2>1, <2>4 DEF GuardOK, Comparison, Negated
    <3>2. names = UNION {ExprVars(g.parts[n].a) \cup ExprVars(g.parts[n].b) : n \in DOMAIN g.parts}
      BY <2>1, <2>4 DEF GuardVars
    <3>3. ASSUME NEW n \in DOMAIN g.parts PROVE CmpIn(p, g.parts[n])
      <4>1. /\ ExprVars(g.parts[n].a) \subseteq names
            /\ ExprVars(g.parts[n].b) \subseteq names
        BY <3>2
      <4> QED BY <1>6, <3>1, <4>1 DEF Comparison, CmpIn
    <3> QED BY <2>4, <3>1, <3>3 DEF GuardIn
  <2>5. g.op = "true" \/ Comparison(g) \/ g.op \in {"and", "or"}
    BY <2>1 DEF GuardOK
  <2>6. GuardIn(p, g)
    BY <2>2, <2>3, <2>4, <2>5
  <2> QED BY <1>7, <2>6 DEF g
<1>8. CASE i.type = "DECL"
  <2>1. names = {i.x}
    BY <1>8
  <2> HIDE DEF names
  <2> QED BY <1>2, <1>5, <1>8, <2>1
<1>9. CASE i.type = "ASSIGN"
  <2>1. names = {i.x} \cup ExprVars(i.e)
    BY <1>9
  <2> HIDE DEF names
  <2>2. i.x \in Ints(p) \cup Floats(p)
    BY <1>2, <1>5, <1>9, <2>1
  <2>3. ExprIn(p, i.e)
    BY <1>2, <1>6, <1>9, <2>1
  <2> QED BY <1>9, <2>2, <2>3
<1>10. CASE i.type \notin {"GOTO", "ASSUME", "DECL", "ASSIGN"}
  BY <1>10
<1> QED BY <1>7, <1>8, <1>9, <1>10

(* What an instruction makes of a state is a state, and of an impossible   *)
(* one something impossible.                                               *)
LEMMA EffectType ==
  ASSUME NEW p, WellFormed(p), NEW o \in Settings, NEW s \in AbstractState(p, o),
         NEW l \in Location(p), NEW to
  PROVE  /\ ~s.bottom => Effect(p, o, s, l, to) \in AbstractState(p, o)
         /\ s.bottom => Effect(p, o, s, l, to).bottom
PROOF
<1> DEFINE i == Instr(p, l)
           e == Effect(p, o, s, l, to)
           aside == to = Following(l)
<1>1. CASE i.type = "DECL"
  <2>1. e = havoc_rec(s, {i.x})
    BY <1>1 DEF Effect
  <2> QED BY <2>1, HavocType
<1>2. CASE i.type = "ASSIGN"
  <2> DEFINE v == get_interval(s, i.e, i.x \in IntVars, o)
             x == i.x
  <2>1. e = update_symbol_interval(s, x, v)
    BY <1>2 DEF Effect, apply_assignment
  <2>2. x \in Ints(p) \cup Floats(p) /\ v \in Good
    BY <1>2, SymbolsNamed, ExprInterval
  <2> HIDE DEF v, x
  <2>3. /\ ~s.bottom => update_symbol_interval(s, x, v) \in AbstractState(p, o)
        /\ update_symbol_interval(s, x, v).bottom = s.bottom
    BY <2>2, UpdateType
  <2> HIDE DEF e
  <2> QED BY <2>1, <2>3 DEF e
<1>3. CASE i.type = "GOTO" /\ Target(p, l) # Following(l)
  <2>1. e = assume_rec(s, i.guard, aside, o)
    BY <1>3 DEF Effect
  <2>2. GuardIn(p, i.guard) /\ aside \in BOOLEAN
    BY <1>3, SymbolsNamed
  <2> HIDE DEF aside
  <2> QED BY <2>1, <2>2, AssumeRecType
<1>4. CASE i.type = "ASSUME"
  <2>1. e = assume_rec(s, i.guard, FALSE, o)
    BY <1>4 DEF Effect
  <2>2. GuardIn(p, i.guard)
    BY <1>4, SymbolsNamed
  <2> QED BY <2>1, <2>2, AssumeRecType
<1>5. CASE i.type = "FUNCTION_CALL"
  <2>1. e = havoc_rec(s, i.ret)
    BY <1>5 DEF Effect
  <2> QED BY <2>1, HavocType
<1>6. CASE /\ i.type \notin {"DECL", "ASSIGN", "ASSUME", "FUNCTION_CALL"}
           /\ i.type = "GOTO" => Target(p, l) = Following(l)
  <2>1. e = s
    BY <1>6 DEF Effect
  <2> QED BY <2>1
<1> QED BY <1>1, <1>2, <1>3, <1>4, <1>5, <1>6
-----------------------------------------------------------------------------
(* Merging into the states of all locations                                *)

States(p, o) == [Location(p) -> AbstractState(p, o)]

(* The states only grow, and only at the locations in changed.             *)
Grown(p, o, states, after, changed) ==
  /\ after \in States(p, o)
  /\ changed \subseteq Location(p)
  /\ \A m \in Location(p) : ~states[m].bottom \/ m \in changed => ~after[m].bottom
  /\ \A m \in Location(p) \ changed : after[m] = states[m]
  /\ ~o.narrowing => \A m \in Location(p) : Refines(states[m], after[m])

(* No step is a step.                                                      *)
LEMMA GrownReflexive ==
  ASSUME NEW p, NEW o, NEW states \in States(p, o)
  PROVE  Grown(p, o, states, states, {})
PROOF
<1>1. \A m \in Location(p) : Refines(states[m], states[m])
  BY RefinesReflexive DEF States
<1> QED BY <1>1 DEF Grown

(* Two steps are one.                                                      *)
LEMMA GrownTransitive ==
  ASSUME NEW p, NEW o, NEW a \in States(p, o), NEW b, NEW c, NEW S, NEW T,
         Grown(p, o, a, b, S), Grown(p, o, b, c, T)
  PROVE  Grown(p, o, a, c, S \cup T)
PROOF
<1>1. b \in States(p, o) /\ c \in States(p, o)
  BY DEF Grown
<1>2. ASSUME ~o.narrowing, NEW m \in Location(p) PROVE Refines(a[m], c[m])
  <2>1. Refines(a[m], b[m]) /\ Refines(b[m], c[m])
    BY <1>2 DEF Grown
  <2>2. a[m] \in AbstractState(p, o) /\ b[m] \in AbstractState(p, o) /\ c[m] \in AbstractState(p, o)
    BY <1>1, <1>2 DEF States
  <2> QED BY <2>1, <2>2, RefinesTransitive
<1>3. /\ S \cup T \subseteq Location(p)
      /\ \A m \in Location(p) : ~a[m].bottom \/ m \in S \cup T => ~c[m].bottom
      /\ \A m \in Location(p) \ (S \cup T) : c[m] = a[m]
  BY DEF Grown
<1> QED BY <1>1, <1>2, <1>3 DEF Grown

(* What a state contained is contained in what it has grown to.            *)
LEMMA GrownKeeps ==
  ASSUME NEW p, NEW o, ~o.narrowing, NEW a \in States(p, o), NEW b, NEW S, Grown(p, o, a, b, S),
         NEW m \in Location(p), NEW s, s.bottom \/ s \in AbstractState(p, o), Refines(s, a[m])
  PROVE  Refines(s, b[m])
PROOF
<1>1. CASE s.bottom
  BY <1>1 DEF Refines
<1>2. CASE s \in AbstractState(p, o)
  <2>1. Refines(a[m], b[m])
    BY DEF Grown
  <2>2. a[m] \in AbstractState(p, o) /\ b[m] \in AbstractState(p, o)
    BY DEF Grown, States
  <2> QED BY <1>2, <2>1, <2>2, RefinesTransitive
<1> QED BY <1>1, <1>2

Put(states, to, s) == [states EXCEPT ![to] = s]

(* One state is joined into.                                               *)
LEMMA JoinIntoOne ==
  ASSUME NEW p, NEW o \in Settings, NEW states \in States(p, o), NEW to \in Location(p),
         NEW s \in AbstractState(p, o), NEW j, j = Join(states[to], s, o),
         NEW after, after = Put(states, to, j.state),
         NEW changed, changed = IF j.changed THEN {to} ELSE {}
  PROVE  /\ Grown(p, o, states, after, changed)
         /\ ~j.changed => after = states
         /\ ~o.narrowing /\ OneKind(p) => Refines(s, after[to])
PROOF
<1>1. states[to] \in AbstractState(p, o)
  BY DEF States
<1>2. /\ j.state \in AbstractState(p, o)
      /\ j.changed \in BOOLEAN
      /\ ~j.changed => j.state = states[to]
      /\ j.changed => ~j.state.bottom
      /\ ~states[to].bottom => ~j.state.bottom
      /\ ~o.narrowing => Refines(states[to], j.state)
      /\ ~o.narrowing /\ OneKind(p) => Refines(s, j.state)
  BY <1>1, JoinContains
<1>3. after[to] = j.state /\ \A m \in Location(p) \ {to} : after[m] = states[m]
  BY DEF States, Put
<1>4. after \in States(p, o)
  BY <1>2 DEF States, Put
<1>5. ASSUME ~o.narrowing, NEW m \in Location(p) PROVE Refines(states[m], after[m])
  <2>1. CASE m = to
    BY <1>2, <1>3, <1>5, <2>1
  <2>2. CASE m # to
    BY <1>3, <2>2, RefinesReflexive DEF States
  <2> QED BY <2>1, <2>2
<1>6. ~j.changed => after = states
  BY <1>2 DEF States, Put
<1>7. Grown(p, o, states, after, changed)
  <2>1. CASE j.changed
    BY <1>2, <1>3, <1>4, <1>5, <2>1 DEF Grown
  <2>2. CASE ~j.changed
    BY <1>6, <2>2, GrownReflexive
  <2> QED BY <2>1, <2>2
<1> QED BY <1>2, <1>3, <1>6, <1>7

Analyses(p, o) == [state_map : States(p, o), working_set : SUBSET Location(p)]

(* From one analysis to another the states grow, and the locations where   *)
(* they do are put in the working set; they lie in the function f.         *)
Advances(p, o, f, a, b) ==
  \E changed \in SUBSET {m \in Location(p) : m[1] = f} :
    /\ Grown(p, o, a.state_map, b.state_map, changed)
    /\ b.working_set = a.working_set \cup changed

(* Two advances are one.                                                   *)
LEMMA AdvancesTransitive ==
  ASSUME NEW p, NEW o, NEW f, NEW a \in Analyses(p, o), NEW b, NEW c,
         Advances(p, o, f, a, b), Advances(p, o, f, b, c)
  PROVE  Advances(p, o, f, a, c)
PROOF
<1>1. PICK S \in SUBSET {m \in Location(p) : m[1] = f} :
        /\ Grown(p, o, a.state_map, b.state_map, S)
        /\ b.working_set = a.working_set \cup S
  BY DEF Advances
<1>2. PICK T \in SUBSET {m \in Location(p) : m[1] = f} :
        /\ Grown(p, o, b.state_map, c.state_map, T)
        /\ c.working_set = b.working_set \cup T
  BY DEF Advances
<1>3. a.state_map \in States(p, o)
  BY DEF Analyses
<1>4. Grown(p, o, a.state_map, c.state_map, S \cup T)
  BY <1>1, <1>2, <1>3, GrownTransitive
<1>5. c.working_set = a.working_set \cup (S \cup T)
  BY <1>1, <1>2
<1>6. S \cup T \in SUBSET {m \in Location(p) : m[1] = f}
  OBVIOUS
<1> QED BY <1>4, <1>5, <1>6 DEF Advances

(* Merging carries a state along an edge.                                  *)
LEMMA MergeAdvances ==
  ASSUME NEW p, p = program, NEW o \in Settings, o = options,
         NEW a \in Analyses(p, o), NEW to \in Location(p), NEW s \in AbstractState(p, o),
         NEW b, b = Merge(a, s, to)
  PROVE  /\ b \in Analyses(p, o)
         /\ Advances(p, o, to[1], a, b)
         /\ ~o.narrowing /\ OneKind(p) => Refines(s, b.state_map[to])
PROOF
<1> DEFINE j == Join(a.state_map[to], s, o)
           after == [a.state_map EXCEPT ![to] = j.state]
           changed == IF j.changed THEN {to} ELSE {}
<1>1. a.state_map \in States(p, o) /\ a.working_set \in SUBSET Location(p)
  BY DEF Analyses
<1>2. b = [state_map |-> after,
           working_set |-> IF j.changed THEN a.working_set \cup {to} ELSE a.working_set]
  BY DEF Merge, Merged
<1>3. b.state_map = after /\ b.working_set = a.working_set \cup changed
  BY <1>2
<1> HIDE DEF j
<1>4. /\ Grown(p, o, a.state_map, after, changed)
      /\ ~o.narrowing /\ OneKind(p) => Refines(s, after[to])
  <2> DEFINE st == a.state_map
  <2>1. st \in States(p, o) /\ j = Join(st[to], s, o) /\ after = Put(st, to, j.state)
    BY <1>1 DEF j, Put
  <2>0. changed = IF j.changed THEN {to} ELSE {}
    OBVIOUS
  <2> HIDE DEF after, st, changed
  <2>2. /\ Grown(p, o, st, after, changed)
        /\ ~o.narrowing /\ OneKind(p) => Refines(s, after[to])
    BY <2>0, <2>1, JoinIntoOne
  <2> QED BY <2>2 DEF st
<1>5. after \in States(p, o)
  BY <1>4 DEF Grown
<1>6. b \in Analyses(p, o)
  BY <1>1, <1>2, <1>5 DEF Analyses
<1> HIDE DEF after
<1>7. changed \in SUBSET {m \in Location(p) : m[1] = to[1]}
  OBVIOUS
<1> HIDE DEF changed
<1> QED BY <1>3, <1>4, <1>6, <1>7 DEF Advances
(* One edge of the location l.                                             *)
Edge(a, l, to) == Merge(a, transform(a.state_map[l], l, to), to)

(* An edge of a location that is reached carries its state.                *)
LEMMA EdgeAdvances ==
  ASSUME NEW p, p = program, WellFormed(p), NEW o \in Settings, o = options,
         NEW l \in Location(p), NEW a \in Analyses(p, o), ~a.state_map[l].bottom,
         NEW to \in Location(p), to[1] = l[1], NEW b, b = Edge(a, l, to)
  PROVE  /\ b \in Analyses(p, o)
         /\ ~b.state_map[l].bottom
         /\ Advances(p, o, l[1], a, b)
         /\ ~o.narrowing /\ OneKind(p) =>
              Refines(Effect(p, o, a.state_map[l], l, to), b.state_map[to])
PROOF
<1> DEFINE s == Effect(p, o, a.state_map[l], l, to)
<1>1. s \in AbstractState(p, o)
  <2>1. a.state_map[l] \in AbstractState(p, o)
    BY DEF Analyses, States
  <2> QED BY <2>1, EffectType
<1>2. b = Merge(a, s, to)
  BY EffectIsTransform DEF Edge
<1> HIDE DEF s
<1>3. /\ b \in Analyses(p, o)
      /\ Advances(p, o, to[1], a, b)
      /\ ~o.narrowing /\ OneKind(p) => Refines(s, b.state_map[to])
  BY <1>1, <1>2, MergeAdvances
<1>4. ~b.state_map[l].bottom
  BY <1>3 DEF Advances, Grown
<1> QED BY <1>3, <1>4 DEF s

(* Visiting a location follows its edges one after the other.              *)
LEMMA VisitedIs ==
  ASSUME NEW p, p = program, WellFormed(p), NEW o \in Settings, o = options,
         NEW l \in Location(p), NEW to, to = get_successors(p, l),
         NEW start \in Analyses(p, o), ~start.state_map[l].bottom,
         start = [state_map |-> state_map, working_set |-> Top.working_set \ {l}]
  PROVE  /\ to = <<>> => Visited(l) = start
         /\ to = <<to[1]>> => Visited(l) = Edge(start, l, to[1])
         /\ to = <<to[1], to[2]>> => Visited(l) = Edge(Edge(start, l, to[1]), l, to[2])
PROOF
<1> DEFINE edge(a, m) == Merge(a, transform(a.state_map[l], l, m), m)
           n == Len(to)
           S == 1 .. n
           D == {a \in Analyses(p, o) : ~a.state_map[l].bottom}
           F == [m \in S |-> [a \in D |-> edge(a, to[m])]]
           Chosen(it) ==
             it = [r \in SUBSET S |->
                     IF r = {} THEN start ELSE edge(it[r \ {Max(r)}], to[Max(r)])]
<1>1. /\ n \in Nat /\ DOMAIN to = S /\ \A m \in S : to[m] \in Location(p) /\ to[m][1] = l[1]
  BY SuccessorsType
<1>2. Visited(l) = FoldLeft(edge, start, to)
  BY DEF Visited
<1>3. FoldLeft(edge, start, to) = (CHOOSE it : Chosen(it))[S]
  BY <1>1, Zenon DEF FoldLeft, MapThenFoldSet
<1>4. \A a, m : edge(a, m) = Edge(a, l, m)
  BY DEF Edge
<1> HIDE DEF edge
<1>5. ASSUME NEW a \in D, NEW m \in S PROVE edge(a, to[m]) \in D
  <2> DEFINE b == Edge(a, l, to[m])
             there == to[m]
  <2>1. there \in Location(p) /\ there[1] = l[1]
    BY <1>1
  <2>2. b = Edge(a, l, there)
    OBVIOUS
  <2> HIDE DEF b, there, S
  <2>3. b \in Analyses(p, o) /\ ~b.state_map[l].bottom
    BY <2>1, <2>2, EdgeAdvances
  <2> QED BY <1>4, <2>3 DEF b
<1>6. start \in D /\ F \in [S -> [D -> D]]
  BY <1>5
<1>7. PICK it \in [SUBSET S -> D] : IsLeftFold(n, start, F, it)
  <2> HIDE DEF F, D, n
  <2>1. n \in Nat /\ start \in D /\ F \in [1 .. n -> [D -> D]]
    BY <1>1, <1>6
  <2> QED BY <2>1, LeftFoldExists, Zenon
<1>8. ASSUME NEW r \in SUBSET S, r # {}
      PROVE  Max(r) \in S /\ r \ {Max(r)} \in SUBSET S
  <2>1. r \in SUBSET Nat /\ \A y \in r : y <= n
    BY <1>1
  <2> QED BY <1>1, <1>8, <2>1, MaxProperties
<1>9. Chosen(it)
  <2>1. ASSUME NEW r \in SUBSET S
        PROVE  it[r] = IF r = {} THEN start ELSE edge(it[r \ {Max(r)}], to[Max(r)])
    <3>1. it[r] = IF r = {} THEN start ELSE F[Max(r)][it[r \ {Max(r)}]]
      BY <1>7 DEF IsLeftFold
    <3>2. r # {} => Max(r) \in S /\ it[r \ {Max(r)}] \in D
      BY <1>7, <1>8
    <3> HIDE DEF D
    <3> QED BY <3>1, <3>2
  <2>2. it = [r \in SUBSET S |-> it[r]]
    BY <1>7
  <2> HIDE DEF S
  <2> QED BY <2>1, <2>2
<1> DEFINE chosen == CHOOSE f : Chosen(f)
<1>10. Chosen(chosen)
  <2> HIDE DEF Chosen
  <2> QED BY <1>9
<1> HIDE DEF chosen
<1>11. /\ chosen[{}] = start
       /\ \A r \in SUBSET S : r # {} => chosen[r] = Edge(chosen[r \ {Max(r)}], l, to[Max(r)])
  BY <1>4, <1>10
<1>12. Visited(l) = chosen[S]
  BY <1>2, <1>3 DEF chosen
<1> HIDE DEF Chosen
<1>13. CASE to = <<>>
  BY <1>11, <1>12, <1>13
<1>14. CASE to = <<to[1]>>
  <2>1. n = 1 /\ S = {1}
    <3> DEFINE x == to[1]
    <3> HIDE DEF x
    <3>1. Len(<<x>>) = 1 /\ to = <<x>>
      BY <1>14 DEF x
    <3> QED BY <3>1
  <2>2. Max({1}) = 1 /\ {1} \ {1} = {}
    BY DEF Max
  <2>3. chosen[{1}] = Edge(start, l, to[1])
    <3>1. chosen[{1}] = Edge(chosen[{1} \ {Max({1})}], l, to[Max({1})])
      BY <1>11, <2>1
    <3> QED BY <1>11, <2>2, <3>1
  <2> QED BY <1>12, <1>14, <2>1, <2>3
<1>15. CASE to = <<to[1], to[2]>>
  <2>1. n = 2 /\ S = {1, 2}
    <3> DEFINE x == to[1]
               y == to[2]
    <3> HIDE DEF x, y
    <3>1. Len(<<x, y>>) = 2 /\ to = <<x, y>>
      BY <1>15 DEF x, y
    <3> QED BY <3>1
  <2>2. Max({1}) = 1 /\ {1} \ {1} = {}
    BY DEF Max
  <2>3. Max({1, 2}) = 2 /\ {1, 2} \ {2} = {1}
    <3>1. {1, 2} \in SUBSET Nat /\ \A y \in {1, 2} : y <= 2
      OBVIOUS
    <3>2. Max({1, 2}) \in {1, 2} /\ \A y \in {1, 2} : Max({1, 2}) >= y
      BY <3>1, MaxProperties
    <3> QED BY <3>2
  <2>4. chosen[{1}] = Edge(start, l, to[1])
    <3>1. chosen[{1}] = Edge(chosen[{1} \ {Max({1})}], l, to[Max({1})])
      BY <1>11, <2>1
    <3> QED BY <1>11, <2>2, <3>1
  <2>5. chosen[{1, 2}] = Edge(chosen[{1}], l, to[2])
    <3>1. chosen[{1, 2}] = Edge(chosen[{1, 2} \ {Max({1, 2})}], l, to[Max({1, 2})])
      BY <1>11, <2>1
    <3> QED BY <2>3, <3>1
  <2> QED BY <1>12, <1>15, <2>1, <2>4, <2>5
<1> QED BY <1>13, <1>14, <1>15
(* The state at l is contained where its edges lead, or where the function *)
(* called there begins.                                                    *)
Carried(p, o, states, l) ==
  IF CallIn(p, l)
    THEN LET begin == Begin(Instr(p, l).function)
         IN  Refines(Effect(p, o, states[l], l, begin), states[begin])
    ELSE \A to \in Range(get_successors(p, l)) :
           Refines(Effect(p, o, states[l], l, to), states[to])

(* What has not been put in the working set has not changed.               *)
LEMMA AdvancesUnchanged ==
  ASSUME NEW p, NEW o, NEW f, NEW a, NEW b, Advances(p, o, f, a, b),
         NEW m \in Location(p), m \notin b.working_set
  PROVE  b.state_map[m] = a.state_map[m] /\ m \notin a.working_set
BY DEF Advances, Grown

(* What contained a state contains it still.                               *)
LEMMA AdvancesKeeps ==
  ASSUME NEW p, NEW o, ~o.narrowing, NEW f, NEW a \in Analyses(p, o), NEW b,
         Advances(p, o, f, a, b), NEW m \in Location(p),
         NEW s \in AbstractState(p, o), Refines(s, a.state_map[m])
  PROVE  Refines(s, b.state_map[m])
PROOF
<1> DEFINE from == a.state_map
           into == b.state_map
<1>1. PICK S : Grown(p, o, from, into, S)
  BY DEF Advances
<1>2. from \in States(p, o) /\ Refines(s, from[m])
  BY DEF Analyses
<1> HIDE DEF from, into
<1>3. Refines(s, into[m])
  BY <1>1, <1>2, GrownKeeps
<1> QED BY <1>3 DEF into

(* A visit carries the state along all edges, unless it changes that state *)
(* itself, which is then pending again (ai.cpp:90-167).                    *)
LEMMA VisitedCarries ==
  ASSUME NEW p, p = program, WellFormed(p), NEW o \in Settings, o = options,
         NEW l \in Location(p), NEW start \in Analyses(p, o), ~start.state_map[l].bottom,
         start = [state_map |-> state_map, working_set |-> Top.working_set \ {l}],
         NEW b, b = Visited(l)
  PROVE  /\ Advances(p, o, l[1], start, b)
         /\ b \in Analyses(p, o)
         /\ ~o.narrowing /\ OneKind(p) /\ ~CallIn(p, l) /\ l \notin b.working_set =>
              Carried(p, o, b.state_map, l)
PROOF
<1> DEFINE to == get_successors(p, l)
           Done1(a, t) == Refines(Effect(p, o, a.state_map[l], l, t), a.state_map[t])
<1>1. CASE to = <<>>
  <2>1. b = start
    BY <1>1, VisitedIs
  <2>2. Advances(p, o, l[1], start, start)
    BY GrownReflexive DEF Advances, Analyses
  <2>3. Range(to) = {}
    BY <1>1 DEF Range
  <2> QED BY <2>1, <2>2, <2>3 DEF Carried
<1>2. CASE to = <<to[1]>> /\ to[1] \in Location(p) /\ to[1][1] = l[1]
  <2> DEFINE t == to[1]
  <2>0. to = <<t>> /\ t \in Location(p) /\ t[1] = l[1]
    BY <1>2
  <2>1. b = Edge(start, l, t)
    BY <1>2, VisitedIs
  <2> HIDE DEF t
  <2>2. /\ b \in Analyses(p, o)
        /\ Advances(p, o, l[1], start, b)
        /\ ~o.narrowing /\ OneKind(p) =>
             Refines(Effect(p, o, start.state_map[l], l, t), b.state_map[t])
    BY <2>0, <2>1, EdgeAdvances
  <2>3. l \notin b.working_set => b.state_map[l] = start.state_map[l]
    BY <2>2, AdvancesUnchanged
  <2>4. Range(to) = {t}
    <3> HIDE DEF to
    <3> QED BY <2>0 DEF Range
  <2> QED BY <2>2, <2>3, <2>4 DEF Carried
<1>3. CASE /\ to = <<to[1], to[2]>>
           /\ to[1] \in Location(p) /\ to[1][1] = l[1]
           /\ to[2] \in Location(p) /\ to[2][1] = l[1]
  <2> DEFINE t == to[1]
             u == to[2]
             a == Edge(start, l, t)
  <2>0. /\ to = <<t, u>> /\ t \in Location(p) /\ t[1] = l[1] /\ u \in Location(p) /\ u[1] = l[1]
    BY <1>3
  <2>1. b = Edge(a, l, u)
    BY <1>3, VisitedIs
  <2> HIDE DEF t, u, a
  <2>2. /\ a \in Analyses(p, o) /\ ~a.state_map[l].bottom
        /\ Advances(p, o, l[1], start, a)
        /\ ~o.narrowing /\ OneKind(p) =>
             Refines(Effect(p, o, start.state_map[l], l, t), a.state_map[t])
    BY <2>0, EdgeAdvances DEF a
  <2>3. /\ b \in Analyses(p, o)
        /\ Advances(p, o, l[1], a, b)
        /\ ~o.narrowing /\ OneKind(p) =>
             Refines(Effect(p, o, a.state_map[l], l, u), b.state_map[u])
    BY <2>0, <2>1, <2>2, EdgeAdvances
  <2>4. Advances(p, o, l[1], start, b)
    BY <2>2, <2>3, AdvancesTransitive
  <2>5. l \notin b.working_set =>
          a.state_map[l] = start.state_map[l] /\ b.state_map[l] = a.state_map[l]
    BY <2>2, <2>3, AdvancesUnchanged
  <2>6. ~o.narrowing /\ OneKind(p) =>
          Refines(Effect(p, o, start.state_map[l], l, t), b.state_map[t])
    <3> DEFINE e == Effect(p, o, start.state_map[l], l, t)
    <3>1. e \in AbstractState(p, o)
      <4>1. start.state_map[l] \in AbstractState(p, o)
        BY DEF Analyses, States
      <4> QED BY <4>1, EffectType
    <3> HIDE DEF e
    <3>2. ~o.narrowing /\ OneKind(p) => Refines(e, a.state_map[t])
      BY <2>2 DEF e
    <3>3. ~o.narrowing /\ OneKind(p) => Refines(e, b.state_map[t])
      BY <2>0, <2>2, <2>3, <3>1, <3>2, AdvancesKeeps
    <3> QED BY <3>3 DEF e
  <2>7. Range(to) = {t, u}
    <3> HIDE DEF to
    <3> QED BY <2>0 DEF Range
  <2> QED BY <2>3, <2>4, <2>5, <2>6, <2>7 DEF Carried
<1> QED BY <1>1, <1>2, <1>3, SuccessorsType

-----------------------------------------------------------------------------
(* The stack                                                               *)

Frames(p) == [working_set : SUBSET Location(p), call : Location(p) \cup {NoCall}]

FunctionIn(p, st, n) == IF n = 1 THEN Main ELSE Instr(p, st[n].call).function

(* The pending locations of a fixpoint are reached locations of the        *)
(* function it is computed for, which is called in the one below.          *)
StackOK(p, states, st) ==
  /\ st \in Seq(Frames(p))
  /\ \A n \in 1 .. Len(st) : \A m \in st[n].working_set :
       m[1] = FunctionIn(p, st, n) /\ ~states[m].bottom
  /\ \A n \in 2 .. Len(st) :
       /\ st[n].call \in Location(p) /\ CallIn(p, st[n].call)
       /\ st[n].call[1] = FunctionIn(p, st, n - 1)

PendingIn(st) == UNION {st[n].working_set : n \in DOMAIN st}

(* The calls whose callee's fixpoint is being computed.                    *)
InProgress(st) == {st[n].call : n \in 2 .. Len(st)}

LastFunction(p, st) == FunctionIn(p, st, Len(st))

(* new is st with the frame for its top one, while nothing else that was   *)
(* pending is forgotten.                                                   *)
WithTop(p, after, st, new, frame) ==
  /\ StackOK(p, after, new) /\ new # <<>>
  /\ frame.working_set \subseteq PendingIn(new)
  /\ PendingIn(st) \subseteq PendingIn(new) \cup Last(st).working_set
  /\ InProgress(new) = InProgress(st)
  /\ LastFunction(p, new) = LastFunction(p, st)

(* The same with a fixpoint that begins at begin, for the call, on top.    *)
WithCall(p, after, st, new, frame, call, begin) ==
  /\ StackOK(p, after, new) /\ new # <<>>
  /\ frame.working_set \subseteq PendingIn(new) /\ begin \in PendingIn(new)
  /\ PendingIn(st) \subseteq PendingIn(new) \cup Last(st).working_set
  /\ InProgress(new) = InProgress(st) \cup {call}

(* The top of the stack is replaced while the states grow.                 *)
LEMMA TopReplaced ==
  ASSUME NEW p, NEW o, NEW states, NEW after, NEW st, StackOK(p, states, st), st # <<>>,
         NEW changed, Grown(p, o, states, after, changed),
         \A m \in changed : m[1] = FunctionIn(p, st, Len(st)),
         NEW frame \in Frames(p), frame.call = Last(st).call,
         frame.working_set \subseteq Last(st).working_set \cup changed,
         NEW new, new = Append(Front(st), frame)
  PROVE  WithTop(p, after, st, new, frame)
PROOF
<1> DEFINE k == Len(st)
<1>0. /\ frame.call = st[k].call /\ frame.working_set \subseteq st[k].working_set \cup changed
      /\ new = Append(SubSeq(st, 1, k - 1), frame)
  BY DEF Last, Front
<1>1. st \in Seq(Frames(p))
  BY DEF StackOK
<1>2. /\ new \in Seq(Frames(p) \cup {frame}) /\ Len(new) = k /\ k \in Nat \ {0}
      /\ \A m \in 1 .. k - 1 : new[m] = st[m]
      /\ new[k] = frame
  BY <1>0, <1>1, ReplaceTop
<1>3. new \in Seq(Frames(p))
  <2>1. Frames(p) \cup {frame} = Frames(p)
    OBVIOUS
  <2> QED BY <1>2, <2>1
<1>4. /\ DOMAIN new = 1 .. k /\ DOMAIN st = 1 .. k
      /\ \A n \in 1 .. k : st[n] \in Frames(p)
  BY <1>1, <1>2, <1>3, LenProperties, ElementOfSeq
<1> HIDE DEF k
<1>5. \A n \in 1 .. k : new[n].call = st[n].call
  BY <1>0, <1>2
<1>6. \A n \in 1 .. k : FunctionIn(p, new, n) = FunctionIn(p, st, n)
  BY <1>5 DEF FunctionIn
<1>7. ASSUME NEW n \in 1 .. k, NEW m \in new[n].working_set
      PROVE  m[1] = FunctionIn(p, new, n) /\ ~after[m].bottom
  <2>1. m \in st[n].working_set \/ (n = k /\ m \in changed)
    BY <1>0, <1>2, <1>7
  <2>2. CASE m \in st[n].working_set
    <3>1. m \in Location(p)
      BY <1>4, <2>2 DEF Frames
    <3>2. m[1] = FunctionIn(p, st, n) /\ ~states[m].bottom
      BY <2>2 DEF StackOK, k
    <3> QED BY <1>6, <3>1, <3>2 DEF Grown
  <2>3. CASE n = k /\ m \in changed
    BY <1>6, <2>3 DEF Grown, k
  <2> QED BY <2>1, <2>2, <2>3
<1>8. ASSUME NEW n \in 2 .. k
      PROVE  /\ new[n].call \in Location(p) /\ CallIn(p, new[n].call)
             /\ new[n].call[1] = FunctionIn(p, new, n - 1)
  <2>1. n \in 1 .. k /\ n - 1 \in 1 .. k
    BY <1>2
  <2>2. /\ st[n].call \in Location(p) /\ CallIn(p, st[n].call)
        /\ st[n].call[1] = FunctionIn(p, st, n - 1)
    BY DEF StackOK, k
  <2> QED BY <1>5, <1>6, <2>1, <2>2
<1>9. StackOK(p, after, new)
  BY <1>2, <1>3, <1>7, <1>8 DEF StackOK
<1>10. frame.working_set \subseteq PendingIn(new)
  <2>1. k \in DOMAIN new /\ new[k] = frame
    BY <1>2, <1>4
  <2> QED BY <2>1 DEF PendingIn
<1>11. ASSUME NEW m \in PendingIn(st)
       PROVE  m \in PendingIn(new) \cup st[k].working_set
  <2>1. PICK n \in 1 .. k : m \in st[n].working_set
    BY <1>4 DEF PendingIn
  <2>2. CASE n = k
    BY <2>1, <2>2
  <2>3. CASE n # k
    <3>1. n \in DOMAIN new /\ new[n] = st[n]
      BY <1>2, <1>4, <2>3
    <3> QED BY <2>1, <3>1 DEF PendingIn
  <2> QED BY <2>2, <2>3
<1>12. new # <<>> /\ InProgress(new) = InProgress(st) /\ LastFunction(p, new) = LastFunction(p, st)
  <2>1. k = Len(st) /\ 2 .. k \subseteq 1 .. k /\ k \in 1 .. k
    BY <1>2 DEF k
  <2>2. new # <<>>
    BY <1>2, <1>3, EmptySeq
  <2>3. InProgress(new) = InProgress(st)
    <3>1. \A n \in 2 .. k : new[n].call = st[n].call
      BY <1>5, <2>1
    <3>2. {new[n].call : n \in 2 .. k} = {st[n].call : n \in 2 .. k}
      BY <3>1
    <3> QED BY <1>2, <2>1, <3>2 DEF InProgress
  <2>4. LastFunction(p, new) = LastFunction(p, st)
    BY <1>2, <1>6, <2>1 DEF LastFunction
  <2> QED BY <2>2, <2>3, <2>4
<1> QED BY <1>9, <1>10, <1>11, <1>12 DEF k, Last, WithTop


(* The last element is replaced by two.                                    *)
PutTwo(st, a, b) == Front(st) \o <<a, b>>

(* A fixpoint of a callee is started.                                      *)
LEMMA Pushed ==
  ASSUME NEW p, NEW o, NEW states, NEW after, NEW st, StackOK(p, states, st), st # <<>>,
         NEW changed, Grown(p, o, states, after, changed),
         NEW frame \in Frames(p), frame.call = Last(st).call,
         frame.working_set \subseteq Last(st).working_set,
         NEW call \in Location(p), CallIn(p, call), call[1] = LastFunction(p, st),
         NEW f, f = Instr(p, call).function,
         NEW begin \in Location(p), begin = Begin(f), ~after[begin].bottom,
         NEW callee \in Frames(p), callee = Frame(f, call),
         NEW new, new = PutTwo(st, frame, callee)
  PROVE  WithCall(p, after, st, new, frame, call, begin)
PROOF
<1> DEFINE k == Len(st)
<1>1. st \in Seq(Frames(p)) /\ k \in Nat \ {0} /\ k \in 1 .. Len(st)
  <2>1. st \in Seq(Frames(p))
    BY DEF StackOK
  <2> QED BY <2>1, EmptySeq, LenProperties
<1>2. /\ new \in Seq(Frames(p) \cup {frame, callee}) /\ Len(new) = k + 1
      /\ \A m \in 1 .. k - 1 : new[m] = st[m]
      /\ new[k] = frame /\ new[k + 1] = callee
  <2>1. new = SubSeq(st, 1, k - 1) \o <<frame, callee>>
    BY DEF Front, PutTwo
  <2> DEFINE R == Frames(p)
  <2>2. st \in Seq(R) /\ k \in 1 .. Len(st)
    BY <1>1
  <2> HIDE DEF k, R
  <2>3. /\ new \in Seq(R \cup {frame, callee}) /\ Len(new) = k + 1
        /\ \A m \in 1 .. k - 1 : new[m] = st[m]
        /\ new[k] = frame /\ new[k + 1] = callee
    BY ONLY <2>1, <2>2, ReplaceByTwo
  <2> QED BY <2>3 DEF R
<1>3. new \in Seq(Frames(p))
  <2>1. Frames(p) \cup {frame, callee} = Frames(p)
    OBVIOUS
  <2> QED BY <1>2, <2>1
<1>4. /\ DOMAIN new = 1 .. k + 1 /\ DOMAIN st = 1 .. k
      /\ \A n \in 1 .. k : st[n] \in Frames(p)
  BY <1>1, <1>2, <1>3, LenProperties, ElementOfSeq
<1>0. /\ frame.call = st[k].call /\ frame.working_set \subseteq st[k].working_set
      /\ call[1] = FunctionIn(p, st, k)
      /\ \A n \in 1 .. k : \A m \in st[n].working_set :
           m[1] = FunctionIn(p, st, n) /\ ~states[m].bottom
      /\ \A n \in 2 .. k :
           /\ st[n].call \in Location(p) /\ CallIn(p, st[n].call)
           /\ st[n].call[1] = FunctionIn(p, st, n - 1)
      /\ callee.working_set = {begin} /\ callee.call = call
  BY DEF StackOK, Last, LastFunction, Frame
<1> HIDE DEF k
<1>5. \A n \in 1 .. k : new[n].call = st[n].call /\ new[n].working_set \subseteq st[n].working_set
  BY <1>0, <1>1, <1>2
<1>6. \A n \in 1 .. k : FunctionIn(p, new, n) = FunctionIn(p, st, n)
  BY <1>5 DEF FunctionIn
<1>7. begin[1] = FunctionIn(p, new, k + 1)
  <2>1. k + 1 # 1
    BY <1>1
  <2>2. new[k + 1].call = call
    BY <1>0, <1>2
  <2> QED BY <2>1, <2>2 DEF FunctionIn, Begin
<1>8. ASSUME NEW n \in 1 .. k + 1, NEW m \in new[n].working_set
      PROVE  m[1] = FunctionIn(p, new, n) /\ ~after[m].bottom
  <2>1. CASE n = k + 1
    BY <1>0, <1>2, <1>7, <1>8, <2>1
  <2>2. CASE n # k + 1
    <3>1. n \in 1 .. k
      BY <1>1, <2>2
    <3>2. m \in st[n].working_set
      BY <1>5, <1>8, <3>1
    <3>3. m \in Location(p)
      BY <1>4, <3>1, <3>2 DEF Frames
    <3> QED BY <1>0, <1>6, <3>1, <3>2, <3>3 DEF Grown
  <2> QED BY <2>1, <2>2
<1>9. ASSUME NEW n \in 2 .. k + 1
      PROVE  /\ new[n].call \in Location(p) /\ CallIn(p, new[n].call)
             /\ new[n].call[1] = FunctionIn(p, new, n - 1)
  <2>1. CASE n = k + 1
    <3>1. n - 1 = k /\ k \in 1 .. k
      BY <1>1, <2>1
    <3> QED BY <1>0, <1>2, <1>6, <2>1, <3>1
  <2>2. CASE n # k + 1
    <3>1. n \in 1 .. k /\ n \in 2 .. k /\ n - 1 \in 1 .. k
      BY <1>1, <2>2
    <3> QED BY <1>0, <1>5, <1>6, <3>1
  <2> QED BY <2>1, <2>2
<1>10. StackOK(p, after, new)
  BY <1>2, <1>3, <1>8, <1>9 DEF StackOK
<1>11. frame.working_set \subseteq PendingIn(new) /\ begin \in PendingIn(new)
  <2>1. k \in DOMAIN new /\ new[k] = frame /\ k + 1 \in DOMAIN new /\ new[k + 1] = callee
    BY <1>1, <1>2, <1>4
  <2> QED BY <1>0, <2>1 DEF PendingIn
<1>12. ASSUME NEW m \in PendingIn(st)
       PROVE  m \in PendingIn(new) \cup st[k].working_set
  <2>1. PICK n \in 1 .. k : m \in st[n].working_set
    BY <1>4 DEF PendingIn
  <2>2. CASE n = k
    BY <2>1, <2>2
  <2>3. CASE n # k
    <3>1. n \in DOMAIN new /\ new[n] = st[n]
      BY <1>1, <1>2, <1>4, <2>3
    <3> QED BY <2>1, <3>1 DEF PendingIn
  <2> QED BY <2>2, <2>3
<1>13. new # <<>> /\ InProgress(new) = InProgress(st) \cup {call}
  <2>1. k = Len(st) /\ 2 .. k \subseteq 1 .. k /\ 2 .. k + 1 = (2 .. k) \cup {k + 1}
    BY <1>1 DEF k
  <2>2. new # <<>>
    BY <1>1, <1>2, <1>3, EmptySeq
  <2>3. InProgress(new) = {new[n].call : n \in 2 .. k} \cup {new[k + 1].call}
    BY <1>2, <2>1 DEF InProgress
  <2>4. {new[n].call : n \in 2 .. k} = InProgress(st)
    BY <1>5, <2>1 DEF InProgress
  <2> QED BY <1>0, <1>2, <2>2, <2>3, <2>4
<1> QED BY <1>10, <1>11, <1>12, <1>13 DEF k, Last, WithCall

Nested(st) == Len(st) > 1
Caller(st) == st[Len(st) - 1]
BelowCaller(st) == SubSeq(st, 1, Len(st) - 2)

(* A fixpoint of a callee is complete: the frame below is the top one.     *)
LEMMA Popped ==
  ASSUME NEW p, NEW states, NEW st, StackOK(p, states, st), Nested(st),
         NEW call, call = Last(st).call,
         Last(st).working_set = {}, NEW below, below = Front(st)
  PROVE  /\ StackOK(p, states, below)
         /\ below # <<>>
         /\ Last(below) = Caller(st)
         /\ Front(below) = BelowCaller(st)
         /\ PendingIn(below) = PendingIn(st)
         /\ call \in Location(p) /\ CallIn(p, call)
         /\ call[1] = LastFunction(p, below)
         /\ InProgress(st) = InProgress(below) \cup {call}
PROOF
<1> DEFINE k == Len(st)
<1>1. st \in Seq(Frames(p)) /\ k \in Nat /\ k > 1
  <2>1. st \in Seq(Frames(p))
    BY DEF StackOK
  <2> QED BY <2>1, LenProperties DEF Nested
<1>2. \A i \in 1 .. k : st[i] \in Frames(p)
  BY <1>1, ElementOfSeq
<1>0. /\ st[k].working_set = {} /\ call = st[k].call
      /\ \A n \in 1 .. k : \A m \in st[n].working_set :
           m[1] = FunctionIn(p, st, n) /\ ~states[m].bottom
      /\ \A n \in 2 .. k :
           /\ st[n].call \in Location(p) /\ CallIn(p, st[n].call)
           /\ st[n].call[1] = FunctionIn(p, st, n - 1)
      /\ below = SubSeq(st, 1, k - 1) /\ DOMAIN st = 1 .. k
  BY <1>1, LenProperties DEF StackOK, Last, Front
<1> HIDE DEF k
<1>3. below \in Seq(Frames(p)) /\ Len(below) = k - 1 /\ \A i \in 1 .. k - 1 : below[i] = st[i]
  <2>1. \A i \in 1 .. k - 1 : st[i] \in Frames(p)
    BY <1>1, <1>2
  <2> QED BY <1>0, <1>1, <2>1, SubSeqProperties
<1>4. below # <<>> /\ below[k - 1] = st[k - 1] /\ DOMAIN below = 1 .. k - 1
  BY <1>1, <1>3, EmptySeq, LenProperties
<1>5. \A n \in 1 .. k - 1 : FunctionIn(p, below, n) = FunctionIn(p, st, n)
  BY <1>3 DEF FunctionIn
<1>6. StackOK(p, states, below)
  <2>1. \A n \in 1 .. k - 1 : n \in 1 .. k
    BY <1>1
  <2>2. \A n \in 2 .. k - 1 : n \in 2 .. k /\ n \in 1 .. k - 1 /\ n - 1 \in 1 .. k - 1
    BY <1>1
  <2>3. \A n \in 1 .. k - 1 : \A m \in below[n].working_set :
          m[1] = FunctionIn(p, below, n) /\ ~states[m].bottom
    BY <1>0, <1>3, <1>5, <2>1
  <2>4. \A n \in 2 .. k - 1 :
          /\ below[n].call \in Location(p) /\ CallIn(p, below[n].call)
          /\ below[n].call[1] = FunctionIn(p, below, n - 1)
    BY <1>0, <1>3, <1>5, <2>2
  <2> QED BY <1>3, <2>3, <2>4 DEF StackOK
<1>7. SubSeq(below, 1, k - 2) = SubSeq(st, 1, k - 2)
  <2> DEFINE n == k - 2
             a == SubSeq(below, 1, n)
             b == SubSeq(st, 1, n)
  <2>1. n \in Nat /\ \A i \in 1 .. n : st[i] \in Frames(p) /\ below[i] = st[i]
    BY <1>1, <1>2, <1>3
  <2> HIDE DEF n
  <2>2. \A i \in 1 .. n : below[i] \in Frames(p)
    BY <2>1
  <2>3. a \in Seq(Frames(p)) /\ Len(a) = n /\ \A i \in 1 .. n : a[i] = below[i]
    BY ONLY <2>1, <2>2, SubSeqProperties
  <2>4. b \in Seq(Frames(p)) /\ Len(b) = n /\ \A i \in 1 .. n : b[i] = st[i]
    BY <2>1, SubSeqProperties
  <2> HIDE DEF a, b
  <2>5. a = b
    BY <2>1, <2>3, <2>4, SeqEqual
  <2> QED BY <2>5 DEF a, b, n
<1>8. PendingIn(below) = PendingIn(st)
  <2>1. ASSUME NEW m \in PendingIn(st) PROVE m \in PendingIn(below)
    <3>1. PICK n \in 1 .. k : m \in st[n].working_set
      BY <1>0 DEF PendingIn
    <3>2. n \in 1 .. k - 1
      BY <1>0, <1>1, <3>1
    <3> QED BY <1>3, <1>4, <3>1, <3>2 DEF PendingIn
  <2>2. ASSUME NEW m \in PendingIn(below) PROVE m \in PendingIn(st)
    <3>1. PICK n \in 1 .. k - 1 : m \in below[n].working_set
      BY <1>4 DEF PendingIn
    <3>2. n \in DOMAIN st /\ m \in st[n].working_set
      BY <1>0, <1>1, <1>3, <3>1
    <3> QED BY <3>2 DEF PendingIn
  <2> QED BY <2>1, <2>2
<1>9. /\ call \in Location(p) /\ CallIn(p, call)
      /\ call[1] = FunctionIn(p, below, k - 1)
  <2>1. k \in 2 .. k /\ k - 1 \in 1 .. k - 1
    BY <1>1
  <2> QED BY <1>0, <1>5, <2>1
<1>10. Len(below) - 1 = k - 2
  BY <1>1, <1>3
<1>11. Last(below) = Caller(st) /\ Front(below) = BelowCaller(st)
  BY <1>3, <1>4, <1>7, <1>10 DEF k, Last, Front, Caller, BelowCaller
<1>12. InProgress(st) = InProgress(below) \cup {call}
  <2>1. k = Len(st) /\ 2 .. k - 1 \subseteq 1 .. k - 1 /\ 2 .. k = (2 .. k - 1) \cup {k}
    BY <1>1 DEF k
  <2>2. InProgress(st) = {st[n].call : n \in 2 .. k - 1} \cup {st[k].call}
    BY <2>1 DEF InProgress
  <2>3. {st[n].call : n \in 2 .. k - 1} = InProgress(below)
    BY <1>3, <2>1 DEF InProgress
  <2> QED BY <1>0, <2>2, <2>3
<1> QED BY <1>3, <1>4, <1>6, <1>8, <1>9, <1>11, <1>12 DEF LastFunction

(* The edge from the end of a function to what follows a call.             *)
LEMMA ReturnAdvances ==
  ASSUME NEW p, p = program, WellFormed(p), NEW o \in Settings, o = options,
         NEW states \in States(p, o), NEW frame \in Frames(p),
         NEW call \in Location(p), CallIn(p, call),
         NEW r, r = ReturnEdge(states, frame, call)
  PROVE  \E changed \in SUBSET {m \in Location(p) : m[1] = call[1]} :
           /\ Grown(p, o, states, r.state_map, changed)
           /\ r.frame \in Frames(p) /\ r.frame.call = frame.call
           /\ r.frame.working_set = frame.working_set \cup changed
           /\ ~o.narrowing /\ OneKind(p) =>
                Refines(states[EndOf(p, Instr(p, call).function)], r.state_map[Following(call)])
PROOF
<1> DEFINE end == EndOf(p, Instr(p, call).function)
           next == Following(call)
           s == transform(states[end], end, next)
           here == [state_map |-> states, working_set |-> frame.working_set]
           after == IF states[end].bottom THEN here ELSE Merge(here, s, next)
<1>1. /\ end \in Location(p) /\ Instr(p, end).type = "END_FUNCTION"
      /\ next \in Location(p) /\ next[1] = call[1]
  BY LocationsOfFunction, FollowingIs DEF CallIn
<1>2. r = [state_map |-> after.state_map,
           frame |-> [frame EXCEPT !.working_set = after.working_set]]
  BY DEF ReturnEdge
<1>3. s = states[end]
  <2>1. s = Effect(p, o, states[end], end, next)
    BY EffectIsTransform
  <2> QED BY <1>1, <2>1 DEF Effect
<1>4. here \in Analyses(p, o)
  BY DEF Analyses, Frames
<1> HIDE DEF end, next, s, here
<1>5. /\ after \in Analyses(p, o)
      /\ Advances(p, o, call[1], here, after)
      /\ ~o.narrowing /\ OneKind(p) => Refines(states[end], after.state_map[next])
  <2>1. CASE states[end].bottom
    <3>1. after = here
      BY <2>1
    <3>2. Grown(p, o, here.state_map, here.state_map, {})
      BY <1>4, GrownReflexive DEF Analyses
    <3>3. Advances(p, o, call[1], here, here)
      BY <3>2 DEF Advances
    <3> QED BY <1>4, <2>1, <3>1, <3>3 DEF Refines
  <2>2. CASE ~states[end].bottom
    <3> DEFINE b == Merge(here, s, next)
    <3>1. after = b
      BY <2>2
    <3>2. s \in AbstractState(p, o)
      BY <1>1, <1>3 DEF States
    <3> HIDE DEF b, after
    <3>3. /\ b \in Analyses(p, o) /\ Advances(p, o, next[1], here, b)
          /\ ~o.narrowing /\ OneKind(p) => Refines(s, b.state_map[next])
      BY <1>1, <1>4, <3>2, MergeAdvances DEF b
    <3> QED BY <1>1, <1>3, <3>1, <3>3
  <2> QED BY <2>1, <2>2
<1> HIDE DEF after
<1>6. here.state_map = states /\ here.working_set = frame.working_set
  BY DEF here
<1>7. PICK changed \in SUBSET {m \in Location(p) : m[1] = call[1]} :
        /\ Grown(p, o, states, after.state_map, changed)
        /\ after.working_set = frame.working_set \cup changed
  BY <1>5, <1>6 DEF Advances
<1>8. r.state_map = after.state_map /\ r.frame = [frame EXCEPT !.working_set = after.working_set]
  BY <1>2
<1>9. r.frame \in Frames(p) /\ r.frame.call = frame.call /\ r.frame.working_set = after.working_set
  <2>1. after.working_set \in SUBSET Location(p)
    BY <1>5 DEF Analyses
  <2> QED BY <1>8, <2>1 DEF Frames
<1>10. ~o.narrowing /\ OneKind(p) =>
         Refines(states[EndOf(p, Instr(p, call).function)], r.state_map[Following(call)])
  BY <1>5, <1>8 DEF end, next
<1> QED BY <1>7, <1>8, <1>9, <1>10
-----------------------------------------------------------------------------
(* The invariant                                                           *)

AnalysisInv ==
  /\ \E c \in Cases : program = c.program /\ options = c.options
  /\ state_map \in States(program, options)
  /\ StackOK(program, state_map, stack)
  /\ ~options.narrowing /\ OneKind(program) =>
       \A l \in Location(program) \ PendingIn(stack) : Carried(program, options, state_map, l)

(* What a step of the analysis does to the states and the stack: they grow *)
(* where they become pending, and one location is done with.  If that is a *)
(* call, the end of its callee is contained in what follows it.            *)
Proceeds ==
  \E changed, l :
    /\ Grown(program, options, state_map, state_map', changed)
    /\ changed \subseteq PendingIn(stack')
    /\ PendingIn(stack) \subseteq PendingIn(stack') \cup {l}
    /\ InProgress(stack) \subseteq InProgress(stack') \cup {l}
    /\ stack' # <<>>
    /\ ~options.narrowing /\ OneKind(program) /\ CallIn(program, l) /\ l \notin InProgress(stack') =>
         /\ l[1] = LastFunction(program, stack')
         /\ Refines(state_map[EndOf(program, Instr(program, l).function)], state_map'[Following(l)])

(* The programs and the options are what ProgramAssumption says.           *)
LEMMA CaseType ==
  ASSUME \E c \in Cases : program = c.program /\ options = c.options
  PROVE  WellFormed(program) /\ options \in Settings
BY ProgramAssumption DEF Settings

(* What was carried stays so, when the states that grow become pending.    *)
LEMMA CarriedStays ==
  ASSUME NEW p, WellFormed(p), NEW o \in Settings, ~o.narrowing,
         NEW states \in States(p, o), NEW after, NEW changed, Grown(p, o, states, after, changed),
         NEW l \in Location(p), l \notin changed, Carried(p, o, states, l)
  PROVE  Carried(p, o, after, l)
PROOF
<1>1. after[l] = states[l]
  BY DEF Grown
<1>2. states[l] \in AbstractState(p, o)
  BY DEF States
<1>3. ASSUME NEW to \in Location(p), Refines(Effect(p, o, states[l], l, to), states[to])
      PROVE  Refines(Effect(p, o, after[l], l, to), after[to])
  <2> DEFINE e == Effect(p, o, states[l], l, to)
  <2>1. e.bottom \/ e \in AbstractState(p, o)
    BY <1>2, EffectType
  <2>2. Refines(e, states[to])
    BY <1>3
  <2> HIDE DEF e
  <2>3. Refines(e, after[to])
    BY <2>1, <2>2, GrownKeeps
  <2> QED BY <1>1, <2>3 DEF e
<1>4. CASE CallIn(p, l)
  <2> DEFINE begin == Begin(Instr(p, l).function)
  <2>1. begin \in Location(p)
    BY <1>4, LocationsOfFunction DEF CallIn
  <2> QED BY <1>3, <1>4, <2>1 DEF Carried
<1>5. CASE ~CallIn(p, l)
  <2>1. ASSUME NEW to \in Range(get_successors(p, l)) PROVE to \in Location(p)
    <3> DEFINE succ == get_successors(p, l)
    <3>1. PICK n \in DOMAIN succ : to = succ[n]
      BY DEF Range
    <3>2. \A m \in DOMAIN succ : succ[m] \in Location(p)
      BY SuccessorsType
    <3> QED BY <3>1, <3>2
  <2> QED BY <1>3, <1>5, <2>1 DEF Carried
<1> QED BY <1>4, <1>5

(* One step keeps the invariant when the states grow where the work set    *)
(* does, and what leaves the work set has been carried.                    *)
LEMMA StepKeeps ==
  ASSUME AnalysisInv, program' = program, options' = options,
         NEW changed, Grown(program, options, state_map, state_map', changed),
         StackOK(program, state_map', stack'),
         changed \subseteq PendingIn(stack'),
         NEW done, PendingIn(stack) \subseteq PendingIn(stack') \cup done,
         ~options.narrowing /\ OneKind(program) =>
           \A l \in done \ PendingIn(stack') : Carried(program, options, state_map', l)
  PROVE  AnalysisInv'
PROOF
<1>1. WellFormed(program) /\ options \in Settings /\ state_map \in States(program, options)
  BY CaseType DEF AnalysisInv
<1>2. \E c \in Cases : program' = c.program /\ options' = c.options
  BY DEF AnalysisInv
<1>3. state_map' \in States(program', options') /\ StackOK(program', state_map', stack')
  BY DEF Grown
<1>4. ASSUME ~options.narrowing, OneKind(program),
             NEW l \in Location(program) \ PendingIn(stack')
      PROVE  Carried(program, options, state_map', l)
  <2>1. CASE l \in done
    BY <1>4, <2>1
  <2>2. CASE l \notin done
    <3>1. l \notin PendingIn(stack) /\ l \notin changed
      BY <2>2
    <3>2. Carried(program, options, state_map, l)
      BY <1>4, <3>1 DEF AnalysisInv
    <3> QED BY <1>1, <1>4, <3>1, <3>2, CarriedStays
  <2> QED BY <2>1, <2>2
<1>5. ~options'.narrowing /\ OneKind(program') =>
        \A l \in Location(program') \ PendingIn(stack') : Carried(program', options', state_map', l)
  BY <1>4
<1> QED BY <1>2, <1>3, <1>5 DEF AnalysisInv

(* At first only the beginning of main is reached, and pending.            *)
LEMMA InitInv == Init => AnalysisInv
PROOF
<1> SUFFICES ASSUME Init PROVE AnalysisInv
  OBVIOUS
<1>1. \E c \in Cases : program = c.program /\ options = c.options
  BY DEF Init
<1>2. WellFormed(program) /\ options \in Settings
  BY <1>1, CaseType
<1>3. Begin(Main) \in Location(program) /\ Begin(Main)[1] = Main
  BY <1>2, LocationsOfFunction DEF WellFormed
<1>4. state_map \in States(program, options)
  BY <1>2, SimpleStates DEF Init, States
<1>5. stack = <<Frame(Main, NoCall)>>
  BY DEF Init
<1>6. /\ Frame(Main, NoCall) \in Frames(program)
      /\ Frame(Main, NoCall).working_set = {Begin(Main)}
  BY <1>3 DEF Frame, Frames
<1>7. ~state_map[Begin(Main)].bottom
  BY <1>2, <1>3, SimpleStates DEF Init
<1>8. /\ stack \in Seq(Frames(program)) /\ Len(stack) = 1 /\ DOMAIN stack = 1 .. 1
      /\ stack[1].working_set = {Begin(Main)}
  <2> DEFINE f == Frame(Main, NoCall)
  <2>1. stack = <<f>> /\ f \in Frames(program) /\ f.working_set = {Begin(Main)}
    BY <1>5, <1>6
  <2> HIDE DEF f
  <2> QED BY <2>1
<1>9. StackOK(program, state_map, stack)
  BY <1>3, <1>7, <1>8 DEF StackOK, FunctionIn
<1>10. PendingIn(stack) = {Begin(Main)}
  BY <1>8 DEF PendingIn
<1>11. ASSUME NEW l \in Location(program) \ PendingIn(stack)
       PROVE  Carried(program, options, state_map, l)
  <2>1. state_map[l] \in AbstractState(program, options) /\ state_map[l].bottom
    BY <1>2, <1>10, SimpleStates DEF Init
  <2>2. \A to : Effect(program, options, state_map[l], l, to).bottom
    BY <1>2, <2>1, EffectType
  <2> QED BY <2>2 DEF Carried, Refines
<1> QED BY <1>1, <1>4, <1>9, <1>11 DEF AnalysisInv

(* What is known of the fixpoint at the top of the stack.                  *)
LEMMA TopIs ==
  ASSUME AnalysisInv, stack # <<>>
  PROVE  /\ Len(stack) \in Nat \ {0} /\ DOMAIN stack = 1 .. Len(stack)
         /\ Top \in Frames(program)
         /\ Top = Last(stack) /\ Lower = Front(stack)
         /\ \A l \in Top.working_set :
              /\ l \in Location(program) /\ l[1] = FunctionIn(program, stack, Len(stack))
              /\ ~state_map[l].bottom
PROOF
<1>1. stack \in Seq(Frames(program)) /\ Len(stack) \in Nat \ {0} /\ Len(stack) \in 1 .. Len(stack)
  <2>1. stack \in Seq(Frames(program))
    BY DEF AnalysisInv, StackOK
  <2> QED BY <2>1, EmptySeq, LenProperties
<1>2. Top \in Frames(program)
  BY <1>1, ElementOfSeq DEF Top
<1>3. \A l \in Top.working_set :
        l[1] = FunctionIn(program, stack, Len(stack)) /\ ~state_map[l].bottom
  BY <1>1 DEF AnalysisInv, StackOK, Top
<1>4. \A l \in Top.working_set : l \in Location(program)
  BY <1>2 DEF Frames
<1>5. DOMAIN stack = 1 .. Len(stack)
  BY <1>1, LenProperties
<1> QED BY <1>1, <1>2, <1>3, <1>4, <1>5 DEF Lower, Top, Last, Front
(* A visit.                                                                *)
LEMMA VisitKeeps == AnalysisInv /\ stack # <<>> /\ visit => AnalysisInv' /\ Proceeds
PROOF
<1> SUFFICES ASSUME AnalysisInv, stack # <<>>, visit PROVE AnalysisInv' /\ Proceeds
  OBVIOUS
<1>0. PICK l \in Top.working_set :
        /\ ~IsCall(l)
        /\ state_map' = Visited(l).state_map
        /\ stack' = Append(Lower, [Top EXCEPT !.working_set = Visited(l).working_set])
  BY DEF visit
<1> DEFINE p == program
           o == options
           start == [state_map |-> state_map, working_set |-> Top.working_set \ {l}]
           b == Visited(l)
           frame == [Top EXCEPT !.working_set = b.working_set]
<1>1. /\ WellFormed(p) /\ o \in Settings /\ state_map \in States(p, o)
      /\ StackOK(p, state_map, stack) /\ p' = p /\ o' = o
  BY CaseType DEF AnalysisInv, visit
<1>2. /\ Top \in Frames(p) /\ Top = Last(stack) /\ Lower = Front(stack)
      /\ l \in Location(p) /\ l[1] = FunctionIn(p, stack, Len(stack)) /\ ~state_map[l].bottom
  BY TopIs
<1>3. start \in Analyses(p, o) /\ ~start.state_map[l].bottom
  BY <1>1, <1>2 DEF Analyses, Frames
<1>4. start.state_map = state_map /\ start.working_set = Top.working_set \ {l}
  OBVIOUS
<1>5. ~CallIn(p, l)
  BY <1>0 DEF IsCall, CallIn
<1>6. /\ Advances(p, o, l[1], start, b)
      /\ b \in Analyses(p, o)
      /\ ~o.narrowing /\ OneKind(p) /\ l \notin b.working_set => Carried(p, o, b.state_map, l)
  <2>1. start = [state_map |-> state_map, working_set |-> Top.working_set \ {l}]
    OBVIOUS
  <2> HIDE DEF start, b, p, o
  <2>2. p = program /\ o = options /\ b = Visited(l)
    BY DEF p, o, b
  <2> QED BY <1>1, <1>2, <1>3, <1>5, <2>1, <2>2, VisitedCarries
<1>7. PICK changed \in SUBSET {m \in Location(p) : m[1] = l[1]} :
        /\ Grown(p, o, state_map, b.state_map, changed)
        /\ b.working_set = (Top.working_set \ {l}) \cup changed
  <2> HIDE DEF start, b
  <2> QED BY <1>4, <1>6 DEF Advances
<1> HIDE DEF start, b, p, o
<1>8. /\ frame \in Frames(p) /\ frame.call = Top.call /\ frame.working_set = b.working_set
  BY <1>2, <1>6 DEF Frames, Analyses
<1>9. state_map' = b.state_map /\ stack' = Append(Lower, frame)
  BY <1>0 DEF b
<1> HIDE DEF frame
<1>10. WithTop(p, state_map', stack, stack', frame)
  <2>1. Grown(p, o, state_map, state_map', changed)
    BY <1>7, <1>9
  <2>2. \A m \in changed : m[1] = FunctionIn(p, stack, Len(stack))
    BY <1>2, <1>7
  <2>3. frame.call = Last(stack).call
        /\ frame.working_set \subseteq Last(stack).working_set \cup changed
    BY <1>2, <1>7, <1>8
  <2>4. stack' = Append(Front(stack), frame)
    BY <1>2, <1>9
  <2>5. StackOK(p, state_map, stack) /\ stack # <<>> /\ frame \in Frames(p)
    BY <1>1, <1>8
  <2> QED BY ONLY <2>1, <2>2, <2>3, <2>4, <2>5, TopReplaced
<1>11. changed \subseteq PendingIn(stack') /\ PendingIn(stack) \subseteq PendingIn(stack') \cup {l}
  BY <1>2, <1>7, <1>8, <1>10 DEF WithTop
<1>12. ~o.narrowing /\ OneKind(p) =>
         \A m \in {l} \ PendingIn(stack') : Carried(p, o, state_map', m)
  BY <1>6, <1>8, <1>9, <1>10 DEF WithTop
<1>13. Proceeds
  <2>1. Grown(p, o, state_map, state_map', changed)
    BY <1>7, <1>9
  <2>2. p = program /\ o = options
    BY DEF p, o
  <2> QED BY <1>5, <1>10, <1>11, <2>1, <2>2 DEF Proceeds, WithTop
<1>14. AnalysisInv'
  <2> DEFINE done == {l}
  <2>1. PendingIn(stack) \subseteq PendingIn(stack') \cup done
        /\ (~o.narrowing /\ OneKind(p) =>
              \A m \in done \ PendingIn(stack') : Carried(p, o, state_map', m))
    BY <1>11, <1>12
  <2>2. Grown(p, o, state_map, state_map', changed) /\ program' = program /\ options' = options
    BY <1>7, <1>9 DEF visit
  <2> HIDE DEF done
  <2> QED BY <1>10, <1>11, <2>1, <2>2, StepKeeps DEF p, o, WithTop
<1> QED BY <1>13, <1>14

(* A fixpoint of a callee is complete.                                     *)
LEMMA ReturnKeeps == AnalysisInv /\ Return => AnalysisInv' /\ Proceeds
PROOF
<1> SUFFICES ASSUME AnalysisInv, Return PROVE AnalysisInv' /\ Proceeds
  OBVIOUS
<1> DEFINE p == program
           o == options
           below == Front(stack)
           call == Top.call
           r == ReturnEdge(state_map, stack[Len(stack) - 1], call)
<1>0. /\ Len(stack) > 1 /\ Top.working_set = {}
      /\ state_map' = r.state_map
      /\ stack' = Append(SubSeq(stack, 1, Len(stack) - 2), r.frame)
      /\ program' = program /\ options' = options
  BY DEF Return
<1>1. /\ WellFormed(p) /\ o \in Settings /\ state_map \in States(p, o)
      /\ StackOK(p, state_map, stack)
  BY CaseType DEF AnalysisInv
<1>2. /\ StackOK(p, state_map, below)
      /\ below # <<>>
      /\ Last(below) = stack[Len(stack) - 1]
      /\ Front(below) = SubSeq(stack, 1, Len(stack) - 2)
      /\ PendingIn(below) = PendingIn(stack)
      /\ call \in Location(p) /\ CallIn(p, call)
      /\ call[1] = FunctionIn(p, below, Len(below))
      /\ InProgress(stack) = InProgress(below) \cup {call}
  <2>1. below = Front(stack) /\ call = Last(stack).call
        /\ Last(stack).working_set = {} /\ Nested(stack)
    BY <1>0 DEF Top, Last, Nested
  <2>2. StackOK(p, state_map, stack)
    BY <1>1
  <2> HIDE DEF p, below, call
  <2>3. /\ StackOK(p, state_map, below)
        /\ below # <<>>
        /\ Last(below) = Caller(stack)
        /\ Front(below) = BelowCaller(stack)
        /\ PendingIn(below) = PendingIn(stack)
        /\ call \in Location(p) /\ CallIn(p, call)
        /\ call[1] = LastFunction(p, below)
        /\ InProgress(stack) = InProgress(below) \cup {call}
    BY ONLY <2>1, <2>2, Popped
  <2> QED BY <2>3 DEF Caller, BelowCaller, LastFunction
<1> HIDE DEF below, call
<1> DEFINE frame == Last(below)
<1>3. frame \in Frames(p) /\ r = ReturnEdge(state_map, frame, call)
  <2>1. below \in Seq(Frames(p))
    BY <1>2 DEF StackOK
  <2>2. Len(below) \in 1 .. Len(below)
    BY <1>2, <2>1, EmptySeq, LenProperties
  <2>3. frame \in Frames(p)
    BY <2>1, <2>2, ElementOfSeq DEF Last
  <2> QED BY <1>2, <2>3
<1> HIDE DEF frame, r
<1>4. PICK changed \in SUBSET {m \in Location(p) : m[1] = call[1]} :
        /\ Grown(p, o, state_map, r.state_map, changed)
        /\ r.frame \in Frames(p) /\ r.frame.call = frame.call
        /\ r.frame.working_set = frame.working_set \cup changed
        /\ ~o.narrowing /\ OneKind(p) =>
             Refines(state_map[EndOf(p, Instr(p, call).function)], r.state_map[Following(call)])
  <2>1. p = program /\ o = options
    OBVIOUS
  <2> HIDE DEF p, o
  <2> QED BY <1>1, <1>2, <1>3, <2>1, ReturnAdvances
<1>5. WithTop(p, state_map', below, stack', r.frame)
  <2> DEFINE new == r.frame
  <2>1. Grown(p, o, state_map, state_map', changed)
    BY <1>0, <1>4
  <2>2. \A m \in changed : m[1] = FunctionIn(p, below, Len(below))
    BY <1>2, <1>4
  <2>3. new \in Frames(p) /\ new.call = Last(below).call
        /\ new.working_set \subseteq Last(below).working_set \cup changed
    BY <1>4 DEF frame
  <2>4. stack' = Append(Front(below), new)
    BY <1>0, <1>2
  <2> HIDE DEF new, p, o
  <2>5. WithTop(p, state_map', below, stack', new)
    BY ONLY <1>2, <2>1, <2>2, <2>3, <2>4, TopReplaced
  <2> QED BY <2>5 DEF new
<1>6. changed \subseteq PendingIn(stack') /\ PendingIn(stack) \subseteq PendingIn(stack') \cup {}
  BY <1>2, <1>4, <1>5 DEF frame, WithTop
<1>7. Proceeds
  <2>1. Grown(p, o, state_map, state_map', changed)
    BY <1>0, <1>4
  <2>2. PendingIn(stack) \subseteq PendingIn(stack') \cup {call}
    BY <1>6
  <2>3. InProgress(stack) \subseteq InProgress(stack') \cup {call}
    BY <1>2, <1>5 DEF WithTop
  <2>4. /\ call[1] = LastFunction(p, stack')
        /\ ~o.narrowing /\ OneKind(p) =>
             Refines(state_map[EndOf(p, Instr(p, call).function)], state_map'[Following(call)])
    BY <1>0, <1>2, <1>4, <1>5 DEF LastFunction, WithTop
  <2> QED BY <1>5, <1>6, <2>1, <2>2, <2>3, <2>4 DEF Proceeds, WithTop
<1>8. AnalysisInv'
  <2> DEFINE done == {}
  <2>1. PendingIn(stack) \subseteq PendingIn(stack') \cup done
        /\ (~o.narrowing /\ OneKind(p) =>
              \A m \in done \ PendingIn(stack') : Carried(p, o, state_map', m))
    BY <1>6
  <2>2. Grown(p, o, state_map, state_map', changed)
    BY <1>0, <1>4
  <2> HIDE DEF done
  <2> QED BY <1>0, <1>5, <1>6, <2>1, <2>2, StepKeeps DEF WithTop
<1> QED BY <1>7, <1>8

(* A call: of a callee with something new at its beginning, or past it.    *)
LEMMA CallKeeps == AnalysisInv /\ stack # <<>> /\ do_function_call => AnalysisInv' /\ Proceeds
PROOF
<1> SUFFICES ASSUME AnalysisInv, stack # <<>>, do_function_call PROVE AnalysisInv' /\ Proceeds
  OBVIOUS
<1> DEFINE p == program
           o == options
<1>1. /\ WellFormed(p) /\ o \in Settings /\ state_map \in States(p, o)
      /\ StackOK(p, state_map, stack) /\ p' = p /\ o' = o
  BY CaseType DEF AnalysisInv, do_function_call
<1>2. PICK l \in Top.working_set :
        /\ IsCall(l)
        /\ LET f == Instr(program, l).function
               frame == [Top EXCEPT !.working_set = @ \ {l}]
               joined == Join(state_map[Begin(f)], transform(state_map[l], l, Begin(f)), options)
               entered == [state_map EXCEPT ![Begin(f)] = joined.state]
               returned == ReturnEdge(entered, frame, l)
           IN  \/ /\ joined.changed
                  /\ state_map' = entered
                  /\ stack' = Lower \o <<frame, Frame(f, l)>>
               \/ /\ ~joined.changed
                  /\ state_map' = returned.state_map
                  /\ stack' = Append(Lower, returned.frame)
  BY DEF do_function_call
<1> DEFINE f == Instr(p, l).function
           begin == Begin(f)
           frame == [Top EXCEPT !.working_set = @ \ {l}]
           s == Effect(p, o, state_map[l], l, begin)
           j == Join(state_map[begin], s, o)
           entered == Put(state_map, begin, j.state)
           returned == ReturnEdge(entered, frame, l)
<1>3. \/ /\ j.changed
         /\ state_map' = entered
         /\ stack' = Lower \o <<frame, Frame(f, l)>>
      \/ /\ ~j.changed
         /\ state_map' = returned.state_map
         /\ stack' = Append(Lower, returned.frame)
  <2>1. s = transform(state_map[l], l, begin)
    BY EffectIsTransform
  <2> QED BY <1>2, <2>1 DEF Put
<1>4. /\ Top \in Frames(p) /\ Top = Last(stack) /\ Lower = Front(stack)
      /\ l \in Location(p) /\ l[1] = FunctionIn(p, stack, Len(stack)) /\ ~state_map[l].bottom
  BY TopIs
<1>5. CallIn(p, l) /\ f \in DOMAIN p.body
  BY <1>2 DEF IsCall, CallIn
<1>6. begin \in Location(p)
  BY <1>1, <1>5, LocationsOfFunction
<1>7. frame \in Frames(p) /\ frame.call = Top.call /\ frame.working_set = Top.working_set \ {l}
  BY <1>4 DEF Frames
<1> HIDE DEF p, o
<1>8. s \in AbstractState(p, o)
  <2>1. state_map[l] \in AbstractState(p, o)
    BY <1>1, <1>4 DEF States
  <2> QED BY <1>1, <1>4, <2>1, EffectType
<1> HIDE DEF f, begin, frame, s, j, entered, returned
<1>9. PICK changed :
        /\ changed = IF j.changed THEN {begin} ELSE {}
        /\ Grown(p, o, state_map, entered, changed)
        /\ ~j.changed => entered = state_map
        /\ ~o.narrowing /\ OneKind(p) => Refines(s, entered[begin])
  <2> DEFINE new == IF j.changed THEN {begin} ELSE {}
  <2>1. new = IF j.changed THEN {begin} ELSE {}
    OBVIOUS
  <2>2. j = Join(state_map[begin], s, o) /\ entered = Put(state_map, begin, j.state)
    BY DEF j, entered
  <2>3. o \in Settings /\ state_map \in States(p, o)
    BY <1>1
  <2> HIDE DEF new
  <2>4. /\ Grown(p, o, state_map, entered, new)
        /\ ~j.changed => entered = state_map
        /\ ~o.narrowing /\ OneKind(p) => Refines(s, entered[begin])
    BY ONLY <1>6, <1>8, <2>1, <2>2, <2>3, JoinIntoOne
  <2> QED BY <2>1, <2>4
<1>10. CASE j.changed
  <2> DEFINE callee == Frame(f, l)
  <2>1. callee \in Frames(p) /\ callee = Frame(f, l)
    BY <1>4, <1>6 DEF Frame, Frames, begin
  <2>2. state_map' = entered /\ stack' = PutTwo(stack, frame, callee)
    BY <1>3, <1>4, <1>10 DEF PutTwo
  <2>3. f = Instr(p, l).function /\ begin = Begin(f)
    BY DEF begin, f
  <2> HIDE DEF callee
  <2>4. changed = {begin}
    BY <1>9, <1>10
  <2>5. Grown(p, o, state_map, state_map', changed) /\ ~state_map'[begin].bottom
    BY <1>6, <1>9, <2>2, <2>4 DEF Grown
  <2>6. l[1] = LastFunction(p, stack)
        /\ frame.call = Last(stack).call /\ frame.working_set \subseteq Last(stack).working_set
    BY <1>4, <1>7 DEF LastFunction
  <2>7. WithCall(p, state_map', stack, stack', frame, l, begin)
    <3>1. StackOK(p, state_map, stack) /\ stack # <<>> /\ l \in Location(p)
      BY <1>1, <1>4
    <3> QED BY ONLY <1>5, <1>6, <1>7, <2>1, <2>2, <2>3, <2>5, <2>6, <3>1, Pushed
  <2>8. ASSUME ~o.narrowing, OneKind(p), l \notin PendingIn(stack')
        PROVE  Carried(p, o, state_map', l)
    <3>1. state_map'[l] = state_map[l]
      BY <1>4, <2>4, <2>5, <2>7, <2>8 DEF Grown, WithCall
    <3>2. Refines(Effect(p, o, state_map'[l], l, begin), state_map'[begin])
      BY <1>9, <2>2, <2>8, <3>1 DEF s
    <3> QED BY <1>5, <2>3, <3>2 DEF Carried
  <2> DEFINE done == {l}
  <2>9. PendingIn(stack) \subseteq PendingIn(stack') \cup done
        /\ (~o.narrowing /\ OneKind(p) =>
              \A m \in done \ PendingIn(stack') : Carried(p, o, state_map', m))
    BY <1>4, <1>7, <2>7, <2>8 DEF WithCall
  <2>10. program' = program /\ options' = options /\ changed \subseteq PendingIn(stack')
    BY <1>1, <2>4, <2>7 DEF p, o, WithCall
  <2>11. Proceeds
    <3>1. l \in InProgress(stack') /\ PendingIn(stack) \subseteq PendingIn(stack') \cup {l}
      BY <2>7, <2>9 DEF WithCall
    <3>2. p = program /\ o = options
      BY DEF p, o
    <3> QED BY <2>5, <2>7, <2>10, <3>1, <3>2 DEF Proceeds, WithCall
  <2> HIDE DEF done
  <2>12. AnalysisInv'
    BY <2>5, <2>7, <2>9, <2>10, StepKeeps DEF p, o, WithCall
  <2> QED BY <2>11, <2>12
<1>11. CASE ~j.changed
  <2>1. entered = state_map
    BY <1>9, <1>11
  <2>2. returned = ReturnEdge(state_map, frame, l)
    BY <2>1 DEF returned
  <2>3. PICK more \in SUBSET {m \in Location(p) : m[1] = l[1]} :
          /\ Grown(p, o, state_map, returned.state_map, more)
          /\ returned.frame \in Frames(p) /\ returned.frame.call = frame.call
          /\ returned.frame.working_set = frame.working_set \cup more
          /\ ~o.narrowing /\ OneKind(p) =>
               Refines(state_map[EndOf(p, Instr(p, l).function)], returned.state_map[Following(l)])
    <3>1. p = program /\ o = options
      BY DEF p, o
    <3> QED BY <1>1, <1>4, <1>5, <1>7, <2>2, <3>1, ReturnAdvances
  <2> DEFINE top == returned.frame
  <2>4. state_map' = returned.state_map /\ stack' = Append(Front(stack), top)
    BY <1>3, <1>4, <1>11
  <2>5. /\ Grown(p, o, state_map, state_map', more)
        /\ \A m \in more : m[1] = FunctionIn(p, stack, Len(stack))
        /\ top \in Frames(p) /\ top.call = Last(stack).call
        /\ top.working_set = (Last(stack).working_set \ {l}) \cup more
    BY <1>4, <1>7, <2>3, <2>4
  <2> HIDE DEF top
  <2>6. top.working_set \subseteq Last(stack).working_set \cup more
    BY <2>5
  <2>7. WithTop(p, state_map', stack, stack', top)
    <3>1. StackOK(p, state_map, stack) /\ stack # <<>>
      BY <1>1
    <3> QED BY ONLY <2>4, <2>5, <2>6, <3>1, TopReplaced
  <2>8. ASSUME ~o.narrowing, OneKind(p), l \notin PendingIn(stack')
        PROVE  Carried(p, o, state_map', l)
    <3>1. Refines(Effect(p, o, state_map[l], l, begin), state_map[begin])
      BY <1>9, <2>1, <2>8 DEF s
    <3>2. Carried(p, o, state_map, l)
      BY <1>5, <3>1 DEF Carried, begin, f
    <3>3. l \notin more
      BY <2>5, <2>7, <2>8 DEF WithTop
    <3> QED BY <1>1, <1>4, <2>5, <2>8, <3>2, <3>3, CarriedStays
  <2> DEFINE done == {l}
  <2>9. PendingIn(stack) \subseteq PendingIn(stack') \cup done
        /\ (~o.narrowing /\ OneKind(p) =>
              \A m \in done \ PendingIn(stack') : Carried(p, o, state_map', m))
    BY <1>4, <2>5, <2>7, <2>8 DEF WithTop
  <2>10. program' = program /\ options' = options /\ more \subseteq PendingIn(stack')
    BY <1>1, <2>5, <2>7 DEF p, o, WithTop
  <2>11. Proceeds
    <3>1. /\ PendingIn(stack) \subseteq PendingIn(stack') \cup {l}
          /\ InProgress(stack) \subseteq InProgress(stack') \cup {l}
      BY <2>7, <2>9 DEF WithTop
    <3>2. p = program /\ o = options
      BY DEF p, o
    <3>3. l[1] = LastFunction(p, stack')
      BY <1>4, <2>7 DEF LastFunction, WithTop
    <3>4. ~o.narrowing /\ OneKind(p) =>
            Refines(state_map[EndOf(p, Instr(p, l).function)], state_map'[Following(l)])
      BY <2>3, <2>4
    <3> QED BY <2>5, <2>7, <2>10, <3>1, <3>2, <3>3, <3>4 DEF Proceeds, WithTop
  <2> HIDE DEF done
  <2>12. AnalysisInv'
    BY <2>5, <2>7, <2>9, <2>10, StepKeeps DEF p, o, WithTop
  <2> QED BY <2>11, <2>12
<1> QED BY <1>10, <1>11

(* The end of the analysis.                                                *)
LEMMA EndKeeps == AnalysisInv /\ instrument_intervals => AnalysisInv'
PROOF
<1> SUFFICES ASSUME AnalysisInv, instrument_intervals PROVE AnalysisInv'
  OBVIOUS
<1>1. /\ Len(stack) = 1 /\ Top.working_set = {} /\ stack' = <<>>
      /\ program' = program /\ options' = options /\ state_map' = state_map
  BY DEF instrument_intervals
<1>2. state_map \in States(program, options) /\ StackOK(program, state_map, stack)
  BY DEF AnalysisInv
<1>3. PendingIn(stack) = {}
  <2>1. DOMAIN stack = 1 .. 1
    BY <1>1, <1>2, LenProperties DEF StackOK
  <2> QED BY <1>1, <2>1 DEF PendingIn, Top
<1>4. StackOK(program, state_map', stack')
  BY <1>1 DEF StackOK
<1>5. ASSUME ~options.narrowing, OneKind(program),
             NEW l \in Location(program) \ PendingIn(stack')
      PROVE  Carried(program, options, state_map', l)
  BY <1>1, <1>3, <1>5 DEF AnalysisInv
<1> QED BY <1>1, <1>2, <1>4, <1>5 DEF AnalysisInv

(* Whatever a step of the analysis does.                                   *)
LEMMA NextKeeps == AnalysisInv /\ [Next]_vars => AnalysisInv'
PROOF
<1>1. ASSUME AnalysisInv, UNCHANGED vars PROVE AnalysisInv'
  BY <1>1 DEF vars, AnalysisInv
<1> QED BY <1>1, VisitKeeps, CallKeeps, ReturnKeeps, EndKeeps DEF Next

(* Through visits, nested fixpoints and returns from them, the states stay *)
(* states, pending locations are reached ones of the function their        *)
(* fixpoint is for, and what is not pending has been carried along         *)
(* (ai.cpp:90-238).                                                        *)
THEOREM IntervalInvariant == Spec => []AnalysisInv
PROOF
<1> QED BY InitInv, NextKeeps, PTL DEF Spec

(* No variable has an empty interval or one of the wrong kind, an          *)
(* impossible state names none, the counters of extrapolation stay within  *)
(* their limit, and each frame of the stack is the fixpoint of the         *)
(* function its call names (interval_domain.cpp:703-779, ai.cpp:186-238).  *)
THEOREM IntervalTypeCorrect == Spec => []TypeOK
PROOF
<1>1. ASSUME AnalysisInv PROVE TypeOK
  <2> DEFINE p == program
             o == options
  <2>1. /\ state_map \in States(p, o)
        /\ StackOK(p, state_map, stack)
    BY <1>1 DEF AnalysisInv
  <2>2. ASSUME NEW l \in Location(p)
        PROVE  LET s == state_map[l]
               IN  /\ DOMAIN s.int_map \subseteq IntVars
                   /\ DOMAIN s.real_map \subseteq FloatVars
                   /\ s.bottom => Mapped(s) = {}
                   /\ \A x \in Mapped(s) :
                        LET i == get_interval_from_symbol(s, x) IN i \in Interval /\ ~Empty(i)
                   /\ \A x \in DOMAIN s.fixpoint_map :
                        x \in IntVars \cup FloatVars /\ s.fixpoint_map[x] \in 0 .. options.limit + 1
    <3> DEFINE s == state_map[l]
    <3>1. s \in AbstractState(p, o)
      BY <2>1 DEF States
    <3> HIDE DEF s, p, o
    <3>2. DOMAIN s.int_map \subseteq IntVars /\ DOMAIN s.real_map \subseteq FloatVars
      <4>1. s.int_map \in Partial(Ints(p), Good) /\ s.real_map \in Partial(Floats(p), Good)
        BY <3>1, StateElim
      <4>2. DOMAIN s.int_map \subseteq Ints(p) /\ DOMAIN s.real_map \subseteq Floats(p)
        BY <4>1, PartialFunction
      <4> QED BY <4>2 DEF Ints, Floats
    <3>3. s.bottom => Mapped(s) = {}
      BY <3>1 DEF AbstractState
    <3>4. \A x \in Mapped(s) : get_interval_from_symbol(s, x) \in Good
      BY <3>1, <3>2, LookupType DEF Mapped
    <3>5. \A x \in DOMAIN s.fixpoint_map :
            x \in IntVars \cup FloatVars /\ s.fixpoint_map[x] \in 0 .. o.limit + 1
      BY <3>1, StateElim, CountersFunction
    <3> QED BY <3>2, <3>3, <3>4, <3>5 DEF s, o, Good
  <2>3. ASSUME NEW n \in DOMAIN stack
        PROVE  /\ stack[n].working_set \subseteq {l \in Location(p) : l[1] = FunctionOf(n)}
               /\ n > 1 => IsCall(stack[n].call) /\ stack[n].call[1] = FunctionOf(n - 1)
    <3>1. /\ stack \in Seq(Frames(p)) /\ DOMAIN stack = 1 .. Len(stack) /\ Len(stack) \in Nat
          /\ n \in 1 .. Len(stack)
      BY <2>1, LenProperties DEF StackOK
    <3>2. stack[n] \in Frames(p)
      BY <3>1, ElementOfSeq
    <3>3. \A k : FunctionIn(p, stack, k) = FunctionOf(k)
      BY DEF FunctionIn, FunctionOf
    <3>4. ASSUME NEW m \in stack[n].working_set PROVE m \in Location(p) /\ m[1] = FunctionOf(n)
      BY <2>1, <3>1, <3>2, <3>3 DEF StackOK, Frames
    <3>5. ASSUME n > 1 PROVE IsCall(stack[n].call) /\ stack[n].call[1] = FunctionOf(n - 1)
      <4>1. n \in 2 .. Len(stack)
        BY <3>1, <3>5
      <4>2. CallIn(p, stack[n].call) /\ stack[n].call[1] = FunctionIn(p, stack, n - 1)
        BY <2>1, <4>1 DEF StackOK
      <4> QED BY <3>3, <4>2 DEF CallIn, IsCall
    <3> QED BY <3>4, <3>5
  <2> QED BY <2>2, <2>3 DEF TypeOK
<1> QED BY <1>1, IntervalInvariant, PTL

(* However the unordered work set hands out its locations, and through     *)
(* loops, extrapolation and nested calls, every location that is not       *)
(* pending has had its state carried along all its edges: when the         *)
(* analysis ends its states are a post-fixpoint (ai.cpp:90-167, 186-238).  *)
(* Narrowing gives states up on purpose; of a program with variables of    *)
(* both kinds a join may leave one out (interval_domain.cpp:775-778).      *)
THEOREM NothingForgottenTheorem ==
  ASSUME \A c \in Cases : ~c.options.narrowing /\ OneKind(c.program)
  PROVE  Spec => []NothingForgotten
PROOF
<1>1. ASSUME AnalysisInv PROVE NothingForgotten
  <2>1. ~options.narrowing /\ OneKind(program)
    BY <1>1 DEF AnalysisInv
  <2>2. Pending = PendingIn(stack)
    BY DEF Pending, PendingIn
  <2>3. ASSUME NEW l \in Location(program) \ Pending
        PROVE  IF IsCall(l)
                 THEN LET begin == Begin(Instr(program, l).function)
                      IN  Refines(transform(state_map[l], l, begin), state_map[begin])
                 ELSE \A to \in Range(get_successors(program, l)) :
                        Refines(transform(state_map[l], l, to), state_map[to])
    <3>1. Carried(program, options, state_map, l)
      BY <1>1, <2>1, <2>2 DEF AnalysisInv
    <3>2. IsCall(l) <=> CallIn(program, l)
      BY DEF IsCall, CallIn
    <3>3. \A to : transform(state_map[l], l, to) = Effect(program, options, state_map[l], l, to)
      BY EffectIsTransform
    <3> QED BY <3>1, <3>2, <3>3 DEF Carried
  <2> QED BY <2>3 DEF NothingForgotten
<1> QED BY <1>1, IntervalInvariant, PTL

-----------------------------------------------------------------------------
(* Values admitted by abstract states                                      *)

(* The values of the variables.                                            *)
Vals == [IntVars \cup FloatVars -> Int]

(* What is admitted lies in every interval, of a variable without one too. *)
LEMMA AdmitsIs ==
  ASSUME NEW p, NEW o, NEW s \in AbstractState(p, o), NEW v \in Vals
  PROVE  Admits(s, v) <=>
           /\ ~s.bottom
           /\ \A x \in IntVars \cup FloatVars : HasValue(get_interval_from_symbol(s, x), v[x])
PROOF
<1>1. Mapped(s) \subseteq IntVars \cup FloatVars
  <2>1. s.int_map \in Partial(Ints(p), Good) /\ s.real_map \in Partial(Floats(p), Good)
    BY StateElim
  <2>2. DOMAIN s.int_map \subseteq Ints(p) /\ DOMAIN s.real_map \subseteq Floats(p)
    BY <2>1, PartialFunction
  <2> QED BY <2>2 DEF Mapped, Ints, Floats
<1>2. ASSUME NEW x \in (IntVars \cup FloatVars) \ Mapped(s)
      PROVE  HasValue(get_interval_from_symbol(s, x), v[x])
  <2>1. get_interval_from_symbol(s, x) = TopInterval
    BY <1>2 DEF Mapped, get_interval_from_symbol, MapFor
  <2> QED BY <2>1 DEF HasValue, TopInterval
<1> QED BY <1>1, <1>2 DEF Admits

(* A larger interval has more values.                                      *)
LEMMA IncludedHas ==
  ASSUME NEW i \in Interval, NEW j \in Interval, Included(i, j), NEW v \in Int, HasValue(i, v)
  PROVE  HasValue(j, v)
BY DEF Included, HasValue, Interval

(* What a state admits is admitted by one it refines.                      *)
LEMMA RefinesAdmits ==
  ASSUME NEW p, NEW o, NEW s, s.bottom \/ s \in AbstractState(p, o), NEW t \in AbstractState(p, o),
         Refines(s, t), NEW v \in Vals, Admits(s, v)
  PROVE  Admits(t, v)
PROOF
<1>1. ~s.bottom /\ s \in AbstractState(p, o) /\ ~t.bottom
  BY DEF Admits, Refines
<1>2. ASSUME NEW x \in IntVars \cup FloatVars
      PROVE  HasValue(get_interval_from_symbol(t, x), v[x])
  <2> DEFINE i == get_interval_from_symbol(s, x)
             j == get_interval_from_symbol(t, x)
  <2>1. i \in Interval /\ j \in Interval
    BY <1>1, LookupType DEF Good
  <2>2. HasValue(i, v[x])
    BY <1>1, AdmitsIs
  <2>3. Included(i, j)
    BY <1>1 DEF Refines
  <2>4. v[x] \in Int
    BY DEF Vals
  <2> HIDE DEF i, j
  <2>5. HasValue(j, v[x])
    BY <2>1, <2>2, <2>3, <2>4, IncludedHas
  <2> QED BY <2>5 DEF j
<1> QED BY <1>1, <1>2, AdmitsIs

(* What is said of a variable after havoc_rec.                             *)
LEMMA HavocLookup ==
  ASSUME NEW p, NEW o, NEW s \in AbstractState(p, o), NEW xs, NEW x \in IntVars \cup FloatVars
  PROVE  get_interval_from_symbol(havoc_rec(s, xs), x) =
           IF x \in xs THEN TopInterval ELSE get_interval_from_symbol(s, x)
PROOF
<1> DEFINE m == s.int_map
           n == s.real_map
           v == WithoutVars(m, xs)
           w == WithoutVars(n, xs)
           b == s.bottom
           k == s.fixpoint_map
           h == havoc_rec(s, xs)
<1>1. s = State(b, m, n, k)
  BY StateElim
<1>2. h = [[s EXCEPT !.int_map = v] EXCEPT !.real_map = w]
  BY DEF havoc_rec
<1> HIDE DEF b, m, n, k, v, w, h
<1>3. [s EXCEPT !.int_map = v] = State(b, v, n, k)
  BY <1>1 DEF State
<1>4. [State(b, v, n, k) EXCEPT !.real_map = w] = State(b, v, w, k)
  BY DEF State
<1>5. h.int_map = v /\ h.real_map = w
  BY <1>2, <1>3, <1>4 DEF State
<1>6. DOMAIN v = DOMAIN m \ xs /\ \A y \in DOMAIN v : v[y] = m[y]
  BY DEF v, WithoutVars
<1>7. DOMAIN w = DOMAIN n \ xs /\ \A y \in DOMAIN w : w[y] = n[y]
  BY DEF w, WithoutVars
<1>8. get_interval_from_symbol(h, x) =
        IF x \in IntVars THEN (IF x \in DOMAIN v THEN v[x] ELSE TopInterval)
        ELSE (IF x \in DOMAIN w THEN w[x] ELSE TopInterval)
  BY <1>5 DEF get_interval_from_symbol, MapFor
<1>9. get_interval_from_symbol(s, x) =
        IF x \in IntVars THEN (IF x \in DOMAIN m THEN m[x] ELSE TopInterval)
        ELSE (IF x \in DOMAIN n THEN n[x] ELSE TopInterval)
  BY DEF get_interval_from_symbol, MapFor, m, n
<1> QED BY <1>6, <1>7, <1>8, <1>9 DEF h

(* What is said of a variable after another one got an interval.           *)
LEMMA UpdateLookup ==
  ASSUME NEW p, NEW o, NEW s \in AbstractState(p, o), NEW x \in IntVars \cup FloatVars, NEW i,
         NEW y \in IntVars \cup FloatVars
  PROVE  get_interval_from_symbol(update_symbol_interval(s, x, i), y) =
           IF y = x THEN i ELSE get_interval_from_symbol(s, y)
PROOF
<1> DEFINE b == s.bottom
           m == s.int_map
           n == s.real_map
           k == s.fixpoint_map
           u == update_symbol_interval(s, x, i)
<1>1. s = State(b, m, n, k)
  BY StateElim
<1>2. \A map : /\ DOMAIN WithMap(map, x, i) = DOMAIN map \cup {x}
               /\ \A z \in DOMAIN map \cup {x} :
                    WithMap(map, x, i)[z] = IF z = x THEN i ELSE map[z]
  BY DEF WithMap
<1>3. get_interval_from_symbol(s, y) =
        IF y \in IntVars THEN (IF y \in DOMAIN m THEN m[y] ELSE TopInterval)
        ELSE (IF y \in DOMAIN n THEN n[y] ELSE TopInterval)
  BY DEF get_interval_from_symbol, MapFor
<1>4. get_interval_from_symbol(u, y) =
        IF y \in IntVars THEN (IF y \in DOMAIN u.int_map THEN u.int_map[y] ELSE TopInterval)
        ELSE (IF y \in DOMAIN u.real_map THEN u.real_map[y] ELSE TopInterval)
  BY DEF get_interval_from_symbol, MapFor
<1>5. CASE x \in IntVars
  <2>1. u = [s EXCEPT !.int_map = WithMap(m, x, i)]
    BY <1>5 DEF update_symbol_interval
  <2> HIDE DEF b, m, n, k, u
  <2>2. u.int_map = WithMap(m, x, i) /\ u.real_map = n
    BY <1>1, <2>1 DEF State
  <2> DEFINE map == WithMap(m, x, i)
  <2>3. /\ DOMAIN map = DOMAIN m \cup {x}
        /\ \A z \in DOMAIN m \cup {x} : map[z] = IF z = x THEN i ELSE m[z]
    BY <1>2
  <2>4. u.int_map = map /\ u.real_map = n
    BY <2>2
  <2> HIDE DEF map
  <2>5. get_interval_from_symbol(u, y) = IF y = x THEN i ELSE get_interval_from_symbol(s, y)
    BY ONLY <1>3, <1>4, <1>5, <2>3, <2>4, x \in IntVars \cup FloatVars, y \in IntVars \cup FloatVars
  <2> QED BY <2>5 DEF u
<1>6. CASE x \notin IntVars
  <2>1. u = [s EXCEPT !.real_map = WithMap(n, x, i)]
    BY <1>6 DEF update_symbol_interval
  <2> HIDE DEF b, m, n, k, u
  <2>2. u.real_map = WithMap(n, x, i) /\ u.int_map = m
    BY <1>1, <2>1 DEF State
  <2> DEFINE map == WithMap(n, x, i)
  <2>3. /\ DOMAIN map = DOMAIN n \cup {x}
        /\ \A z \in DOMAIN n \cup {x} : map[z] = IF z = x THEN i ELSE n[z]
    BY <1>2
  <2>4. u.real_map = map /\ u.int_map = m
    BY <2>2
  <2> HIDE DEF map
  <2>5. get_interval_from_symbol(u, y) = IF y = x THEN i ELSE get_interval_from_symbol(s, y)
    BY ONLY <1>3, <1>4, <1>6, <2>3, <2>4, x \in IntVars \cup FloatVars, y \in IntVars \cup FloatVars
  <2> QED BY <2>5 DEF u
<1> QED BY <1>5, <1>6

(* Forgetting some variables admits any change of them.                    *)
LEMMA HavocAdmits ==
  ASSUME NEW p, NEW o, NEW s \in AbstractState(p, o), NEW xs,
         NEW v \in Vals, Admits(s, v), NEW w \in Vals,
         \A x \in (IntVars \cup FloatVars) \ xs : w[x] = v[x]
  PROVE  Admits(havoc_rec(s, xs), w)
PROOF
<1>1. havoc_rec(s, xs) \in AbstractState(p, o) /\ havoc_rec(s, xs).bottom = s.bottom
  BY HavocType
<1>2. ~s.bottom
  BY DEF Admits
<1>3. ASSUME NEW x \in IntVars \cup FloatVars
      PROVE  HasValue(get_interval_from_symbol(havoc_rec(s, xs), x), w[x])
  <2>1. CASE x \in xs
    <3>1. get_interval_from_symbol(havoc_rec(s, xs), x) = TopInterval
      BY <2>1, HavocLookup
    <3> QED BY <3>1 DEF HasValue, TopInterval
  <2>2. CASE x \notin xs
    <3>1. get_interval_from_symbol(havoc_rec(s, xs), x) = get_interval_from_symbol(s, x)
      BY <2>2, HavocLookup
    <3>2. HasValue(get_interval_from_symbol(s, x), v[x])
      BY AdmitsIs
    <3> QED BY <2>2, <3>1, <3>2
  <2> QED BY <2>1, <2>2
<1> QED BY <1>1, <1>2, <1>3, AdmitsIs

(* A variable given an interval may have any value in it.                  *)
LEMMA UpdateAdmits ==
  ASSUME NEW p, NEW o, NEW s \in AbstractState(p, o), NEW x \in Ints(p) \cup Floats(p),
         NEW i \in Good, NEW v \in Vals, Admits(s, v), NEW w \in Vals, HasValue(i, w[x]),
         \A y \in (IntVars \cup FloatVars) \ {x} : w[y] = v[y]
  PROVE  Admits(update_symbol_interval(s, x, i), w)
PROOF
<1> DEFINE t == update_symbol_interval(s, x, i)
<1>0. ~s.bottom
  BY DEF Admits
<1>1. t \in AbstractState(p, o) /\ ~t.bottom
  BY <1>0, UpdateType
<1>2. x \in IntVars \cup FloatVars
  BY DEF Ints, Floats
<1>3. ASSUME NEW y \in IntVars \cup FloatVars
      PROVE  HasValue(get_interval_from_symbol(t, y), w[y])
  <2>1. get_interval_from_symbol(t, y) = IF y = x THEN i ELSE get_interval_from_symbol(s, y)
    BY <1>2, UpdateLookup
  <2>2. HasValue(get_interval_from_symbol(s, y), v[y])
    BY AdmitsIs
  <2> QED BY <2>1, <2>2
<1> HIDE DEF t
<1>4. Admits(t, w)
  BY <1>1, <1>3, AdmitsIs
<1> QED BY <1>4 DEF t

(* The value of an expression is in its interval, where values do not      *)
(* overflow.                                                               *)
LEMMA ExprAdmits ==
  ASSUME Width = 0, NEW p, NEW o \in Settings, NEW s \in AbstractState(p, o), NEW v \in Vals,
         Admits(s, v), NEW e, ExprIn(p, e), NEW is_int, NEW inputs \in SUBSET Int,
         NEW c \in Values(e, v, inputs)
  PROVE  c \in Int /\ HasValue(get_interval(s, e, is_int, o), c)
PROOF
<1>0. ASSUME NEW x \in IntVars \cup FloatVars
      PROVE  /\ v[x] \in Int /\ HasValue(get_interval_from_symbol(s, x), v[x])
             /\ get_interval_from_symbol(s, x) \in Interval
  BY AdmitsIs, LookupType DEF Vals, Good
<1>1. CASE e.op = "const"
  <2>1. e.c \in Int /\ get_interval(s, e, is_int, o) = get_interval_from_const(e.c, is_int)
    BY <1>1 DEF ExprIn, ExprOK, get_interval
  <2>2. c = e.c
    BY <1>1 DEF Values
  <2> QED BY <2>1, <2>2 DEF get_interval_from_const, Singleton, Between, TopInterval, HasValue
<1>2. CASE e.op = "var"
  <2>1. /\ e.x \in IntVars \cup FloatVars
        /\ get_interval(s, e, is_int, o) = get_interval_from_symbol(s, e.x)
    BY <1>2 DEF ExprIn, ExprOK, get_interval
  <2>2. c = v[e.x]
    BY <1>2 DEF Values
  <2> QED BY <1>0, <2>1, <2>2
<1>3. CASE e.op = "plus"
  <2> DEFINE i == get_interval_from_symbol(s, e.x)
             d == v[e.x]
  <2>1. /\ e.x \in IntVars \cup FloatVars /\ e.c \in Int
        /\ get_interval(s, e, is_int, o) = IF o.arithmetic THEN PlusConst(i, e.c) ELSE TopInterval
    BY <1>3 DEF ExprIn, ExprOK, get_interval
  <2>2. c = d + e.c
    BY <1>3 DEF Values, Wrap
  <2>3. d \in Int /\ HasValue(i, d) /\ i \in Interval
    BY <1>0, <2>1
  <2> HIDE DEF i, d
  <2>4. HasValue(PlusConst(i, e.c), c)
    BY <2>1, <2>2, <2>3 DEF PlusConst, Bounds, HasValue, Interval
  <2>5. HasValue(TopInterval, c)
    BY DEF HasValue, TopInterval
  <2> QED BY <2>1, <2>2, <2>3, <2>4, <2>5
<1>4. CASE e.op = "nondet"
  <2>1. get_interval(s, e, is_int, o) = TopInterval
    BY <1>4 DEF get_interval
  <2>2. c \in Int
    BY <1>4 DEF Values
  <2> QED BY <2>1, <2>2 DEF HasValue, TopInterval
<1> QED BY <1>1, <1>2, <1>3, <1>4 DEF ExprIn, ExprOK

(* A side of a comparison: it has a value in its interval, or may have any.*)
LEMMA SideAdmits ==
  ASSUME Width = 0, NEW p, NEW o \in Settings, NEW s \in AbstractState(p, o), NEW v \in Vals,
         Admits(s, v), NEW e, ExprIn(p, e), NEW is_int
  PROVE  /\ e.op # "nondet" =>
              /\ Eval(e, v) \in Int
              /\ HasValue(get_interval(s, e, is_int, o), Eval(e, v))
         /\ e.op = "nondet" => get_interval(s, e, is_int, o) = TopInterval
         /\ e.op = "var" => Eval(e, v) = v[e.x]
PROOF
<1>1. ASSUME e.op # "nondet" PROVE Eval(e, v) \in Values(e, v, {})
  <2>1. Values(e, v, {}) # {}
    BY <1>1 DEF Values, ExprIn, ExprOK
  <2> DEFINE S == Values(e, v, {})
  <2>2. S # {} /\ Eval(e, v) = CHOOSE c \in S : TRUE
    BY <2>1 DEF Eval
  <2> HIDE DEF S
  <2>3. Eval(e, v) \in S
    BY <2>2
  <2> QED BY <2>3 DEF S
<1>2. ASSUME e.op = "var" PROVE Eval(e, v) = v[e.x]
  <2>1. Values(e, v, {}) = {v[e.x]}
    BY <1>2 DEF Values
  <2> QED BY <1>1, <1>2, <2>1
<1>3. e.op = "nondet" => get_interval(s, e, is_int, o) = TopInterval
  BY DEF get_interval
<1>4. {} \in SUBSET Int
  OBVIOUS
<1> QED BY <1>1, <1>2, <1>3, <1>4, ExprAdmits

(* The side of a comparison takes an interval its value is in.             *)
LEMMA UpdateSideAdmits ==
  ASSUME NEW p, NEW o, NEW s \in AbstractState(p, o), NEW v \in Vals, Admits(s, v),
         NEW e, ExprIn(p, e), NEW i \in Good, e.op = "var" => HasValue(i, v[e.x])
  PROVE  UpdateSide(s, e, i) \in AbstractState(p, o) /\ Admits(UpdateSide(s, e, i), v)
PROOF
<1>0. ~s.bottom
  BY DEF Admits
<1>1. CASE e.op = "var"
  <2>1. UpdateSide(s, e, i) = update_symbol_interval(s, e.x, i)
    BY <1>1 DEF UpdateSide
  <2>2. e.x \in Ints(p) \cup Floats(p)
    BY <1>1 DEF ExprIn, ExprVars
  <2>3. update_symbol_interval(s, e.x, i) \in AbstractState(p, o)
    BY <1>0, <2>2, UpdateType
  <2>4. Admits(update_symbol_interval(s, e.x, i), v)
    BY <1>1, <2>2, UpdateAdmits
  <2> QED BY <2>1, <2>3, <2>4
<1>2. CASE e.op # "var"
  BY <1>2 DEF UpdateSide
<1> QED BY <1>1, <1>2

(* Intervals of values one of which is at most the other one.              *)
LEMMA ContractHas ==
  ASSUME NEW i \in Interval, NEW j \in Interval, NEW a, NEW b, NEW la \in BOOLEAN, NEW lb \in BOOLEAN,
         la => a \in Int /\ HasValue(i, a), lb => b \in Int /\ HasValue(j, b),
         ~la => i = TopInterval, ~lb => j = TopInterval, la /\ lb => a <= b
  PROVE  /\ la => HasValue(ContractLower(i, j), a)
         /\ lb => HasValue(ContractUpper(i, j), b)
         /\ ~Empty(ContractLower(i, j)) /\ ~Empty(ContractUpper(i, j))
PROOF
<1>0. /\ i.lower_set \in BOOLEAN /\ i.upper_set \in BOOLEAN /\ i.lower \in Int /\ i.upper \in Int
      /\ j.lower_set \in BOOLEAN /\ j.upper_set \in BOOLEAN /\ j.lower \in Int /\ j.upper \in Int
  BY DEF Interval
<1>1. CASE la /\ lb
  <2>1. HasValue(ContractLower(i, j), a)
    BY <1>0, <1>1 DEF HasValue, ContractLower, Bounds, Smaller
  <2>2. HasValue(ContractUpper(i, j), b)
    BY <1>0, <1>1 DEF HasValue, ContractUpper, Bounds, Larger
  <2>3. \A k \in Interval, c \in Int : HasValue(k, c) => ~Empty(k)
    BY DEF HasValue, Empty, Interval
  <2> QED BY <1>1, <2>1, <2>2, <2>3, ContractType
<1>2. CASE la /\ ~lb
  <2>1. j.upper_set = FALSE /\ ContractLower(i, j) = i
    BY <1>2 DEF ContractLower, TopInterval
  <2>2. ~Empty(i)
    BY <1>0, <1>2 DEF HasValue, Empty
  <2>3. ~Empty(ContractUpper(i, j))
    BY <1>2 DEF ContractUpper, TopInterval, Empty, Bounds
  <2> QED BY <1>2, <2>1, <2>2, <2>3
<1>3. CASE ~la /\ lb
  <2>1. i.lower_set = FALSE /\ ContractUpper(i, j) = j
    BY <1>3 DEF ContractUpper, TopInterval
  <2>2. ~Empty(j)
    BY <1>0, <1>3 DEF HasValue, Empty
  <2>3. ~Empty(ContractLower(i, j))
    BY <1>3 DEF ContractLower, TopInterval, Empty, Bounds
  <2> QED BY <1>3, <2>1, <2>2, <2>3
<1>4. CASE ~la /\ ~lb
  BY <1>4 DEF ContractLower, ContractUpper, TopInterval, Empty, Bounds
<1> QED BY <1>1, <1>2, <1>3, <1>4

Less(a, b, v) == a.op # "nondet" /\ b.op # "nondet" => Eval(a, v) <= Eval(b, v)

(* apply_assume_less keeps the values for which the comparison holds       *)
(* (interval_domain.cpp:381-414).                                          *)
LEMMA AssumeLessAdmits ==
  ASSUME Width = 0, NEW p, NEW o \in Settings, NEW s \in AbstractState(p, o), NEW v \in Vals,
         Admits(s, v), NEW a, ExprIn(p, a), NEW b, ExprIn(p, b), Less(a, b, v)
  PROVE  /\ apply_assume_less(s, a, b, o) \in AbstractState(p, o)
         /\ Admits(apply_assume_less(s, a, b, o), v)
PROOF
<1> DEFINE is_int == IsIntCmp(a, b)
           lhs == get_interval(s, a, is_int, o)
           rhs == get_interval(s, b, is_int, o)
           lower == ContractLower(lhs, rhs)
           upper == ContractUpper(lhs, rhs)
           t == UpdateSide(s, a, lower)
           u == UpdateSide(t, b, upper)
           la == a.op # "nondet"
           lb == b.op # "nondet"
<1>1. apply_assume_less(s, a, b, o) = Narrowed(s, a, b, lower, upper)
  BY DEF apply_assume_less
<1> HIDE DEF is_int
<1>2. lhs \in Interval /\ rhs \in Interval
  BY ExprInterval DEF Good
<1>3. /\ la => Eval(a, v) \in Int /\ HasValue(lhs, Eval(a, v))
      /\ ~la => lhs = TopInterval
      /\ a.op = "var" => Eval(a, v) = v[a.x]
  BY SideAdmits
<1>4. /\ lb => Eval(b, v) \in Int /\ HasValue(rhs, Eval(b, v))
      /\ ~lb => rhs = TopInterval
      /\ b.op = "var" => Eval(b, v) = v[b.x]
  BY SideAdmits
<1>5. la \in BOOLEAN /\ lb \in BOOLEAN /\ (la /\ lb => Eval(a, v) <= Eval(b, v))
      /\ (a.op = "var" => la) /\ (b.op = "var" => lb)
  BY DEF Less
<1> HIDE DEF lhs, rhs, la, lb
<1>6. lower \in Interval /\ upper \in Interval
  BY <1>2, ContractType
<1>7. /\ la => HasValue(lower, Eval(a, v))
      /\ lb => HasValue(upper, Eval(b, v))
      /\ ~Empty(lower) /\ ~Empty(upper)
  BY <1>2, <1>3, <1>4, <1>5, ContractHas
<1> HIDE DEF lower, upper
<1>8. ~s.bottom
  BY DEF Admits
<1>9. apply_assume_less(s, a, b, o) = u
  BY <1>1, <1>7, <1>8 DEF Narrowed
<1>10. lower \in Good /\ upper \in Good
  BY <1>6, <1>7 DEF Good
<1>11. t \in AbstractState(p, o) /\ Admits(t, v)
  BY <1>3, <1>5, <1>7, <1>10, UpdateSideAdmits
<1> HIDE DEF t
<1>12. u \in AbstractState(p, o) /\ Admits(u, v)
  BY <1>4, <1>5, <1>7, <1>10, <1>11, UpdateSideAdmits
<1> QED BY <1>9, <1>12

(* An assumed comparison keeps the values for which it holds, and a        *)
(* negated one those for which it does not (interval_domain.cpp:831-934).  *)
LEMMA AssumeCmpAdmits ==
  ASSUME Width = 0, NEW p, NEW o \in Settings, NEW s \in AbstractState(p, o), NEW v \in Vals,
         Admits(s, v), NEW g, CmpIn(p, g), NEW negation \in BOOLEAN,
         IF negation THEN ~HoldsCmp(g, v) ELSE HoldsCmp(g, v)
  PROVE  /\ AssumeOne(s, g, negation, o) \in AbstractState(p, o)
         /\ Admits(AssumeOne(s, g, negation, o), v)
PROOF
<1> DEFINE op == IF negation THEN Negated[g.op] ELSE g.op
           a == g.a
           b == g.b
           x == Eval(a, v)
           y == Eval(b, v)
<1>1. ExprIn(p, a) /\ ExprIn(p, b) /\ g.op \in {"lt", "le", "gt", "ge", "eq", "ne"}
  BY DEF CmpIn, Negated
<1>2. a.op # "nondet" /\ b.op # "nondet" => x \in Int /\ y \in Int
  BY <1>1, SideAdmits
<1>3. /\ op \in {"lt", "le", "gt", "ge", "eq", "ne"}
      /\ a.op # "nondet" /\ b.op # "nondet" =>
           /\ op \in {"lt", "le", "eq"} => x <= y
           /\ op \in {"gt", "ge", "eq"} => y <= x
  <2> DEFINE holds == HoldsCmp(g, v)
  <2>1. /\ g.op = "eq" => (holds <=> x = y)
        /\ g.op = "ne" => (holds <=> x # y)
        /\ g.op = "lt" => (holds <=> x < y)
        /\ g.op = "le" => (holds <=> x <= y)
        /\ g.op = "gt" => (holds <=> x > y)
        /\ g.op = "ge" => (holds <=> x >= y)
    BY DEF HoldsCmp
  <2>2. IF negation THEN ~holds ELSE holds
    OBVIOUS
  <2>3. CASE negation
    <3>1. op = Negated[g.op]
      BY <2>3
    <3>2. /\ g.op = "eq" => op = "ne"
          /\ g.op = "ne" => op = "eq"
          /\ g.op = "lt" => op = "ge"
          /\ g.op = "le" => op = "gt"
          /\ g.op = "gt" => op = "le"
          /\ g.op = "ge" => op = "lt"
      BY <3>1 DEF Negated
    <3> HIDE DEF x, y, a, b, op, holds
    <3> QED BY <1>1, <1>2, <2>1, <2>2, <2>3, <3>2
  <2>4. CASE ~negation
    <3>1. op = g.op
      BY <2>4
    <3> HIDE DEF x, y, a, b, op, holds
    <3> QED BY <1>1, <1>2, <2>1, <2>2, <2>4, <3>1
  <2> QED BY <2>3, <2>4
<1>4. /\ op \in {"lt", "le", "eq"} => Less(a, b, v)
      /\ op \in {"gt", "ge", "eq"} => Less(b, a, v)
  BY <1>3 DEF Less
<1>5. AssumeOne(s, g, negation, o) = assume_cmp(s, op, a, b, o)
  BY DEF AssumeOne
<1> HIDE DEF op, a, b, x, y
<1> DEFINE there == apply_assume_less(s, b, a, o)
           here == apply_assume_less(s, a, b, o)
           both == apply_assume_less(there, a, b, o)
<1>6. CASE op = "ne"
  <2>1. assume_cmp(s, op, a, b, o) = s
    BY <1>6 DEF assume_cmp
  <2> QED BY <1>5, <2>1
<1>7. CASE op \in {"lt", "le"}
  <2>1. assume_cmp(s, op, a, b, o) = here
    BY <1>7 DEF assume_cmp
  <2> QED BY <1>1, <1>4, <1>5, <1>7, <2>1, AssumeLessAdmits
<1>8. CASE op \in {"gt", "ge"}
  <2>1. assume_cmp(s, op, a, b, o) = there
    BY <1>8 DEF assume_cmp
  <2> QED BY <1>1, <1>4, <1>5, <1>8, <2>1, AssumeLessAdmits
<1>9. CASE op = "eq"
  <2>1. assume_cmp(s, op, a, b, o) = both
    BY <1>9 DEF assume_cmp
  <2>2. there \in AbstractState(p, o) /\ Admits(there, v)
    BY <1>1, <1>4, <1>9, AssumeLessAdmits
  <2> HIDE DEF there
  <2>3. both \in AbstractState(p, o) /\ Admits(both, v)
    BY <1>1, <1>4, <1>9, <2>2, AssumeLessAdmits
  <2> QED BY <1>5, <2>1, <2>3
<1> QED BY <1>3, <1>6, <1>7, <1>8, <1>9

(* So does an assumed guard.                                               *)
LEMMA AssumeRecAdmits ==
  ASSUME Width = 0, NEW p, NEW o \in Settings, NEW s \in AbstractState(p, o), NEW v \in Vals,
         Admits(s, v), NEW g, GuardIn(p, g), NEW negation \in BOOLEAN,
         IF negation THEN ~Holds(g, v) ELSE Holds(g, v)
  PROVE  /\ assume_rec(s, g, negation, o) \in AbstractState(p, o)
         /\ Admits(assume_rec(s, g, negation, o), v)
PROOF
<1>1. CASE g.op = "true"
  BY <1>1 DEF assume_rec
<1>2. CASE CmpIn(p, g)
  <2>1. g.op \notin {"true", "and", "or"}
    BY <1>2 DEF CmpIn, Negated
  <2>2. assume_rec(s, g, negation, o) = AssumeOne(s, g, negation, o)
    BY <2>1 DEF assume_rec, AssumeOne
  <2>3. Holds(g, v) = HoldsCmp(g, v)
    BY <2>1 DEF Holds
  <2>4. IF negation THEN ~HoldsCmp(g, v) ELSE HoldsCmp(g, v)
    BY <2>3
  <2> QED BY <1>2, <2>2, <2>4, AssumeCmpAdmits
<1>3. CASE g.op \in {"and", "or"} /\ negation = (g.op = "and")
  BY <1>3 DEF assume_rec
<1>4. CASE /\ g.op \in {"and", "or"} /\ negation # (g.op = "and")
           /\ Len(g.parts) \in Nat /\ DOMAIN g.parts = 1 .. Len(g.parts)
           /\ \A n \in DOMAIN g.parts : CmpIn(p, g.parts[n])
  <2> DEFINE D == {t \in AbstractState(p, o) : Admits(t, v)}
  <2>1. ASSUME NEW m \in 1 .. Len(g.parts)
        PROVE  IF negation THEN ~HoldsCmp(g.parts[m], v) ELSE HoldsCmp(g.parts[m], v)
    <3>1. CASE negation
      <4>1. g.op = "or" /\ ~Holds(g, v)
        BY <1>4, <3>1
      <4>2. ~(\E n \in DOMAIN g.parts : HoldsCmp(g.parts[n], v))
        BY <4>1 DEF Holds
      <4> QED BY <1>4, <3>1, <4>2
    <3>2. CASE ~negation
      <4>1. g.op = "and" /\ Holds(g, v)
        BY <1>4, <3>2
      <4>2. \A n \in DOMAIN g.parts : HoldsCmp(g.parts[n], v)
        BY <4>1 DEF Holds
      <4> QED BY <1>4, <3>2, <4>2
    <3> QED BY <3>1, <3>2
  <2>2. ASSUME NEW t \in D, NEW m \in 1 .. Len(g.parts)
        PROVE  AssumeOne(t, g.parts[m], negation, o) \in D
    <3> DEFINE c == g.parts[m]
    <3>1. /\ CmpIn(p, c)
          /\ IF negation THEN ~HoldsCmp(c, v) ELSE HoldsCmp(c, v)
      BY <1>4, <2>1
    <3> HIDE DEF c
    <3>2. /\ AssumeOne(t, c, negation, o) \in AbstractState(p, o)
          /\ Admits(AssumeOne(t, c, negation, o), v)
      BY <3>1, AssumeCmpAdmits
    <3> QED BY <3>2 DEF c
  <2>3. s \in D
    OBVIOUS
  <2> HIDE DEF D
  <2>4. assume_rec(s, g, negation, o) \in D
    BY <1>4, <2>2, <2>3, FoldStays
  <2> QED BY <2>4 DEF D
<1> QED BY <1>1, <1>2, <1>3, <1>4 DEF GuardIn

-----------------------------------------------------------------------------
(* What a program does inside a function                                   *)

(* The variables xs take the value c.                                      *)
Returned(v, xs, c) == [x \in DOMAIN v |-> IF x \in xs THEN c ELSE v[x]]

(* One instruction that is not a call of a function with a body, nor the   *)
(* end of one: from l with the values v to m with the values w.            *)
LocalStep(p, l, v, m, w) ==
  LET i == Instr(p, l)
      onward == m = Following(l)
  IN  \/ i.type = "GOTO" /\ Holds(i.guard, v) /\ m = Target(p, l) /\ w = v
      \/ i.type = "GOTO" /\ ~Holds(i.guard, v) /\ onward /\ w = v
      \/ i.type = "ASSUME" /\ Holds(i.guard, v) /\ onward /\ w = v
      \/ i.type = "ASSERT" /\ onward /\ w = v
      \/ i.type = "DECL" /\ onward /\ \E c \in Nondet : w = [v EXCEPT ![i.x] = c]
      \/ /\ i.type = "ASSIGN" /\ onward
         /\ \E c \in Values(i.e, v, Nondet) : w = [v EXCEPT ![i.x] = c]
      \/ /\ i.type = "FUNCTION_CALL" /\ i.function \notin DOMAIN p.body /\ onward
         /\ w = v \/ \E x \in i.ret, c \in Nondet : w = [v EXCEPT ![x] = c]
      \/ i.type = "RETURN" /\ m = EndOf(p, l[1]) /\ w = v

(* A variable is given a value.                                            *)
LEMMA ExceptVals ==
  ASSUME NEW v \in Vals, NEW x, NEW c \in Int, NEW w, w = [v EXCEPT ![x] = c]
  PROVE  /\ w \in Vals
         /\ \A y \in (IntVars \cup FloatVars) \ {x} : w[y] = v[y]
         /\ x \in IntVars \cup FloatVars => w[x] = c
BY DEF Vals

(* The value of an expression is an integer.                               *)
LEMMA ValuesType ==
  ASSUME Width = 0, NEW e, ExprOK(e), NEW v \in Vals, NEW c \in Values(e, v, Nondet)
  PROVE  c \in Int
PROOF
<1>1. e.op = "nondet" => c \in Int
  BY ReferenceAssumption DEF Values
<1>2. e.op \in {"var", "plus"} => v[e.x] \in Int
  BY DEF ExprOK, Vals
<1>3. e.op = "const" => c = e.c /\ e.c \in Int
  BY DEF ExprOK, Values
<1>4. e.op = "var" => c = v[e.x]
  BY DEF Values
<1>5. e.op = "plus" => c = v[e.x] + e.c /\ e.c \in Int
  BY DEF ExprOK, Values, Wrap
<1> QED BY <1>1, <1>2, <1>3, <1>4, <1>5 DEF ExprOK

(* A step leads along an edge of the function, to values.                  *)
LEMMA LocalStepType ==
  ASSUME Width = 0, NEW p, WellFormed(p), NEW l \in Location(p), NEW v \in Vals, NEW m, NEW w,
         LocalStep(p, l, v, m, w)
  PROVE  /\ m \in Location(p) /\ m[1] = l[1] /\ w \in Vals
         /\ m \in Range(get_successors(p, l)) /\ ~CallIn(p, l)
PROOF
<1> DEFINE i == Instr(p, l)
           t == Target(p, l)
           n == Following(l)
           to == get_successors(p, l)
<1>0. /\ l[1] \in DOMAIN p.body /\ l[2] \in 1 .. Len(p.body[l[1]])
      /\ i.type = "GOTO" => i.target \in 1 .. Len(p.body[l[1]])
      /\ i.type \in {"ASSIGN", "RETURN"} => ExprOK(i.e)
  BY LocationIs DEF WellFormed, Instr
<1>1. i.type # "END_FUNCTION"
  BY DEF LocalStep
<1>2. n \in Location(p) /\ n[1] = l[1]
  BY <1>1, FollowingIs
<1>3. CASE i.type = "GOTO"
  <2>1. t \in Location(p) /\ t[1] = l[1]
    BY <1>0, <1>3, LocationIntro DEF Target
  <2>2. to = <<t>> \o (IF i.guard.op = "true" THEN <<>> ELSE <<n>>)
    BY <1>3 DEF get_successors
  <2>3. w = v /\ IF Holds(i.guard, v) THEN m = t ELSE m = n
    BY <1>3 DEF LocalStep
  <2>4. i.guard.op = "true" => Holds(i.guard, v)
    BY DEF Holds
  <2> DEFINE g == i.guard
  <2> HIDE DEF t, n, to, g
  <2>5. <<t>> \o <<>> = <<t>> /\ <<t>> \o <<n>> = <<t, n>>
    BY SmallConcat
  <2>6. (to = <<t>> /\ m = t) \/ (to = <<t, n>> /\ m \in {t, n})
    BY <2>2, <2>3, <2>4, <2>5 DEF g
  <2>7. m \in Range(to)
    <3>1. CASE to = <<t>> /\ m = t
      BY <3>1 DEF Range
    <3>2. CASE to = <<t, n>> /\ m \in {t, n}
      <4>1. DOMAIN to = {1, 2} /\ to[1] = t /\ to[2] = n
        BY <3>2
      <4> QED BY <3>2, <4>1 DEF Range
    <3> QED BY <2>6, <3>1, <3>2
  <2> QED BY <1>2, <1>3, <2>1, <2>3, <2>7 DEF to, t, n, CallIn
<1>4. CASE i.type = "RETURN"
  <2>1. to = <<EndOf(p, l[1])>> /\ m = EndOf(p, l[1]) /\ w = v
    BY <1>4 DEF get_successors, LocalStep
  <2>2. m \in Range(to)
    <3> HIDE DEF to
    <3> QED BY <2>1 DEF Range
  <2> QED BY <1>0, <1>4, <2>1, <2>2, LocationsOfFunction DEF CallIn
<1>5. CASE i.type \notin {"GOTO", "RETURN"}
  <2>1. to = <<n>> /\ m = n
    BY <1>1, <1>5 DEF get_successors, LocalStep
  <2>2. m \in Range(to)
    <3> HIDE DEF to
    <3> QED BY <2>1 DEF Range
  <2>3. w = v \/ \E x, c : c \in Int /\ w = [v EXCEPT ![x] = c]
    <3>1. CASE i.type = "DECL"
      BY <3>1, ReferenceAssumption DEF LocalStep
    <3>2. CASE i.type = "ASSIGN"
      <4>1. PICK c \in Values(i.e, v, Nondet) : w = [v EXCEPT ![i.x] = c]
        BY <3>2 DEF LocalStep
      <4>2. c \in Int
        BY <1>0, <3>2, ValuesType
      <4> QED BY <4>1, <4>2
    <3>3. CASE i.type \notin {"DECL", "ASSIGN"}
      BY <1>5, <3>3, ReferenceAssumption DEF LocalStep
    <3> QED BY <3>1, <3>2, <3>3
  <2>4. w \in Vals
    <3>1. CASE w = v
      BY <3>1
    <3>2. CASE \E x, c : c \in Int /\ w = [v EXCEPT ![x] = c]
      <4>1. PICK x, c : c \in Int /\ w = [v EXCEPT ![x] = c]
        BY <3>2
      <4> QED BY <4>1, ExceptVals
    <3> QED BY <2>3, <3>1, <3>2
  <2>5. ~CallIn(p, l)
    BY <1>5 DEF LocalStep, CallIn
  <2> QED BY <1>2, <2>1, <2>2, <2>4, <2>5
<1> QED BY <1>3, <1>4, <1>5

(* The abstract effect of an instruction admits what the instruction does  *)
(* (interval_domain.cpp:640-701).                                          *)
LEMMA EffectAdmits ==
  ASSUME Width = 0, NEW p, WellFormed(p), NEW o \in Settings, NEW s \in AbstractState(p, o),
         NEW l \in Location(p), NEW v \in Vals, Admits(s, v), NEW m, NEW w, LocalStep(p, l, v, m, w)
  PROVE  Admits(Effect(p, o, s, l, m), w)
PROOF
<1> DEFINE i == Instr(p, l)
           e == Effect(p, o, s, l, m)
           aside == m = Following(l)
<1>0. w \in Vals
  BY LocalStepType
<1>1. CASE i.type = "DECL"
  <2>1. PICK c \in Nondet : w = [v EXCEPT ![i.x] = c]
    BY <1>1 DEF LocalStep
  <2>2. e = havoc_rec(s, {i.x})
    BY <1>1 DEF Effect
  <2> DEFINE x == i.x
             y == {x}
  <2>3. \A z \in (IntVars \cup FloatVars) \ {x} : w[z] = v[z]
    BY <2>1, ReferenceAssumption, ExceptVals
  <2> HIDE DEF x
  <2>4. Admits(havoc_rec(s, y), w)
    BY <1>0, <2>3, HavocAdmits
  <2> QED BY <2>2, <2>4 DEF x
<1>2. CASE i.type = "ASSIGN"
  <2> DEFINE x == i.x
             j == get_interval(s, i.e, i.x \in IntVars, o)
  <2>1. PICK c \in Values(i.e, v, Nondet) : w = [v EXCEPT ![x] = c]
    BY <1>2 DEF LocalStep
  <2>2. e = update_symbol_interval(s, x, j)
    BY <1>2 DEF Effect, apply_assignment
  <2>3. x \in Ints(p) \cup Floats(p) /\ ExprIn(p, i.e) /\ j \in Good
    BY <1>2, SymbolsNamed, ExprInterval
  <2>4. c \in Int /\ HasValue(j, c)
    BY <2>3, ReferenceAssumption, ExprAdmits
  <2>5. /\ \A z \in (IntVars \cup FloatVars) \ {x} : w[z] = v[z]
        /\ x \in IntVars \cup FloatVars /\ w[x] = c
    <3>1. x \in IntVars \cup FloatVars
      BY <2>3 DEF Ints, Floats
    <3> HIDE DEF x
    <3> QED BY <2>1, <2>4, <3>1, ExceptVals
  <2> HIDE DEF x, j
  <2>6. Admits(update_symbol_interval(s, x, j), w)
    BY <1>0, <2>3, <2>4, <2>5, UpdateAdmits
  <2> QED BY <2>2, <2>6
<1>3. CASE i.type = "GOTO"
  <2>1. w = v
    BY <1>3 DEF LocalStep
  <2>2. CASE Target(p, l) = Following(l)
    <3>1. e = s
      BY <1>3, <2>2 DEF Effect
    <3> QED BY <2>1, <3>1
  <2>3. CASE Target(p, l) # Following(l)
    <3>1. e = assume_rec(s, i.guard, aside, o)
      BY <1>3, <2>3 DEF Effect
    <3>2. GuardIn(p, i.guard) /\ aside \in BOOLEAN
      BY <1>3, SymbolsNamed
    <3>3. IF aside THEN ~Holds(i.guard, v) ELSE Holds(i.guard, v)
      BY <1>3, <2>3 DEF LocalStep
    <3> HIDE DEF aside
    <3>4. Admits(assume_rec(s, i.guard, aside, o), v)
      BY <3>2, <3>3, AssumeRecAdmits
    <3> QED BY <2>1, <3>1, <3>4
  <2> QED BY <2>2, <2>3
<1>4. CASE i.type = "ASSUME"
  <2>1. e = assume_rec(s, i.guard, FALSE, o)
    BY <1>4 DEF Effect
  <2>2. GuardIn(p, i.guard)
    BY <1>4, SymbolsNamed
  <2>3. w = v /\ Holds(i.guard, v)
    BY <1>4 DEF LocalStep
  <2>4. Admits(assume_rec(s, i.guard, FALSE, o), v)
    BY <2>2, <2>3, AssumeRecAdmits
  <2> QED BY <2>1, <2>3, <2>4
<1>5. CASE i.type = "FUNCTION_CALL"
  <2> DEFINE xs == i.ret
  <2>1. e = havoc_rec(s, xs)
    BY <1>5 DEF Effect
  <2>2. w = v \/ \E x \in xs, c \in Nondet : w = [v EXCEPT ![x] = c]
    BY <1>5 DEF LocalStep
  <2> HIDE DEF xs
  <2>3. \A z \in (IntVars \cup FloatVars) \ xs : w[z] = v[z]
    <3>1. CASE w = v
      BY <3>1
    <3>2. CASE \E x \in xs, c \in Nondet : w = [v EXCEPT ![x] = c]
      <4>1. PICK x \in xs, c \in Nondet : w = [v EXCEPT ![x] = c]
        BY <3>2
      <4> QED BY <4>1, ReferenceAssumption, ExceptVals
    <3> QED BY <2>2, <3>1, <3>2
  <2>4. Admits(havoc_rec(s, xs), w)
    BY <1>0, <2>3, HavocAdmits
  <2> QED BY <2>1, <2>4
<1>6. CASE i.type \notin {"DECL", "ASSIGN", "GOTO", "ASSUME", "FUNCTION_CALL"}
  <2>1. e = s
    BY <1>6 DEF Effect
  <2>2. w = v
    BY <1>6 DEF LocalStep
  <2> QED BY <2>1, <2>2
<1> QED BY <1>1, <1>2, <1>3, <1>4, <1>5, <1>6

(* Where a state has been carried, what a step makes of an admitted value  *)
(* is admitted there.                                                      *)
LEMMA CarriedAdmits ==
  ASSUME Width = 0, NEW p, WellFormed(p), NEW o \in Settings, NEW states \in States(p, o),
         NEW l \in Location(p), Carried(p, o, states, l), NEW v \in Vals, Admits(states[l], v),
         NEW m, NEW w, LocalStep(p, l, v, m, w)
  PROVE  Admits(states[m], w)
PROOF
<1> DEFINE s == states[l]
           t == states[m]
           e == Effect(p, o, s, l, m)
<1>1. /\ m \in Location(p) /\ w \in Vals /\ m \in Range(get_successors(p, l)) /\ ~CallIn(p, l)
  BY LocalStepType
<1>2. s \in AbstractState(p, o) /\ t \in AbstractState(p, o)
  BY <1>1 DEF States
<1>3. Refines(e, t)
  BY <1>1 DEF Carried
<1>4. e.bottom \/ e \in AbstractState(p, o)
  BY <1>2, EffectType
<1> HIDE DEF s
<1>5. Admits(e, w)
  BY <1>2, EffectAdmits DEF s
<1> HIDE DEF e, t
<1>6. Admits(t, w)
  BY <1>1, <1>2, <1>3, <1>4, <1>5, RefinesAdmits
<1> QED BY <1>6 DEF t

-----------------------------------------------------------------------------
(* The runs of functions                                                   *)

(* A run of a function: it was entered with some values, and control has   *)
(* come, calls completed, to a location of it with others.                 *)
Run(f, entry, at, val) == [function |-> f, entry |-> entry, at |-> at, val |-> val]

Runs(p) ==
  {r \in [function : DOMAIN p.body, entry : Vals, at : Location(p), val : Vals] :
     r.at[1] = r.function}

(* X holds the entries, what follows by one step, and what follows by a    *)
(* call from a run of the callee that is in X and any value it returns.    *)
Closed(p, X) ==
  /\ \A f \in DOMAIN p.body, v \in Vals : Run(f, v, Begin(f), v) \in X
  /\ \A f, v, l, u, m, w : Run(f, v, l, u) \in X /\ LocalStep(p, l, u, m, w) => Run(f, v, m, w) \in X
  /\ \A f, v, l, u, g, w : \A c \in Int :
       /\ Run(f, v, l, u) \in X /\ CallIn(p, l) /\ g = Instr(p, l).function
       /\ Run(g, u, EndOf(p, g), w) \in X
       => Run(f, v, Following(l), Returned(w, Instr(p, l).ret, c)) \in X

(* The runs there are: the least closed set.                               *)
Real(p) == {r \in Runs(p) : \A X \in SUBSET Runs(p) : Closed(p, X) => r \in X}

(* What a run consists of.                                                 *)
LEMMA RunIs ==
  ASSUME NEW p, NEW f, NEW v, NEW l, NEW u
  PROVE  Run(f, v, l, u) \in Runs(p) <=>
           /\ f \in DOMAIN p.body /\ v \in Vals /\ l \in Location(p) /\ u \in Vals /\ l[1] = f
PROOF
<1> DEFINE r == Run(f, v, l, u)
<1>1. r.function = f /\ r.entry = v /\ r.at = l /\ r.val = u
  BY DEF Run
<1>2. r \in [function : DOMAIN p.body, entry : Vals, at : Location(p), val : Vals] <=>
        f \in DOMAIN p.body /\ v \in Vals /\ l \in Location(p) /\ u \in Vals
  BY DEF Run
<1> HIDE DEF r
<1>3. r \in Runs(p) <=>
        /\ f \in DOMAIN p.body /\ v \in Vals /\ l \in Location(p) /\ u \in Vals /\ l[1] = f
  BY <1>1, <1>2 DEF Runs
<1> QED BY <1>3 DEF r

(* Two runs are the same only if they have the same parts.                 *)
LEMMA RunParts ==
  ASSUME NEW p, NEW r \in Runs(p)
  PROVE  r = Run(r.function, r.entry, r.at, r.val)
BY DEF Runs, Run

(* A returned value is a value.                                            *)
LEMMA ReturnedType ==
  ASSUME NEW v \in Vals, NEW xs, NEW c \in Int
  PROVE  /\ Returned(v, xs, c) \in Vals
         /\ \A x \in IntVars \cup FloatVars : Returned(v, xs, c)[x] = IF x \in xs THEN c ELSE v[x]
BY DEF Vals, Returned

(* All runs are closed.                                                    *)
LEMMA RunsClosed ==
  ASSUME Width = 0, NEW p, WellFormed(p)
  PROVE  Closed(p, Runs(p))
PROOF
<1>1. ASSUME NEW f \in DOMAIN p.body, NEW v \in Vals PROVE Run(f, v, Begin(f), v) \in Runs(p)
  BY LocationsOfFunction, RunIs
<1>2. ASSUME NEW f, NEW v, NEW l, NEW u, NEW m, NEW w, Run(f, v, l, u) \in Runs(p),
             LocalStep(p, l, u, m, w)
      PROVE  Run(f, v, m, w) \in Runs(p)
  <2>1. /\ f \in DOMAIN p.body /\ v \in Vals /\ l \in Location(p) /\ u \in Vals /\ l[1] = f
    BY <1>2, RunIs
  <2>2. m \in Location(p) /\ m[1] = l[1] /\ w \in Vals
    BY <1>2, <2>1, LocalStepType
  <2> QED BY <2>1, <2>2, RunIs
<1>3. ASSUME NEW f, NEW v, NEW l, NEW u, NEW g, NEW w, NEW c \in Int,
             Run(f, v, l, u) \in Runs(p), CallIn(p, l), g = Instr(p, l).function,
             Run(g, u, EndOf(p, g), w) \in Runs(p)
      PROVE  Run(f, v, Following(l), Returned(w, Instr(p, l).ret, c)) \in Runs(p)
  <2>1. /\ f \in DOMAIN p.body /\ v \in Vals /\ l \in Location(p) /\ u \in Vals /\ l[1] = f
    BY <1>3, RunIs
  <2>2. w \in Vals
    BY <1>3, RunIs
  <2>3. Following(l) \in Location(p) /\ Following(l)[1] = l[1]
    BY <1>3, <2>1, FollowingIs DEF CallIn
  <2>4. Returned(w, Instr(p, l).ret, c) \in Vals
    BY <2>2, ReturnedType
  <2> QED BY <2>1, <2>3, <2>4, RunIs
<1> QED BY <1>1, <1>2, <1>3 DEF Closed

(* The real runs are closed, and in every closed set of runs.              *)
LEMMA RealProperties ==
  ASSUME Width = 0, NEW p, WellFormed(p)
  PROVE  /\ Real(p) \subseteq Runs(p)
         /\ Closed(p, Real(p))
         /\ \A X \in SUBSET Runs(p) : Closed(p, X) => Real(p) \subseteq X
PROOF
<1>0. Real(p) \subseteq Runs(p) /\ \A X \in SUBSET Runs(p) : Closed(p, X) => Real(p) \subseteq X
  BY DEF Real
<1>1. ASSUME NEW f \in DOMAIN p.body, NEW v \in Vals PROVE Run(f, v, Begin(f), v) \in Real(p)
  <2>1. Run(f, v, Begin(f), v) \in Runs(p)
    BY RunsClosed DEF Closed
  <2>2. \A X \in SUBSET Runs(p) : Closed(p, X) => Run(f, v, Begin(f), v) \in X
    BY DEF Closed
  <2> QED BY <2>1, <2>2 DEF Real
<1>2. ASSUME NEW f, NEW v, NEW l, NEW u, NEW m, NEW w, Run(f, v, l, u) \in Real(p),
             LocalStep(p, l, u, m, w)
      PROVE  Run(f, v, m, w) \in Real(p)
  <2> DEFINE r == Run(f, v, l, u)
             s == Run(f, v, m, w)
  <2>1. \A X : Closed(p, X) /\ r \in X => s \in X
    BY <1>2 DEF Closed
  <2>2. r \in Runs(p) /\ \A X \in SUBSET Runs(p) : Closed(p, X) => r \in X
    BY <1>2 DEF Real
  <2> HIDE DEF r, s
  <2>3. s \in Runs(p)
    BY <2>1, <2>2, RunsClosed
  <2>4. s \in Real(p)
    BY <2>1, <2>2, <2>3 DEF Real
  <2> QED BY <2>4 DEF s
<1>3. ASSUME NEW f, NEW v, NEW l, NEW u, NEW g, NEW w, NEW c \in Int,
             Run(f, v, l, u) \in Real(p), CallIn(p, l), g = Instr(p, l).function,
             Run(g, u, EndOf(p, g), w) \in Real(p)
      PROVE  Run(f, v, Following(l), Returned(w, Instr(p, l).ret, c)) \in Real(p)
  <2> DEFINE r == Run(f, v, l, u)
             q == Run(g, u, EndOf(p, g), w)
             s == Run(f, v, Following(l), Returned(w, Instr(p, l).ret, c))
  <2>1. \A X : Closed(p, X) /\ r \in X /\ q \in X => s \in X
    BY <1>3 DEF Closed
  <2>2. r \in Runs(p) /\ q \in Runs(p) /\ r \in Real(p) /\ q \in Real(p)
    BY <1>0, <1>3
  <2> HIDE DEF r, s, q
  <2>3. \A X \in SUBSET Runs(p) : Closed(p, X) => r \in X /\ q \in X
    BY <1>0, <2>2
  <2>4. s \in Runs(p)
    BY <2>1, <2>2, RunsClosed
  <2>5. s \in Real(p)
    BY <2>1, <2>3, <2>4 DEF Real
  <2> QED BY <2>5 DEF s
<1>4. Closed(p, Real(p))
  BY <1>1, <1>2, <1>3 DEF Closed
<1> QED BY <1>0, <1>4

-----------------------------------------------------------------------------
(* What a program does not name                                            *)

(* The variables an instruction names.                                     *)
LEMMA InstructionSymbols ==
  ASSUME NEW p, WellFormed(p), NEW l \in Location(p), NEW i, i = Instr(p, l)
  PROVE  /\ i.type \in {"GOTO", "ASSUME"} => GuardOK(i.guard) /\ GuardVars(i.guard) \subseteq Symbols(p, l[1])
         /\ i.type \in {"DECL", "ASSIGN"} => i.x \in Symbols(p, l[1])
         /\ i.type = "ASSIGN" => ExprOK(i.e) /\ ExprVars(i.e) \subseteq Symbols(p, l[1])
         /\ i.type = "FUNCTION_CALL" => i.ret \subseteq Symbols(p, l[1])
PROOF
<1> DEFINE f == l[1]
           names == CASE i.type \in {"GOTO", "ASSUME", "ASSERT"} -> GuardVars(i.guard)
                      [] i.type = "DECL" -> {i.x}
                      [] i.type = "ASSIGN" -> {i.x} \cup ExprVars(i.e)
                      [] i.type = "FUNCTION_CALL" -> i.ret
                      [] i.type = "RETURN" -> ExprVars(i.e)
                      [] OTHER -> {}
<1>1. /\ f \in DOMAIN p.body /\ l[2] \in 1 .. Len(p.body[f]) /\ l[2] \in DOMAIN p.body[f]
      /\ i = p.body[f][l[2]]
  BY LocationIs DEF WellFormed, Instr
<1>2. /\ i.type \in {"GOTO", "ASSUME"} => GuardOK(i.guard)
      /\ i.type = "ASSIGN" => ExprOK(i.e)
  BY <1>1 DEF WellFormed
<1>3. names \subseteq Symbols(p, f)
  BY <1>1 DEF Symbols
<1>4. /\ i.type \in {"GOTO", "ASSUME"} => names = GuardVars(i.guard)
      /\ i.type = "DECL" => names = {i.x}
      /\ i.type = "ASSIGN" => names = {i.x} \cup ExprVars(i.e)
      /\ i.type = "FUNCTION_CALL" => names = i.ret
  OBVIOUS
<1> HIDE DEF names
<1> QED BY <1>2, <1>3, <1>4

(* An expression does not see variables it does not name.                  *)
LEMMA ValuesApart ==
  ASSUME NEW v \in Vals, NEW xs, NEW c \in Int, NEW e, ExprOK(e), ExprVars(e) \cap xs = {}, NEW inputs
  PROVE  Values(e, Returned(v, xs, c), inputs) = Values(e, v, inputs)
PROOF
<1> DEFINE r == Returned(v, xs, c)
<1>1. e.op \in {"var", "plus"} => r[e.x] = v[e.x]
  <2>1. e.op \in {"var", "plus"} => e.x \in IntVars \cup FloatVars /\ e.x \notin xs
    BY DEF ExprOK, ExprVars
  <2> QED BY <2>1, ReturnedType
<1> HIDE DEF r
<1>2. e.op \in {"const", "var", "plus", "nondet"}
  BY DEF ExprOK
<1>3. Values(e, r, inputs) = Values(e, v, inputs)
  BY <1>1, <1>2 DEF Values
<1> QED BY <1>3 DEF r

(* Neither does a comparison.                                              *)
LEMMA HoldsCmpApart ==
  ASSUME NEW v \in Vals, NEW xs, NEW c \in Int, NEW g, Comparison(g),
         (ExprVars(g.a) \cup ExprVars(g.b)) \cap xs = {}
  PROVE  HoldsCmp(g, Returned(v, xs, c)) = HoldsCmp(g, v)
PROOF
<1> DEFINE r == Returned(v, xs, c)
<1>1. Values(g.a, r, {}) = Values(g.a, v, {}) /\ Values(g.b, r, {}) = Values(g.b, v, {})
  BY ValuesApart DEF Comparison
<1> HIDE DEF r
<1>2. Eval(g.a, r) = Eval(g.a, v) /\ Eval(g.b, r) = Eval(g.b, v)
  BY <1>1 DEF Eval
<1>3. HoldsCmp(g, r) = HoldsCmp(g, v)
  BY <1>2 DEF HoldsCmp
<1> QED BY <1>3 DEF r

(* Nor does a guard.                                                       *)
LEMMA HoldsApart ==
  ASSUME NEW v \in Vals, NEW xs, NEW c \in Int, NEW g, GuardOK(g), GuardVars(g) \cap xs = {}
  PROVE  Holds(g, Returned(v, xs, c)) = Holds(g, v)
PROOF
<1> DEFINE r == Returned(v, xs, c)
<1>1. CASE g.op = "true"
  BY <1>1 DEF Holds
<1>2. CASE Comparison(g)
  <2>1. g.op \notin {"true", "and", "or"}
    BY <1>2 DEF Comparison, Negated
  <2>2. GuardVars(g) = ExprVars(g.a) \cup ExprVars(g.b)
    BY <2>1 DEF GuardVars
  <2>3. HoldsCmp(g, r) = HoldsCmp(g, v)
    BY <1>2, <2>2, HoldsCmpApart
  <2> HIDE DEF r
  <2>4. Holds(g, r) = Holds(g, v)
    BY <2>1, <2>3 DEF Holds
  <2> QED BY <2>4 DEF r
<1>3. CASE g.op \in {"and", "or"} /\ \A n \in DOMAIN g.parts : Comparison(g.parts[n])
  <2>1. GuardVars(g) = UNION {ExprVars(g.parts[n].a) \cup ExprVars(g.parts[n].b) : n \in DOMAIN g.parts}
    BY <1>3 DEF GuardVars
  <2>2. ASSUME NEW n \in DOMAIN g.parts PROVE HoldsCmp(g.parts[n], r) = HoldsCmp(g.parts[n], v)
    <3> DEFINE h == g.parts[n]
    <3>1. (ExprVars(h.a) \cup ExprVars(h.b)) \cap xs = {} /\ Comparison(h)
      BY <1>3, <2>1
    <3> HIDE DEF h
    <3>2. HoldsCmp(h, r) = HoldsCmp(h, v)
      BY <3>1, HoldsCmpApart
    <3> QED BY <3>2 DEF h
  <2> HIDE DEF r
  <2>3. g.op = "and" => Holds(g, r) = Holds(g, v)
    <3>1. ASSUME g.op = "and"
          PROVE  /\ Holds(g, r) = \A n \in DOMAIN g.parts : HoldsCmp(g.parts[n], r)
                 /\ Holds(g, v) = \A n \in DOMAIN g.parts : HoldsCmp(g.parts[n], v)
      BY <3>1 DEF Holds
    <3> QED BY <2>2, <3>1
  <2>4. g.op = "or" => Holds(g, r) = Holds(g, v)
    <3>1. ASSUME g.op = "or"
          PROVE  /\ Holds(g, r) = \E n \in DOMAIN g.parts : HoldsCmp(g.parts[n], r)
                 /\ Holds(g, v) = \E n \in DOMAIN g.parts : HoldsCmp(g.parts[n], v)
      BY <3>1 DEF Holds
    <3> QED BY <2>2, <3>1
  <2> QED BY <1>3, <2>3, <2>4 DEF r
<1> QED BY <1>1, <1>2, <1>3 DEF GuardOK

(* A step is one whatever the values of variables its function does not    *)
(* name, and leaves them as they are.                                      *)
LEMMA StepApart ==
  ASSUME Width = 0, NEW p, WellFormed(p), NEW l \in Location(p), NEW v \in Vals, NEW m, NEW w,
         LocalStep(p, l, v, m, w), NEW xs, NEW c \in Int, xs \cap Symbols(p, l[1]) = {}
  PROVE  LocalStep(p, l, Returned(v, xs, c), m, Returned(w, xs, c))
PROOF
<1> DEFINE i == Instr(p, l)
           V == Returned(v, xs, c)
           W == Returned(w, xs, c)
<1>1. /\ i.type \in {"GOTO", "ASSUME"} => GuardOK(i.guard) /\ GuardVars(i.guard) \cap xs = {}
      /\ i.type \in {"DECL", "ASSIGN"} => i.x \notin xs
      /\ i.type = "ASSIGN" => ExprOK(i.e) /\ ExprVars(i.e) \cap xs = {}
      /\ i.type = "FUNCTION_CALL" => i.ret \cap xs = {}
  <2> HIDE DEF i
  <2> QED BY InstructionSymbols DEF i
<1>2. i.type \in {"GOTO", "ASSUME"} => Holds(i.guard, V) = Holds(i.guard, v)
  BY <1>1, HoldsApart
<1>3. i.type = "ASSIGN" => Values(i.e, V, Nondet) = Values(i.e, v, Nondet)
  BY <1>1, ValuesApart
<1>4. w = v => W = V
  OBVIOUS
<1>5. ASSUME NEW x, x \notin xs, NEW d \in Int, w = [v EXCEPT ![x] = d]
      PROVE  W = [V EXCEPT ![x] = d]
  <2>1. DOMAIN v = DOMAIN w /\ \A y \in DOMAIN v : w[y] = IF y = x THEN d ELSE v[y]
    BY <1>5 DEF Vals
  <2> QED BY <1>5, <2>1 DEF Returned
<1>6. CASE i.type = "DECL"
  <2>1. m = Following(l)
    BY <1>6 DEF LocalStep
  <2>2. PICK d \in Nondet : w = [v EXCEPT ![i.x] = d]
    BY <1>6 DEF LocalStep
  <2>3. W = [V EXCEPT ![i.x] = d]
    <3> HIDE DEF i, V, W
    <3> QED BY <1>1, <1>5, <1>6, <2>2, ReferenceAssumption
  <2> HIDE DEF V, W
  <2>4. LocalStep(p, l, V, m, W)
    BY <1>6, <2>1, <2>3 DEF LocalStep
  <2> QED BY <2>4 DEF V, W
<1>7. CASE i.type = "ASSIGN"
  <2>1. m = Following(l)
    BY <1>7 DEF LocalStep
  <2>2. PICK d \in Values(i.e, v, Nondet) : w = [v EXCEPT ![i.x] = d]
    BY <1>7 DEF LocalStep
  <2>3. d \in Int
    BY <1>1, <1>7, ValuesType
  <2>4. W = [V EXCEPT ![i.x] = d] /\ d \in Values(i.e, V, Nondet)
    <3> HIDE DEF i, V, W
    <3> QED BY <1>1, <1>3, <1>5, <1>7, <2>2, <2>3
  <2> HIDE DEF V, W
  <2>5. LocalStep(p, l, V, m, W)
    BY <1>7, <2>1, <2>4 DEF LocalStep
  <2> QED BY <2>5 DEF V, W
<1>8. CASE i.type = "FUNCTION_CALL"
  <2>1. m = Following(l) /\ i.function \notin DOMAIN p.body
    BY <1>8 DEF LocalStep
  <2>2. w = v \/ \E x \in i.ret, d \in Nondet : w = [v EXCEPT ![x] = d]
    BY <1>8 DEF LocalStep
  <2>3. W = V \/ \E x \in i.ret, d \in Nondet : W = [V EXCEPT ![x] = d]
    <3>1. CASE w = v
      BY <1>4, <3>1
    <3>2. CASE \E x \in i.ret, d \in Nondet : w = [v EXCEPT ![x] = d]
      <4>1. PICK x \in i.ret, d \in Nondet : w = [v EXCEPT ![x] = d]
        BY <3>2
      <4> HIDE DEF i, V, W
      <4>2. x \notin xs /\ d \in Int
        BY <1>1, <1>8, ReferenceAssumption
      <4>3. W = [V EXCEPT ![x] = d]
        BY <1>5, <4>1, <4>2
      <4> QED BY <4>3
    <3> QED BY <2>2, <3>1, <3>2
  <2> HIDE DEF V, W
  <2>4. LocalStep(p, l, V, m, W)
    BY <1>8, <2>1, <2>3 DEF LocalStep
  <2> QED BY <2>4 DEF V, W
<1>9. CASE i.type \notin {"DECL", "ASSIGN", "FUNCTION_CALL"}
  <2>1. w = v
    BY <1>9 DEF LocalStep
  <2> HIDE DEF V, W
  <2>2. LocalStep(p, l, V, m, W)
    BY <1>2, <1>4, <1>9, <2>1 DEF LocalStep
  <2> QED BY <2>2 DEF V, W
<1> QED BY <1>6, <1>7, <1>8, <1>9

(* Entries are real; so is what follows by a step, and by a call.          *)
LEMMA RealRuns ==
  ASSUME Width = 0, NEW p, WellFormed(p)
  PROVE  /\ Real(p) \subseteq Runs(p)
         /\ \A f \in DOMAIN p.body, v \in Vals : Run(f, v, Begin(f), v) \in Real(p)
         /\ \A f, v, l, u, m, w :
              Run(f, v, l, u) \in Real(p) /\ LocalStep(p, l, u, m, w) => Run(f, v, m, w) \in Real(p)
         /\ \A f, v, l, u, g, w : \A c \in Int :
              /\ Run(f, v, l, u) \in Real(p) /\ CallIn(p, l) /\ g = Instr(p, l).function
              /\ Run(g, u, EndOf(p, g), w) \in Real(p)
              => Run(f, v, Following(l), Returned(w, Instr(p, l).ret, c)) \in Real(p)
PROOF
<1>1. Real(p) \subseteq Runs(p) /\ Closed(p, Real(p))
  BY RealProperties
<1> DEFINE R == Real(p)
<1>2. Closed(p, R) /\ R \subseteq Runs(p)
  BY <1>1
<1> HIDE DEF R
<1>3. /\ R \subseteq Runs(p)
      /\ \A f \in DOMAIN p.body, v \in Vals : Run(f, v, Begin(f), v) \in R
      /\ \A f, v, l, u, m, w :
           Run(f, v, l, u) \in R /\ LocalStep(p, l, u, m, w) => Run(f, v, m, w) \in R
      /\ \A f, v, l, u, g, w : \A c \in Int :
           /\ Run(f, v, l, u) \in R /\ CallIn(p, l) /\ g = Instr(p, l).function
           /\ Run(g, u, EndOf(p, g), w) \in R
           => Run(f, v, Following(l), Returned(w, Instr(p, l).ret, c)) \in R
  BY <1>2, Zenon DEF Closed
<1> QED BY <1>3 DEF R

(* A run with other values of xs.                                          *)
Varied(r, xs, c) == Run(r.function, Returned(r.entry, xs, c), r.at, Returned(r.val, xs, c))

(* What it consists of.                                                    *)
LEMMA VariedIs ==
  ASSUME NEW f, NEW v, NEW l, NEW u, NEW xs, NEW c
  PROVE  /\ Varied(Run(f, v, l, u), xs, c) = Run(f, Returned(v, xs, c), l, Returned(u, xs, c))
         /\ Run(f, v, l, u).function = f
BY DEF Varied, Run

(* Values given to disjoint sets of variables.                             *)
LEMMA ReturnedCommutes ==
  ASSUME NEW v, NEW xs, NEW c, NEW ys, NEW d, xs \cap ys = {}
  PROVE  Returned(Returned(v, xs, c), ys, d) = Returned(Returned(v, ys, d), xs, c)
BY DEF Returned

(* A run is one whatever the values of variables that nothing running      *)
(* meanwhile names.                                                        *)
LEMMA RunsApart ==
  ASSUME Width = 0, NEW p, WellFormed(p), NEW below, CallOrder(p, below), NEW g \in DOMAIN p.body,
         NEW xs, \A h \in {g} \cup below[g] : xs \cap Symbols(p, h) = {}, NEW c \in Int,
         NEW v, NEW l, NEW u, Run(g, v, l, u) \in Real(p)
  PROVE  Run(g, Returned(v, xs, c), l, Returned(u, xs, c)) \in Real(p)
PROOF
<1> DEFINE H == {g} \cup below[g]
           X == {r \in Real(p) : r.function \in H => Varied(r, xs, c) \in Real(p)}
<1>1. \A f \in H : below[f] \subseteq H /\ xs \cap Symbols(p, f) = {}
  BY DEF CallOrder
<1>2. g \in H
  OBVIOUS
<1> HIDE DEF H
<1>3. ASSUME NEW f, NEW w, NEW m, NEW z
      PROVE  Run(f, w, m, z) \in X <=>
               /\ Run(f, w, m, z) \in Real(p)
               /\ f \in H => Run(f, Returned(w, xs, c), m, Returned(z, xs, c)) \in Real(p)
  BY VariedIs
<1>4. X \in SUBSET Runs(p)
  BY RealRuns
<1> HIDE DEF X
<1>5. ASSUME NEW f \in DOMAIN p.body, NEW w \in Vals PROVE Run(f, w, Begin(f), w) \in X
  <2>1. Returned(w, xs, c) \in Vals
    BY ReturnedType
  <2>2. /\ Run(f, w, Begin(f), w) \in Real(p)
        /\ Run(f, Returned(w, xs, c), Begin(f), Returned(w, xs, c)) \in Real(p)
    BY <2>1, RealRuns
  <2> QED BY <1>3, <2>2
<1>6. ASSUME NEW f, NEW w, NEW m, NEW z, NEW n, NEW y, Run(f, w, m, z) \in X, LocalStep(p, m, z, n, y)
      PROVE  Run(f, w, n, y) \in X
  <2>1. /\ Run(f, w, m, z) \in Real(p)
        /\ f \in H => Run(f, Returned(w, xs, c), m, Returned(z, xs, c)) \in Real(p)
    BY <1>3, <1>6
  <2>2. Run(f, w, n, y) \in Real(p)
    BY <1>6, <2>1, RealRuns
  <2>3. m \in Location(p) /\ z \in Vals /\ m[1] = f
    BY <2>1, RealRuns, RunIs
  <2>4. ASSUME f \in H
        PROVE  Run(f, Returned(w, xs, c), n, Returned(y, xs, c)) \in Real(p)
    <3> DEFINE W == Returned(w, xs, c)
               Z == Returned(z, xs, c)
               Y == Returned(y, xs, c)
    <3>1. LocalStep(p, m, Z, n, Y)
      BY <1>1, <1>6, <2>3, <2>4, StepApart
    <3>2. Run(f, W, m, Z) \in Real(p)
      BY <2>1, <2>4
    <3> HIDE DEF W, Z, Y
    <3>3. Run(f, W, n, Y) \in Real(p)
      BY <3>1, <3>2, RealRuns
    <3> QED BY <3>3 DEF W, Y
  <2> QED BY <1>3, <2>2, <2>4
<1>7. ASSUME NEW f, NEW w, NEW m, NEW z, NEW k, NEW y, NEW d \in Int,
             Run(f, w, m, z) \in X, CallIn(p, m), k = Instr(p, m).function,
             Run(k, z, EndOf(p, k), y) \in X
      PROVE  Run(f, w, Following(m), Returned(y, Instr(p, m).ret, d)) \in X
  <2> DEFINE ys == Instr(p, m).ret
             n == Following(m)
             e == EndOf(p, k)
  <2>1. /\ Run(f, w, m, z) \in Real(p)
        /\ f \in H => Run(f, Returned(w, xs, c), m, Returned(z, xs, c)) \in Real(p)
    BY <1>3, <1>7
  <2>2. /\ Run(k, z, e, y) \in Real(p)
        /\ k \in H => Run(k, Returned(z, xs, c), e, Returned(y, xs, c)) \in Real(p)
    BY <1>3, <1>7
  <2>3. Run(f, w, n, Returned(y, ys, d)) \in Real(p)
    BY <1>7, <2>1, <2>2, RealRuns
  <2>4. m \in Location(p) /\ m[1] = f
    BY <2>1, RealRuns, RunIs
  <2>5. ASSUME f \in H
        PROVE  Run(f, Returned(w, xs, c), n, Returned(Returned(y, ys, d), xs, c)) \in Real(p)
    <3>1. k \in below[f]
      BY <1>7, <2>4 DEF CallOrder
    <3>2. k \in H
      BY <1>1, <2>5, <3>1
    <3>3. ys \subseteq Symbols(p, f)
      BY <1>7, <2>4, InstructionSymbols DEF CallIn
    <3>4. xs \cap ys = {}
      BY <1>1, <2>5, <3>3
    <3> DEFINE W == Returned(w, xs, c)
               Z == Returned(z, xs, c)
               Y == Returned(y, xs, c)
    <3>5. Run(f, W, m, Z) \in Real(p) /\ Run(k, Z, e, Y) \in Real(p)
      BY <2>1, <2>2, <2>5, <3>2
    <3>6. Returned(Returned(y, ys, d), xs, c) = Returned(Y, ys, d)
      BY <3>4, ReturnedCommutes
    <3> HIDE DEF W, Z, Y
    <3>7. Run(f, W, n, Returned(Y, ys, d)) \in Real(p)
      BY <1>7, <3>5, RealRuns
    <3> QED BY <3>6, <3>7 DEF W
  <2> QED BY <1>3, <2>3, <2>5
<1>8. Closed(p, X)
  BY <1>5, <1>6, <1>7 DEF Closed
<1>9. Real(p) \subseteq X
  BY <1>4, <1>8, RealProperties
<1> QED BY <1>2, <1>3, <1>9

-----------------------------------------------------------------------------
(* The states admit the runs                                               *)

(* Whatever the call at l returns is admitted behind it.                   *)
Summarized(p, states, l) ==
  LET g == Instr(p, l).function
  IN  \A u, w \in Vals, c \in Int :
        Admits(states[l], u) /\ Run(g, u, EndOf(p, g), w) \in Real(p)
          => Admits(states[Following(l)], Returned(w, Instr(p, l).ret, c))

(* Where nothing of a function is pending, its states admit its runs from  *)
(* values that are admitted at its beginning.                              *)
LEMMA FunctionAdmits ==
  ASSUME Width = 0, NEW p, WellFormed(p), NEW o \in Settings, NEW states \in States(p, o),
         NEW f \in DOMAIN p.body,
         \A l \in Location(p) :
           l[1] = f => Carried(p, o, states, l) /\ (CallIn(p, l) => Summarized(p, states, l)),
         NEW v, NEW l, NEW u, Run(f, v, l, u) \in Real(p), Admits(states[Begin(f)], v)
  PROVE  Admits(states[l], u)
PROOF
<1> DEFINE Fits(h, w, m, z) == h = f /\ Admits(states[Begin(f)], w) => Admits(states[m], z)
           X == {r \in Real(p) : Fits(r.function, r.entry, r.at, r.val)}
<1>1. ASSUME NEW h, NEW w, NEW m, NEW z
      PROVE  Run(h, w, m, z) \in X <=> Run(h, w, m, z) \in Real(p) /\ Fits(h, w, m, z)
  <2> HIDE DEF Fits
  <2> QED BY DEF Run
<1>2. X \in SUBSET Runs(p)
  BY RealRuns
<1> HIDE DEF X
<1>3. ASSUME NEW h \in DOMAIN p.body, NEW w \in Vals PROVE Run(h, w, Begin(h), w) \in X
  BY <1>1, RealRuns
<1>4. ASSUME NEW h, NEW w, NEW m, NEW z, NEW n, NEW y, Run(h, w, m, z) \in X, LocalStep(p, m, z, n, y)
      PROVE  Run(h, w, n, y) \in X
  <2>1. Run(h, w, m, z) \in Real(p) /\ Fits(h, w, m, z)
    BY <1>1, <1>4
  <2>2. Run(h, w, n, y) \in Real(p)
    BY <1>4, <2>1, RealRuns
  <2>3. m \in Location(p) /\ z \in Vals /\ m[1] = h
    BY <2>1, RealRuns, RunIs
  <2>4. ASSUME h = f, Admits(states[Begin(f)], w) PROVE Admits(states[n], y)
    <3>1. Admits(states[m], z)
      BY <2>1, <2>4
    <3>2. Carried(p, o, states, m)
      BY <2>3, <2>4
    <3> QED BY <1>4, <2>3, <3>1, <3>2, CarriedAdmits
  <2> QED BY <1>1, <2>2, <2>4
<1>5. ASSUME NEW h, NEW w, NEW m, NEW z, NEW k, NEW y, NEW d \in Int,
             Run(h, w, m, z) \in X, CallIn(p, m), k = Instr(p, m).function,
             Run(k, z, EndOf(p, k), y) \in X
      PROVE  Run(h, w, Following(m), Returned(y, Instr(p, m).ret, d)) \in X
  <2>1. Run(h, w, m, z) \in Real(p) /\ Fits(h, w, m, z) /\ Run(k, z, EndOf(p, k), y) \in Real(p)
    BY <1>1, <1>5
  <2>2. Run(h, w, Following(m), Returned(y, Instr(p, m).ret, d)) \in Real(p)
    BY <1>5, <2>1, RealRuns
  <2>3. m \in Location(p) /\ z \in Vals /\ m[1] = h /\ y \in Vals
    BY <2>1, RealRuns, RunIs
  <2>4. ASSUME h = f, Admits(states[Begin(f)], w)
        PROVE  Admits(states[Following(m)], Returned(y, Instr(p, m).ret, d))
    <3>1. Admits(states[m], z)
      BY <2>1, <2>4
    <3>2. Summarized(p, states, m)
      BY <1>5, <2>3, <2>4
    <3> QED BY <1>5, <2>1, <2>3, <3>1, <3>2 DEF Summarized
  <2> QED BY <1>1, <2>2, <2>4
<1>6. Closed(p, X)
  BY <1>3, <1>4, <1>5 DEF Closed
<1>7. Real(p) \subseteq X
  BY <1>2, <1>6, RealProperties
<1>8. Run(f, v, l, u) \in X
  BY <1>7
<1>9. Fits(f, v, l, u)
  BY <1>1, <1>8
<1> QED BY <1>9

(* Every location of a function has been carried along, and every call in  *)
(* it summarized.                                                          *)
Complete(p, o, states, f) ==
  \A l \in Location(p) :
    l[1] = f => Carried(p, o, states, l) /\ (CallIn(p, l) => Summarized(p, states, l))

(* A call is summarized once the function it calls is complete and its end *)
(* is carried behind the call.                                             *)
LEMMA CallSummarized ==
  ASSUME Width = 0, NEW p, WellFormed(p), NEW o \in Settings, NEW states \in States(p, o),
         NEW below, CallOrder(p, below), ReturnsApart(p, below),
         NEW l \in Location(p), CallIn(p, l), Carried(p, o, states, l),
         NEW g, g = Instr(p, l).function, Complete(p, o, states, g),
         Refines(states[EndOf(p, g)], states[Following(l)])
  PROVE  Summarized(p, states, l)
PROOF
<1> DEFINE xs == Instr(p, l).ret
           begin == Begin(g)
           end == EndOf(p, g)
           next == Following(l)
           s == states[l]
<1>1. g \in DOMAIN p.body /\ \A h \in {g} \cup below[g] : xs \cap Symbols(p, h) = {}
  BY DEF CallIn, ReturnsApart
<1>2. begin \in Location(p) /\ end \in Location(p) /\ next \in Location(p)
  BY <1>1, LocationsOfFunction, FollowingIs DEF CallIn
<1>3. s \in AbstractState(p, o) /\ states[begin] \in AbstractState(p, o)
      /\ states[end] \in AbstractState(p, o) /\ states[next] \in AbstractState(p, o)
  BY <1>2 DEF States
<1>4. Refines(havoc_rec(s, xs), states[begin])
  <2>1. Refines(Effect(p, o, s, l, begin), states[begin])
    BY DEF Carried
  <2>2. Effect(p, o, s, l, begin) = havoc_rec(s, xs)
    BY DEF Effect, CallIn
  <2> QED BY <2>1, <2>2
<1> HIDE DEF xs, begin, end, next, s
<1>5. ASSUME NEW u \in Vals, NEW w \in Vals, NEW c \in Int, Admits(s, u), Run(g, u, end, w) \in Real(p)
      PROVE  Admits(states[next], Returned(w, xs, c))
  <2> DEFINE U == Returned(u, xs, c)
             W == Returned(w, xs, c)
  <2>1. U \in Vals /\ W \in Vals /\ \A x \in (IntVars \cup FloatVars) \ xs : U[x] = u[x]
    BY <1>5, ReturnedType
  <2>2. Run(g, U, end, W) \in Real(p)
    BY <1>1, <1>5, RunsApart
  <2> HIDE DEF U, W
  <2>3. Admits(havoc_rec(s, xs), U)
    BY <1>3, <1>5, <2>1, HavocAdmits
  <2>4. havoc_rec(s, xs) \in AbstractState(p, o)
    BY <1>3, HavocType
  <2>5. Admits(states[begin], U)
    BY <1>3, <1>4, <2>1, <2>3, <2>4, RefinesAdmits
  <2>6. Admits(states[end], W)
    BY <1>1, <2>2, <2>5, FunctionAdmits DEF Complete, begin
  <2>7. Admits(states[next], W)
    BY <1>3, <2>1, <2>6, RefinesAdmits DEF end, next
  <2> QED BY <2>7 DEF W
<1> QED BY <1>5 DEF Summarized, s, end, xs, next

(* A summary is kept while the state at the call stays and the one behind  *)
(* it grows.                                                               *)
LEMMA SummarizedStays ==
  ASSUME Width = 0, NEW p, WellFormed(p), NEW o \in Settings, ~o.narrowing,
         NEW states \in States(p, o), NEW after, NEW changed, Grown(p, o, states, after, changed),
         NEW l \in Location(p) \ changed, CallIn(p, l), Summarized(p, states, l)
  PROVE  Summarized(p, after, l)
PROOF
<1> DEFINE next == Following(l)
           g == Instr(p, l).function
           xs == Instr(p, l).ret
<1>1. next \in Location(p)
  BY FollowingIs DEF CallIn
<1>2. /\ after[l] = states[l] /\ Refines(states[next], after[next])
      /\ states[next] \in AbstractState(p, o) /\ after[next] \in AbstractState(p, o)
  BY <1>1 DEF Grown, States
<1> HIDE DEF next, g, xs
<1>3. ASSUME NEW u \in Vals, NEW w \in Vals, NEW c \in Int, Admits(after[l], u),
             Run(g, u, EndOf(p, g), w) \in Real(p)
      PROVE  Admits(after[next], Returned(w, xs, c))
  <2>1. Admits(states[next], Returned(w, xs, c))
    BY <1>2, <1>3 DEF Summarized, next, g, xs
  <2>2. Returned(w, xs, c) \in Vals
    BY ReturnedType
  <2> DEFINE W == Returned(w, xs, c)
  <2> HIDE DEF W
  <2>3. Admits(after[next], W)
    BY <1>2, <2>1, <2>2, RefinesAdmits DEF W
  <2> QED BY <2>3 DEF W
<1> QED BY <1>3 DEF Summarized, g, xs, next

-----------------------------------------------------------------------------
(* Summaries while the stack grows and shrinks                             *)

(* Each fixpoint on the stack is of a function below those under it.       *)
LEMMA StackChain ==
  ASSUME NEW p, WellFormed(p), NEW states, NEW st, StackOK(p, states, st),
         NEW below, CallOrder(p, below), NEW n \in 1 .. Len(st), NEW m \in 1 .. Len(st), n < m
  PROVE  FunctionIn(p, st, m) \in below[FunctionIn(p, st, n)]
PROOF
<1> DEFINE F(i) == FunctionIn(p, st, i)
           k == Len(st)
           S == {d \in Nat : n + 1 + d <= k => F(n + 1 + d) \in below[F(n)]}
<1>1. k \in Nat
  BY LenProperties DEF StackOK
<1>2. ASSUME NEW i \in 2 .. k PROVE F(i) \in DOMAIN p.body /\ F(i) \in below[F(i - 1)]
  <2>1. /\ st[i].call \in Location(p) /\ CallIn(p, st[i].call)
        /\ st[i].call[1] = F(i - 1) /\ i # 1
    BY DEF StackOK
  <2>2. F(i) = Instr(p, st[i].call).function
    BY <2>1 DEF FunctionIn
  <2> QED BY <2>1, <2>2 DEF CallOrder, CallIn
<1>3. F(1) \in DOMAIN p.body
  BY DEF FunctionIn, WellFormed
<1>4. F(n) \in DOMAIN p.body /\ \A g \in below[F(n)] : below[g] \subseteq below[F(n)]
  <2>1. F(n) \in DOMAIN p.body
    BY <1>1, <1>2, <1>3
  <2> QED BY <2>1 DEF CallOrder
<1> HIDE DEF F, k
<1>5. 0 \in S
  <2>1. n + 1 <= k => n + 1 \in 2 .. k /\ n + 1 - 1 = n
    BY <1>1
  <2>2. n + 1 <= k => F(n + 1) \in below[F(n)]
    BY <1>2, <2>1
  <2> QED BY <2>2
<1>6. ASSUME NEW d \in S PROVE d + 1 \in S
  <2> DEFINE i == n + 1 + d
  <2>1. i \in Nat /\ d \in Nat /\ n + 1 + (d + 1) = i + 1 /\ (i <= k => F(i) \in below[F(n)])
    OBVIOUS
  <2> HIDE DEF i
  <2>2. ASSUME i + 1 <= k PROVE F(i + 1) \in below[F(n)]
    <3>1. i <= k /\ i + 1 \in 2 .. k
      BY <1>1, <2>1, <2>2 DEF i
    <3> DEFINE j == i + 1
    <3>2. j \in 2 .. k /\ j - 1 = i
      BY <2>1, <3>1
    <3> HIDE DEF j
    <3>3. F(j) \in below[F(i)]
      BY <1>2, <3>2
    <3> QED BY <1>4, <2>1, <3>1, <3>3 DEF j
  <2> QED BY <2>1, <2>2
<1>7. S = Nat
  BY <1>5, <1>6, NatSetInduction
<1> DEFINE d == m - n - 1
<1>8. d \in Nat /\ n + 1 + d = m /\ m <= k
  BY <1>1 DEF k
<1> HIDE DEF d
<1>9. d \in S
  BY <1>7, <1>8
<1>10. n + 1 + d <= k => F(n + 1 + d) \in below[F(n)]
  BY <1>9
<1> QED BY <1>8, <1>10 DEF F

(* The calls that are neither pending nor in progress are summarized.      *)
SummariesIn(p, states, st) ==
  \A l \in Location(p) \ (PendingIn(st) \cup InProgress(st)) : CallIn(p, l) => Summarized(p, states, l)

(* Nothing of a function below the one whose fixpoint is on top is pending *)
(* or in progress.                                                         *)
LEMMA BelowIsQuiet ==
  ASSUME NEW p, WellFormed(p), NEW states, NEW st, StackOK(p, states, st), st # <<>>,
         NEW below, CallOrder(p, below), NEW g, g \in below[LastFunction(p, st)],
         NEW l \in Location(p), l[1] = g
  PROVE  l \notin PendingIn(st) /\ l \notin InProgress(st)
PROOF
<1> DEFINE k == Len(st)
           F(i) == FunctionIn(p, st, i)
<1>1. k \in Nat \ {0} /\ DOMAIN st = 1 .. k
  BY EmptySeq, LenProperties DEF StackOK
<1>2. \A i \in 1 .. k : F(i) \in DOMAIN p.body
  <2>1. \A i \in 2 .. k : F(i) \in DOMAIN p.body
    BY DEF StackOK, FunctionIn, CallIn
  <2>2. F(1) \in DOMAIN p.body
    BY DEF FunctionIn, WellFormed
  <2> QED BY <1>1, <2>1, <2>2
<1>3. ASSUME NEW i \in 1 .. k PROVE g # F(i)
  <2>1. g \in below[F(k)]
    BY DEF LastFunction
  <2>2. CASE i = k
    BY <1>2, <2>1, <2>2 DEF CallOrder
  <2>3. CASE i # k
    <3>0. \A a \in Nat : \A j \in 1 .. a : j # a => j < a /\ a \in 1 .. a
      OBVIOUS
    <3>1. i < k /\ k \in 1 .. k
      BY <1>1, <2>3, <3>0
    <3>2. F(k) \in below[F(i)]
      BY <3>1, StackChain
    <3> QED BY <1>2, <2>1, <3>2 DEF CallOrder
  <2> QED BY <2>2, <2>3
<1>4. ASSUME NEW i \in 1 .. k, l \in st[i].working_set PROVE FALSE
  <2>1. l[1] = F(i)
    BY <1>4 DEF StackOK
  <2> QED BY <1>3, <2>1
<1>5. ASSUME NEW i \in 2 .. k, l = st[i].call PROVE FALSE
  <2>1. l[1] = F(i - 1) /\ i - 1 \in 1 .. k
    BY <1>1, <1>5 DEF StackOK
  <2> QED BY <1>3, <2>1
<1> QED BY <1>1, <1>4, <1>5 DEF PendingIn, InProgress

(* A step keeps the summaries, and the call it is done with, if it is one, *)
(* gets its own.                                                           *)
LEMMA StepSummarizes ==
  ASSUME Width = 0, NEW p, WellFormed(p), NEW o \in Settings, ~o.narrowing,
         NEW states \in States(p, o), NEW after, NEW changed, Grown(p, o, states, after, changed),
         NEW below, CallOrder(p, below), ReturnsApart(p, below),
         NEW st, SummariesIn(p, states, st),
         NEW new, StackOK(p, after, new), new # <<>>, changed \subseteq PendingIn(new),
         \A k \in Location(p) \ PendingIn(new) : Carried(p, o, after, k),
         NEW l, PendingIn(st) \subseteq PendingIn(new) \cup {l},
         InProgress(st) \subseteq InProgress(new) \cup {l},
         CallIn(p, l) /\ l \notin InProgress(new) =>
           /\ l[1] = LastFunction(p, new)
           /\ Refines(states[EndOf(p, Instr(p, l).function)], after[Following(l)])
  PROVE  SummariesIn(p, after, new)
PROOF
<1>0. after \in States(p, o)
  BY DEF Grown
<1>1. ASSUME NEW k \in Location(p) \ (PendingIn(new) \cup InProgress(new)), CallIn(p, k), k # l
      PROVE  Summarized(p, after, k)
  <2>1. k \notin PendingIn(st) \cup InProgress(st) /\ k \in Location(p) \ changed
    BY <1>1
  <2>2. Summarized(p, states, k)
    BY <1>1, <2>1 DEF SummariesIn
  <2> QED BY <1>1, <2>1, <2>2, SummarizedStays
<1>2. ASSUME l \in Location(p) \ (PendingIn(new) \cup InProgress(new)), CallIn(p, l)
      PROVE  Summarized(p, after, l)
  <2> DEFINE g == Instr(p, l).function
             end == EndOf(p, g)
  <2>1. g \in below[LastFunction(p, new)] /\ g \in DOMAIN p.body /\ g # l[1]
    <3>1. l[1] = LastFunction(p, new) /\ g \in below[l[1]] /\ g \in DOMAIN p.body
      BY <1>2 DEF CallOrder, CallIn
    <3>2. l[1] \in DOMAIN p.body
      BY <1>2, LocationIs
    <3> QED BY <3>1, <3>2 DEF CallOrder
  <2>2. end \in Location(p) /\ end[1] = g
    BY <2>1, LocationsOfFunction
  <2> HIDE DEF g, end
  <2>3. \A k \in Location(p) : k[1] = g => k \notin PendingIn(new) /\ k \notin InProgress(new) /\ k # l
    BY <2>1, BelowIsQuiet
  <2>4. Complete(p, o, after, g)
    BY <1>1, <2>3 DEF Complete
  <2>5. Refines(after[end], after[Following(l)])
    <3>1. after[end] = states[end]
      BY <2>2, <2>3 DEF Grown
    <3> QED BY <1>2, <3>1 DEF end, g
  <2> QED BY <1>0, <1>2, <2>4, <2>5, CallSummarized DEF end, g
<1> QED BY <1>1, <1>2 DEF SummariesIn

-----------------------------------------------------------------------------
(* The invariant of soundness                                              *)

(* The values a program starts with.                                       *)
Zeros == [x \in IntVars \cup FloatVars |-> 0]

(* What soundness is proved of.                                            *)
Plain(p, o) == Width = 0 /\ ~o.narrowing /\ OneKind(p) /\ Layered(p)

(* The states are carried along, calls are summarized unless pending or in *)
(* progress, the first values are admitted, and the assumptions are of the *)
(* final states.                                                           *)
SoundInv ==
  /\ AnalysisInv
  /\ Plain(program, options) =>
       SummariesIn(program, state_map, stack) /\ Admits(state_map[Begin(Main)], Zeros)
  /\ Done => assumptions = [l \in {k \in Location(program) : Instrumented(k)} |-> Assumed(l)]

(* Nothing is summarized, nor needs to be, at the start.                   *)
LEMMA InitSound == Init => SoundInv
PROOF
<1> SUFFICES ASSUME Init PROVE SoundInv
  OBVIOUS
<1>1. AnalysisInv
  BY InitInv
<1>2. WellFormed(program) /\ options \in Settings
  BY <1>1, CaseType DEF AnalysisInv
<1>3. state_map = [l \in Location(program) |-> IF l = Begin(Main) THEN TopState ELSE Bottom]
      /\ stack = <<Frame(Main, NoCall)>>
  BY DEF Init
<1>4. Begin(Main) \in Location(program)
  BY <1>2, LocationsOfFunction DEF WellFormed
<1>5. Begin(Main) \in PendingIn(stack)
  <2> DEFINE f == Frame(Main, NoCall)
  <2>1. f.working_set = {Begin(Main)} /\ stack = <<f>>
    BY <1>3 DEF Frame
  <2> HIDE DEF f
  <2>2. DOMAIN stack = {1} /\ stack[1] = f
    BY <2>1
  <2> QED BY <2>1, <2>2 DEF PendingIn
<1>6. ASSUME NEW l \in Location(program) \ (PendingIn(stack) \cup InProgress(stack))
      PROVE  Summarized(program, state_map, l)
  <2>1. state_map[l].bottom
    BY <1>3, <1>5, <1>6 DEF Bottom
  <2>2. \A u : ~Admits(state_map[l], u)
    BY <2>1 DEF Admits
  <2> QED BY <2>2 DEF Summarized
<1>7. Admits(state_map[Begin(Main)], Zeros)
  <2>1. state_map[Begin(Main)] = TopState
    BY <1>3, <1>4
  <2>2. ~TopState.bottom /\ Mapped(TopState) = {}
    BY DEF TopState, Bottom, Mapped, NoMap
  <2> QED BY <2>1, <2>2 DEF Admits
<1>8. ~Done
  <2> DEFINE f == Frame(Main, NoCall)
  <2> HIDE DEF f
  <2>1. <<f>> # <<>>
    OBVIOUS
  <2> QED BY <1>3, <2>1 DEF Done, f
<1> QED BY <1>1, <1>6, <1>7, <1>8 DEF SoundInv, SummariesIn

(* A step that does something to the states.                               *)
LEMMA ProceedsSound ==
  ASSUME SoundInv, AnalysisInv', Proceeds, program' = program, options' = options
  PROVE  SoundInv'
PROOF
<1>0. WellFormed(program) /\ options \in Settings /\ state_map \in States(program, options)
  BY CaseType DEF SoundInv, AnalysisInv
<1>1. PICK changed, l :
        /\ Grown(program, options, state_map, state_map', changed)
        /\ changed \subseteq PendingIn(stack')
        /\ PendingIn(stack) \subseteq PendingIn(stack') \cup {l}
        /\ InProgress(stack) \subseteq InProgress(stack') \cup {l}
        /\ stack' # <<>>
        /\ ~options.narrowing /\ OneKind(program) /\ CallIn(program, l) /\ l \notin InProgress(stack') =>
             /\ l[1] = LastFunction(program, stack')
             /\ Refines(state_map[EndOf(program, Instr(program, l).function)], state_map'[Following(l)])
  BY DEF Proceeds
<1>2. ~Done'
  BY <1>1 DEF Done
<1>3. ASSUME Plain(program, options)
      PROVE  SummariesIn(program, state_map', stack') /\ Admits(state_map'[Begin(Main)], Zeros)
  <2>1. /\ SummariesIn(program, state_map, stack) /\ Admits(state_map[Begin(Main)], Zeros)
        /\ Width = 0 /\ ~options.narrowing /\ OneKind(program)
    BY <1>3 DEF SoundInv, Plain
  <2>2. PICK below : CallOrder(program, below) /\ ReturnsApart(program, below)
    BY <1>3 DEF Plain, Layered
  <2>3. /\ StackOK(program, state_map', stack')
        /\ \A k \in Location(program) \ PendingIn(stack') : Carried(program, options, state_map', k)
    BY <2>1 DEF AnalysisInv
  <2>4. SummariesIn(program, state_map', stack')
    BY <1>0, <1>1, <2>1, <2>2, <2>3, StepSummarizes
  <2>5. Admits(state_map'[Begin(Main)], Zeros)
    <3> DEFINE b == Begin(Main)
    <3>1. b \in Location(program)
      BY <1>0, LocationsOfFunction DEF WellFormed
    <3> HIDE DEF b
    <3>2. Refines(state_map[b], state_map'[b]) /\ state_map[b] \in AbstractState(program, options)
          /\ state_map'[b] \in AbstractState(program, options)
      BY <1>0, <1>1, <2>1, <3>1 DEF Grown, States
    <3>3. Zeros \in Vals
      BY DEF Zeros, Vals
    <3>4. Admits(state_map'[b], Zeros)
      BY <2>1, <3>2, <3>3, RefinesAdmits DEF b
    <3> QED BY <3>4 DEF b
  <2> QED BY <2>4, <2>5
<1> QED BY <1>2, <1>3 DEF SoundInv

(* Every step keeps it.                                                    *)
LEMMA NextSound == SoundInv /\ [Next]_vars => SoundInv'
PROOF
<1>1. ASSUME SoundInv, UNCHANGED vars PROVE SoundInv'
  <2>1. program' = program /\ options' = options /\ state_map' = state_map /\ stack' = stack
        /\ assumptions' = assumptions
    BY <1>1 DEF vars
  <2>2. AnalysisInv'
    BY <1>1, NextKeeps DEF SoundInv
  <2>3. Done' = Done /\ (\A k : Instrumented(k)' = Instrumented(k)) /\ \A l : Assumed(l)' = Assumed(l)
    BY <2>1 DEF Done, Instrumented, Assumed
  <2> QED BY <1>1, <2>1, <2>2, <2>3 DEF SoundInv
<1>2. ASSUME SoundInv, stack # <<>>, visit PROVE SoundInv'
  BY <1>2, VisitKeeps, ProceedsSound DEF SoundInv, visit
<1>3. ASSUME SoundInv, stack # <<>>, do_function_call PROVE SoundInv'
  BY <1>3, CallKeeps, ProceedsSound DEF SoundInv, do_function_call
<1>4. ASSUME SoundInv, Return PROVE SoundInv'
  BY <1>4, ReturnKeeps, ProceedsSound DEF SoundInv, Return
<1>5. ASSUME SoundInv, instrument_intervals PROVE SoundInv'
  <2>1. /\ Len(stack) = 1 /\ Top.working_set = {} /\ stack' = <<>>
        /\ program' = program /\ options' = options /\ state_map' = state_map
        /\ assumptions' = [l \in {k \in Location(program) : Instrumented(k)} |-> Assumed(l)]
    BY <1>5 DEF instrument_intervals
  <2>2. AnalysisInv'
    BY <1>5, EndKeeps DEF SoundInv
  <2>3. PendingIn(stack) = {} /\ InProgress(stack) = {}
    <3>1. DOMAIN stack = 1 .. 1
      BY <1>5, <2>1, LenProperties DEF SoundInv, AnalysisInv, StackOK
    <3>2. 2 .. 1 = {}
      OBVIOUS
    <3> QED BY <2>1, <3>1, <3>2 DEF PendingIn, Top, InProgress
  <2>4. SummariesIn(program, state_map, stack) => SummariesIn(program, state_map', stack')
    BY <2>1, <2>3 DEF SummariesIn
  <2>5. (\A k : Instrumented(k)' = Instrumented(k)) /\ \A l : Assumed(l)' = Assumed(l)
    BY <2>1 DEF Instrumented, Assumed
  <2> QED BY <1>5, <2>1, <2>2, <2>4, <2>5 DEF SoundInv
<1> QED BY <1>1, <1>2, <1>3, <1>4, <1>5 DEF Next

(* Whatever is neither pending nor in progress is summarized: what a call  *)
(* of it can return is admitted behind it (ai.cpp:169-238).                *)
THEOREM SummariesInvariant == Spec => []SoundInv
PROOF
<1> QED BY InitSound, NextSound, PTL DEF Spec

-----------------------------------------------------------------------------
(* The executions                                                          *)

(* The steps of the reference stay in a set that has the first one and     *)
(* what can follow each: the layers of its recursion exist, by induction   *)
(* on their number.                                                        *)
LEMMA StepsStay ==
  ASSUME NEW p, NEW V, NEW inputs, NEW depth \in Nat, NEW G,
         [to |-> Start(V), jumped |-> FALSE] \in G,
         \A s \in G : Moves(p, inputs, s.to) \subseteq G
  PROVE  Steps(p, V, inputs, depth) \subseteq G
PROOF
<1> DEFINE first == {[to |-> Start(V), jumped |-> FALSE]}
           start == [all |-> first, last |-> first]
           new(b) == UNION {Moves(p, inputs, step.to) : step \in b.last} \ b.all
           after(b) == [all |-> b.all \cup new(b), last |-> new(b)]
           Good1(g, k) == \A n \in 0 .. k : g[n] = IF n = 0 THEN start ELSE after(g[n - 1])
           Deep(k) == \E g : Good1(g, k)
           Depths == {k \in Nat : Deep(k)}
           Found == CHOOSE f : f = [n \in 0 .. depth |-> IF n = 0 THEN start ELSE after(f[n - 1])]
<1>0. Steps(p, V, inputs, depth) = Found[depth].all
  BY DEF Steps
<1>00. /\ start.all \subseteq G /\ start.last \subseteq G
       /\ \A b : b.all \subseteq G /\ b.last \subseteq G =>
            after(b).all \subseteq G /\ after(b).last \subseteq G
  OBVIOUS
<1> HIDE DEF start, after
<1>1. 0 \in Depths
  <2>1. Good1([n \in {0} |-> start], 0)
    OBVIOUS
  <2> QED BY <2>1
<1>2. ASSUME NEW k \in Depths PROVE k + 1 \in Depths
  <2>1. PICK g : Good1(g, k)
    OBVIOUS
  <2> DEFINE h == [n \in 0 .. k + 1 |-> IF n = k + 1 THEN after(g[k]) ELSE g[n]]
  <2>2. Good1(h, k + 1)
    <3> TAKE n \in 0 .. k + 1
    <3>1. CASE n = k + 1
      BY <3>1
    <3>2. CASE n # k + 1
      <4>1. n \in 0 .. k /\ h[n] = g[n]
        BY <3>2
      <4>2. n # 0 => h[n - 1] = g[n - 1]
        BY <4>1
      <4> QED BY <4>1, <4>2, <2>1
    <3> QED BY <3>1, <3>2
  <2> HIDE DEF Good1, h
  <2>3. Deep(k + 1)
    BY <2>2
  <2> HIDE DEF Deep
  <2> QED BY <2>3
<1>3. Depths = Nat
  BY <1>1, <1>2, NatSetInduction
<1>4. PICK g : Good1(g, depth)
  BY <1>3
<1>5. \E f : f = [n \in 0 .. depth |-> IF n = 0 THEN start ELSE after(f[n - 1])]
  <2> DEFINE f == [n \in 0 .. depth |-> g[n]]
  <2>1. ASSUME NEW n \in 0 .. depth PROVE f[n] = IF n = 0 THEN start ELSE after(f[n - 1])
    BY <1>4
  <2> HIDE DEF f
  <2>2. f = [n \in 0 .. depth |-> f[n]]
    BY DEF f
  <2>3. f = [n \in 0 .. depth |-> IF n = 0 THEN start ELSE after(f[n - 1])]
    BY <2>1, <2>2
  <2> QED BY <2>3
<1>6. Found = [n \in 0 .. depth |-> IF n = 0 THEN start ELSE after(Found[n - 1])]
  BY <1>5
<1> HIDE DEF Found
<1> DEFINE S == {n \in Nat : n <= depth => Found[n].all \subseteq G /\ Found[n].last \subseteq G}
<1>7. 0 \in S
  BY <1>6, <1>00
<1>8. ASSUME NEW n \in S PROVE n + 1 \in S
  <2>1. ASSUME n + 1 <= depth PROVE Found[n + 1] = after(Found[n])
    BY <1>6, <2>1
  <2>2. n + 1 <= depth => n <= depth
    OBVIOUS
  <2> QED BY <1>00, <2>1, <2>2
<1>9. S \in SUBSET Nat
  OBVIOUS
<1> HIDE DEF S
<1>10. depth \in S
  BY <1>7, <1>8, <1>9, NatSetInduction
<1> QED BY <1>0, <1>10 DEF S

(* The configurations of executions.                                       *)
Configs(p) == [at : Location(p), calls : Seq(Location(p)), ret : Int, val : Vals]

(* The three ways an execution goes on: inside a function, into one and    *)
(* back from one.                                                          *)
LocalMove(p, cfg, to) ==
  /\ LocalStep(p, cfg.at, cfg.val, to.at, to.val)
  /\ to = [cfg EXCEPT !.at = to.at, !.ret = to.ret, !.val = to.val]
  /\ to.ret \in Int

CallMove(p, cfg, to) ==
  /\ CallIn(p, cfg.at)
  /\ to = [cfg EXCEPT !.at = Begin(Instr(p, cfg.at).function), !.calls = <<cfg.at>> \o cfg.calls]

ReturnMove(p, cfg, to) ==
  /\ Instr(p, cfg.at).type = "END_FUNCTION" /\ cfg.calls # <<>>
  /\ to = [at |-> Following(Head(cfg.calls)), calls |-> Tail(cfg.calls), ret |-> 0,
           val |-> Returned(cfg.val, Instr(p, Head(cfg.calls)).ret, cfg.ret)]

(* The end of a function is where its END_FUNCTION is.                     *)
LEMMA EndIs ==
  ASSUME NEW p, WellFormed(p), NEW l \in Location(p), Instr(p, l).type = "END_FUNCTION"
  PROVE  l = EndOf(p, l[1])
PROOF
<1>1. /\ l = <<l[1], l[2]>> /\ l[1] \in DOMAIN p.body /\ l[2] \in 1 .. Len(p.body[l[1]])
  BY LocationIs
<1>2. l[2] = Len(p.body[l[1]])
  BY <1>1 DEF WellFormed, Instr
<1> QED BY <1>1, <1>2 DEF EndOf

(* What an execution does next: a step inside a function, a call or a      *)
(* return.                                                                 *)
LEMMA MovesAre ==
  ASSUME Width = 0, NEW p, WellFormed(p), NEW cfg \in Configs(p), NEW t \in Moves(p, Nondet, cfg)
  PROVE  /\ t = [to |-> t.to, jumped |-> t.jumped] /\ t.jumped \in BOOLEAN
         /\ LocalMove(p, cfg, t.to) \/ CallMove(p, cfg, t.to) \/ ReturnMove(p, cfg, t.to)
PROOF
<1> DEFINE l == cfg.at
           i == Instr(p, l)
           v == cfg.val
           m == t.to.at
           w == t.to.val
           go(k, val, jumped) == [to |-> [cfg EXCEPT !.at = k, !.val = val], jumped |-> jumped]
           Local == /\ LocalStep(p, l, v, m, w)
                    /\ t.to = [cfg EXCEPT !.at = m, !.ret = t.to.ret, !.val = w]
                    /\ t.to.ret \in Int
           Shape == t = [to |-> t.to, jumped |-> t.jumped] /\ t.jumped \in BOOLEAN
<1>0. /\ l \in Location(p) /\ v \in Vals /\ cfg.ret \in Int
      /\ cfg = [at |-> l, calls |-> cfg.calls, ret |-> cfg.ret, val |-> v]
  BY DEF Configs
<1>1. ASSUME NEW k, NEW val, NEW jumped \in BOOLEAN, t = go(k, val, jumped)
      PROVE  /\ Shape
             /\ m = k /\ w = val
             /\ t.to = [cfg EXCEPT !.at = m, !.ret = t.to.ret, !.val = w]
             /\ t.to.ret \in Int
  BY <1>0, <1>1
<1>2. ASSUME i.type = "GOTO" PROVE Shape /\ Local
  <2>1. t = IF Holds(i.guard, v) THEN go(Target(p, l), v, TRUE) ELSE go(Following(l), v, FALSE)
    BY <1>2 DEF Moves
  <2> HIDE DEF Shape, go, i, l, v, m, w
  <2>2. CASE Holds(i.guard, v)
    <3>1. t = go(Target(p, l), v, TRUE)
      BY <2>1, <2>2
    <3> QED BY <1>1, <1>2, <2>2, <3>1 DEF LocalStep, i
  <2>3. CASE ~Holds(i.guard, v)
    <3>1. t = go(Following(l), v, FALSE)
      BY <2>1, <2>3
    <3> QED BY <1>1, <1>2, <2>3, <3>1 DEF LocalStep, i
  <2> QED BY <2>2, <2>3
<1>3. ASSUME i.type = "ASSUME" PROVE Shape /\ Local
  <2>1. Holds(i.guard, v) /\ t = go(Following(l), v, FALSE)
    BY <1>3 DEF Moves
  <2> HIDE DEF Shape, go, i, l, v, m, w
  <2> QED BY <1>1, <1>3, <2>1 DEF LocalStep, i
<1>4. ASSUME i.type = "ASSERT" PROVE Shape /\ Local
  <2>1. t = go(Following(l), v, FALSE)
    BY <1>4 DEF Moves
  <2> HIDE DEF Shape, go, i, l, v, m, w
  <2> QED BY <1>1, <1>4, <2>1 DEF LocalStep, i
<1>5. ASSUME i.type = "DECL" PROVE Shape /\ Local
  <2>1. PICK val \in Assigned(cfg, {i.x}, Nondet) : t = go(Following(l), val, FALSE)
    BY <1>5 DEF Moves
  <2>2. \E c \in Nondet : val = [v EXCEPT ![i.x] = c]
    BY DEF Assigned
  <2> HIDE DEF Shape, go, i, l, v, m, w
  <2>3. Shape /\ m = Following(l) /\ w = val /\ t.to.ret \in Int
        /\ t.to = [cfg EXCEPT !.at = m, !.ret = t.to.ret, !.val = w]
    BY <1>1, <2>1
  <2>4. LocalStep(p, l, v, m, w)
    BY <1>5, <2>2, <2>3 DEF LocalStep, i
  <2> QED BY <2>3, <2>4
<1>6. ASSUME i.type = "ASSIGN" PROVE Shape /\ Local
  <2>1. PICK val \in Assigned(cfg, {i.x}, Values(i.e, v, Nondet)) : t = go(Following(l), val, FALSE)
    BY <1>6 DEF Moves
  <2>2. \E c \in Values(i.e, v, Nondet) : val = [v EXCEPT ![i.x] = c]
    BY DEF Assigned
  <2> HIDE DEF Shape, go, i, l, v, m, w
  <2>3. Shape /\ m = Following(l) /\ w = val /\ t.to.ret \in Int
        /\ t.to = [cfg EXCEPT !.at = m, !.ret = t.to.ret, !.val = w]
    BY <1>1, <2>1
  <2>4. LocalStep(p, l, v, m, w)
    BY <1>6, <2>2, <2>3 DEF LocalStep, i
  <2> QED BY <2>3, <2>4
<1>7. ASSUME i.type = "FUNCTION_CALL", i.function \in DOMAIN p.body
      PROVE  /\ Shape /\ CallIn(p, l)
             /\ t.to = [cfg EXCEPT !.at = Begin(i.function), !.calls = <<l>> \o cfg.calls]
  <2>1. t = [to |-> [cfg EXCEPT !.at = Begin(i.function), !.calls = <<l>> \o cfg.calls],
             jumped |-> FALSE]
    BY <1>7 DEF Moves
  <2> QED BY <1>7, <2>1 DEF CallIn
<1>8. ASSUME i.type = "FUNCTION_CALL", i.function \notin DOMAIN p.body PROVE Shape /\ Local
  <2>1. t \in IF i.ret = {} THEN {go(Following(l), v, FALSE)}
              ELSE {go(Following(l), val, FALSE) : val \in Assigned(cfg, i.ret, Nondet)}
    BY <1>8 DEF Moves
  <2>2. \/ t = go(Following(l), v, FALSE)
        \/ \E val \in Assigned(cfg, i.ret, Nondet) : t = go(Following(l), val, FALSE)
    <3> HIDE DEF go
    <3> QED BY <2>1
  <2>5. \A val \in Assigned(cfg, i.ret, Nondet) : \E x \in i.ret, c \in Nondet : val = [v EXCEPT ![x] = c]
    BY DEF Assigned
  <2> HIDE DEF Shape, go, i, l, v, m, w
  <2>3. CASE t = go(Following(l), v, FALSE)
    BY <1>1, <1>8, <2>3 DEF LocalStep, i
  <2>4. ASSUME NEW val \in Assigned(cfg, i.ret, Nondet), t = go(Following(l), val, FALSE)
        PROVE  Shape /\ Local
    <3>1. Shape /\ m = Following(l) /\ w = val /\ t.to.ret \in Int
          /\ t.to = [cfg EXCEPT !.at = m, !.ret = t.to.ret, !.val = w]
      BY <1>1, <2>4
    <3>2. \E x \in i.ret, c \in Nondet : w = [v EXCEPT ![x] = c]
      BY <2>4, <2>5, <3>1
    <3>3. LocalStep(p, l, v, m, w)
      BY <1>8, <3>1, <3>2 DEF LocalStep, i
    <3> QED BY <3>1, <3>3
  <2> QED BY <2>2, <2>3, <2>4
<1>9. ASSUME i.type = "RETURN" PROVE Shape /\ Local
  <2>1. PICK c \in Values(i.e, v, Nondet) :
          t = [to |-> [cfg EXCEPT !.at = EndOf(p, l[1]), !.ret = c], jumped |-> TRUE]
    BY <1>9 DEF Moves
  <2>2. c \in Int
    <3>1. ExprOK(i.e)
      BY <1>0, <1>9, LocationIs DEF WellFormed, Instr
    <3> QED BY <1>0, <3>1, ValuesType
  <2>3. Shape /\ m = EndOf(p, l[1]) /\ w = v /\ t.to.ret = c
        /\ t.to = [cfg EXCEPT !.at = m, !.ret = t.to.ret, !.val = w]
    BY <1>0, <2>1
  <2> HIDE DEF Shape, go, i, l, v, m, w
  <2> QED BY <1>9, <2>2, <2>3 DEF LocalStep, i
<1>10. ASSUME i.type = "END_FUNCTION"
       PROVE  /\ Shape /\ cfg.calls # <<>>
              /\ t.to = [at |-> Following(Head(cfg.calls)), calls |-> Tail(cfg.calls), ret |-> 0,
                         val |-> Returned(v, Instr(p, Head(cfg.calls)).ret, cfg.ret)]
  <2>1. cfg.calls # <<>>
    BY <1>10 DEF Moves
  <2>2. t = [to |-> [at |-> Following(Head(cfg.calls)), calls |-> Tail(cfg.calls), ret |-> 0,
                     val |-> Returned(v, Instr(p, Head(cfg.calls)).ret, cfg.ret)],
             jumped |-> FALSE]
    BY <1>10, <2>1 DEF Moves, Returned
  <2> QED BY <2>1, <2>2
<1>11. i.type \in InstructionTypes
  BY <1>0, LocationIs DEF WellFormed, Instr
<1>12. Local => LocalMove(p, cfg, t.to)
  BY DEF LocalMove
<1>13. CASE i.type = "FUNCTION_CALL" /\ i.function \in DOMAIN p.body
  BY <1>7, <1>13 DEF CallMove
<1>14. CASE i.type = "END_FUNCTION"
  BY <1>10, <1>14 DEF ReturnMove
<1> HIDE DEF Local, i
<1>15. CASE /\ i.type # "END_FUNCTION"
            /\ i.type = "FUNCTION_CALL" => i.function \notin DOMAIN p.body
  <2>1. Shape /\ Local
    <3> HIDE DEF Shape
    <3> QED BY <1>2, <1>3, <1>4, <1>5, <1>6, <1>8, <1>9, <1>11, <1>15 DEF InstructionTypes
  <2> QED BY <1>12, <2>1
<1> QED BY <1>13, <1>14, <1>15

(* The functions being executed, the innermost as 0.                       *)
FunctionAt(at, calls, i) == IF i = 0 THEN at[1] ELSE calls[i][1]

(* e holds the values with which each function being executed was entered. *)
Traced(p, states, at, calls, val, e) ==
  /\ e \in [0 .. Len(calls) -> Vals]
  /\ Run(at[1], e[0], at, val) \in Real(p)
  /\ \A i \in 0 .. Len(calls) : Admits(states[Begin(FunctionAt(at, calls, i))], e[i])
  /\ \A i \in 1 .. Len(calls) :
       /\ CallIn(p, calls[i]) /\ Instr(p, calls[i]).function = FunctionAt(at, calls, i - 1)
       /\ Run(calls[i][1], e[i], calls[i], e[i - 1]) \in Real(p)

(* A step inside a function.                                               *)
LEMMA TraceLocal ==
  ASSUME Width = 0, NEW p, WellFormed(p), NEW states, NEW l \in Location(p),
         NEW calls \in Seq(Location(p)), NEW v \in Vals,
         NEW e, Traced(p, states, l, calls, v, e), NEW m, NEW w, LocalStep(p, l, v, m, w)
  PROVE  Traced(p, states, m, calls, w, e)
PROOF
<1>1. m[1] = l[1]
  BY LocalStepType
<1>2. \A i : FunctionAt(m, calls, i) = FunctionAt(l, calls, i)
  BY <1>1 DEF FunctionAt
<1>3. Run(l[1], e[0], l, v) \in Real(p)
  BY DEF Traced
<1>4. Run(m[1], e[0], m, w) \in Real(p)
  BY <1>1, <1>3, RealRuns
<1> QED BY <1>2, <1>4 DEF Traced

(* A call.                                                                 *)
LEMMA TraceCall ==
  ASSUME Width = 0, NEW p, WellFormed(p), NEW states, NEW l \in Location(p),
         NEW calls \in Seq(Location(p)), NEW v \in Vals,
         NEW e, Traced(p, states, l, calls, v, e),
         CallIn(p, l), NEW g, g = Instr(p, l).function, Admits(states[Begin(g)], v),
         NEW more, more = <<l>> \o calls
  PROVE  \E d : Traced(p, states, Begin(g), more, v, d)
PROOF
<1> DEFINE k == Len(calls)
           d == [i \in 0 .. k + 1 |-> IF i = 0 THEN v ELSE e[i - 1]]
           b == Begin(g)
<1>1. /\ k \in Nat /\ Len(more) = k + 1
      /\ more[1] = l /\ \A i \in 1 .. k : more[i + 1] = calls[i]
  <2>1. <<l>> \in Seq(Location(p)) /\ Len(<<l>>) = 1 /\ <<l>>[1] = l
    OBVIOUS
  <2>2. k \in Nat
    BY LenProperties
  <2> DEFINE o == <<l>>
  <2>3. o \in Seq(Location(p)) /\ Len(o) = 1 /\ o[1] = l /\ more = o \o calls
    BY <2>1
  <2> HIDE DEF o
  <2>4. /\ Len(more) = 1 + k
        /\ \A i \in 1 .. 1 + k : more[i] = IF i <= 1 THEN o[i] ELSE calls[i - 1]
    BY <2>3, ConcatProperties
  <2> QED BY <2>2, <2>3, <2>4
<1> HIDE DEF k
<1>2. \A i \in 0 .. k : FunctionAt(b, more, i + 1) = FunctionAt(l, calls, i)
  <2>1. FunctionAt(b, more, 1) = FunctionAt(l, calls, 0)
    BY <1>1 DEF FunctionAt
  <2>2. ASSUME NEW i \in 1 .. k PROVE FunctionAt(b, more, i + 1) = FunctionAt(l, calls, i)
    BY <1>1 DEF FunctionAt
  <2> QED BY <1>1, <2>1, <2>2
<1>3. FunctionAt(b, more, 0) = g /\ b[1] = g
  BY DEF FunctionAt, Begin
<1>4. /\ e \in [0 .. k -> Vals]
      /\ Run(l[1], e[0], l, v) \in Real(p)
      /\ \A i \in 0 .. k : Admits(states[Begin(FunctionAt(l, calls, i))], e[i])
      /\ \A i \in 1 .. k :
           /\ CallIn(p, calls[i]) /\ Instr(p, calls[i]).function = FunctionAt(l, calls, i - 1)
           /\ Run(calls[i][1], e[i], calls[i], e[i - 1]) \in Real(p)
  BY DEF Traced, k
<1>5. d \in [0 .. k + 1 -> Vals] /\ d[0] = v /\ \A i \in 0 .. k : d[i + 1] = e[i]
  <2>1. \A i \in 0 .. k + 1 : i # 0 => i - 1 \in 0 .. k
    BY <1>1
  <2>2. d \in [0 .. k + 1 -> Vals]
    BY <1>4, <2>1
  <2>3. \A i \in 0 .. k : i + 1 \in 0 .. k + 1 /\ i + 1 # 0 /\ i + 1 - 1 = i
    BY <1>1
  <2>4. \A i \in 0 .. k : d[i + 1] = e[i]
    BY <2>3
  <2> QED BY <1>1, <2>2, <2>4
<1> HIDE DEF d
<1>6. Run(b[1], d[0], b, v) \in Real(p)
  <2>1. g \in DOMAIN p.body
    BY DEF CallIn
  <2> QED BY <1>3, <1>5, <2>1, RealRuns
<1>7. ASSUME NEW i \in 0 .. k + 1 PROVE Admits(states[Begin(FunctionAt(b, more, i))], d[i])
  <2>1. CASE i = 0
    BY <1>3, <1>5, <2>1
  <2>2. CASE i # 0
    <3> DEFINE j == i - 1
    <3>1. j \in 0 .. k /\ j + 1 = i
      BY <1>1, <2>2
    <3> HIDE DEF j
    <3>2. FunctionAt(b, more, i) = FunctionAt(l, calls, j) /\ d[i] = e[j]
      BY <1>2, <1>5, <3>1
    <3> QED BY <1>4, <3>1, <3>2
  <2> QED BY <2>1, <2>2
<1>8. ASSUME NEW i \in 1 .. k + 1
      PROVE  /\ CallIn(p, more[i]) /\ Instr(p, more[i]).function = FunctionAt(b, more, i - 1)
             /\ Run(more[i][1], d[i], more[i], d[i - 1]) \in Real(p)
  <2>1. CASE i = 1
    <3>1. more[i] = l /\ d[i] = e[0] /\ d[i - 1] = v /\ FunctionAt(b, more, i - 1) = g
      BY <1>1, <1>3, <1>5, <2>1
    <3> QED BY <1>4, <3>1
  <2>2. CASE i # 1
    <3> DEFINE j == i - 1
    <3>1. j \in 1 .. k /\ j \in 0 .. k /\ j - 1 \in 0 .. k /\ j + 1 = i /\ (j - 1) + 1 = j
      BY <1>1, <2>2
    <3>2. FunctionAt(b, more, j) = FunctionAt(l, calls, j - 1) /\ d[j] = e[j - 1]
      <4> DEFINE h == j - 1
      <4>1. h \in 0 .. k /\ h + 1 = j
        BY <3>1
      <4> HIDE DEF h, j
      <4>2. FunctionAt(b, more, j) = FunctionAt(l, calls, h) /\ d[j] = e[h]
        BY <1>2, <1>5, <4>1
      <4> QED BY <4>2 DEF h
    <3> HIDE DEF j
    <3>3. more[i] = calls[j] /\ d[i] = e[j]
      BY <1>1, <1>5, <3>1
    <3> QED BY <1>4, <3>1, <3>2, <3>3 DEF j
  <2> QED BY <2>1, <2>2
<1>9. Traced(p, states, b, more, v, d)
  BY <1>1, <1>5, <1>6, <1>7, <1>8 DEF Traced
<1> QED BY <1>9

(* A return.                                                               *)
LEMMA TraceReturn ==
  ASSUME Width = 0, NEW p, WellFormed(p), NEW states, NEW l \in Location(p),
         NEW calls \in Seq(Location(p)), calls # <<>>, NEW v \in Vals,
         NEW e, Traced(p, states, l, calls, v, e), l = EndOf(p, l[1]),
         NEW call, call = Head(calls), NEW fewer, fewer = Tail(calls), NEW c \in Int
  PROVE  \E d : Traced(p, states, Following(call), fewer, Returned(v, Instr(p, call).ret, c), d)
PROOF
<1> DEFINE k == Len(calls)
           d == [i \in 0 .. k - 1 |-> e[i + 1]]
           n == Following(call)
           w == Returned(v, Instr(p, call).ret, c)
<1>1. /\ k \in Nat \ {0} /\ Len(fewer) = k - 1 /\ call = calls[1] /\ call \in Location(p)
      /\ \A i \in 1 .. k - 1 : fewer[i] = calls[i + 1]
  BY EmptySeq, LenProperties, HeadTailProperties
<1> HIDE DEF k
<1>2. /\ e \in [0 .. k -> Vals]
      /\ Run(l[1], e[0], l, v) \in Real(p)
      /\ \A i \in 0 .. k : Admits(states[Begin(FunctionAt(l, calls, i))], e[i])
      /\ \A i \in 1 .. k :
           /\ CallIn(p, calls[i]) /\ Instr(p, calls[i]).function = FunctionAt(l, calls, i - 1)
           /\ Run(calls[i][1], e[i], calls[i], e[i - 1]) \in Real(p)
  BY DEF Traced, k
<1>3. /\ CallIn(p, call) /\ Instr(p, call).function = l[1]
      /\ Run(call[1], e[1], call, e[0]) \in Real(p)
  <2>1. 1 \in 1 .. k
    BY <1>1
  <2> QED BY <1>1, <1>2, <2>1 DEF FunctionAt
<1>4. Run(call[1], e[1], n, w) \in Real(p)
  <2>1. Run(l[1], e[0], EndOf(p, l[1]), v) \in Real(p)
    BY <1>2
  <2> QED BY <1>3, <2>1, RealRuns
<1>5. n[1] = call[1]
  BY <1>1, <1>3, FollowingIs DEF CallIn
<1>6. d \in [0 .. k - 1 -> Vals] /\ \A i \in 0 .. k - 1 : d[i] = e[i + 1]
  BY <1>1, <1>2
<1> HIDE DEF d, n, w
<1>7. \A i \in 0 .. k - 1 : FunctionAt(n, fewer, i) = FunctionAt(l, calls, i + 1)
  <2>1. FunctionAt(n, fewer, 0) = FunctionAt(l, calls, 1)
    BY <1>1, <1>5 DEF FunctionAt
  <2>2. ASSUME NEW i \in 1 .. k - 1 PROVE FunctionAt(n, fewer, i) = FunctionAt(l, calls, i + 1)
    BY <1>1 DEF FunctionAt
  <2> QED BY <1>1, <2>1, <2>2
<1>8. Run(n[1], d[0], n, w) \in Real(p)
  <2>1. d[0] = e[1]
    BY <1>1, <1>6
  <2> QED BY <1>4, <1>5, <2>1
<1>9. ASSUME NEW i \in 0 .. k - 1 PROVE Admits(states[Begin(FunctionAt(n, fewer, i))], d[i])
  <2> DEFINE j == i + 1
  <2>1. j \in 0 .. k
    BY <1>1
  <2>2. FunctionAt(n, fewer, i) = FunctionAt(l, calls, j) /\ d[i] = e[j]
    BY <1>6, <1>7
  <2> HIDE DEF j
  <2> QED BY <1>2, <2>1, <2>2
<1>10. ASSUME NEW i \in 1 .. k - 1
       PROVE  /\ CallIn(p, fewer[i]) /\ Instr(p, fewer[i]).function = FunctionAt(n, fewer, i - 1)
              /\ Run(fewer[i][1], d[i], fewer[i], d[i - 1]) \in Real(p)
  <2> DEFINE j == i + 1
             h == i - 1
  <2>1. j \in 1 .. k /\ j - 1 = i /\ h \in 0 .. k - 1 /\ h + 1 = i /\ i \in 0 .. k - 1
    BY <1>1
  <2>2. fewer[i] = calls[j] /\ d[i] = e[j]
    BY <1>1, <1>6, <2>1
  <2> HIDE DEF h
  <2>3. FunctionAt(n, fewer, h) = FunctionAt(l, calls, i) /\ d[h] = e[i]
    BY <1>6, <1>7, <2>1
  <2> HIDE DEF j
  <2>4. /\ CallIn(p, calls[j]) /\ Instr(p, calls[j]).function = FunctionAt(l, calls, i)
        /\ Run(calls[j][1], e[j], calls[j], e[i]) \in Real(p)
    BY <1>2, <2>1
  <2> QED BY <2>2, <2>3, <2>4 DEF h
<1>11. Traced(p, states, n, fewer, w, d)
  BY <1>1, <1>6, <1>8, <1>9, <1>10 DEF Traced
<1> QED BY <1>11 DEF n, w

-----------------------------------------------------------------------------
(* All executions                                                          *)

(* When every function is complete, the states admit all executions.       *)
LEMMA ExecutionsAdmitted ==
  ASSUME Width = 0, NEW p, WellFormed(p), NEW o \in Settings, NEW states \in States(p, o),
         \A f \in DOMAIN p.body : Complete(p, o, states, f), Admits(states[Begin(Main)], Zeros),
         NEW depth \in Nat, NEW s \in Steps(p, IntVars \cup FloatVars, Nondet, depth)
  PROVE  /\ s.to.at \in Location(p)
         /\ Admits(states[s.to.at], s.to.val)
PROOF
<1> DEFINE V == IntVars \cup FloatVars
           Fine(at, calls, val) == \E e : Traced(p, states, at, calls, val, e)
           G == {t \in [to : Configs(p), jumped : BOOLEAN] : Fine(t.to.at, t.to.calls, t.to.val)}
           first == [to |-> Start(V), jumped |-> FALSE]
<1>1. ASSUME NEW at \in Location(p), NEW calls \in Seq(Location(p)), NEW val \in Vals,
             Fine(at, calls, val)
      PROVE  Admits(states[at], val)
  <2>1. PICK e : Traced(p, states, at, calls, val, e)
    BY <1>1
  <2>2. Run(at[1], e[0], at, val) \in Real(p) /\ Admits(states[Begin(at[1])], e[0])
    <3>1. 0 \in 0 .. Len(calls) /\ FunctionAt(at, calls, 0) = at[1]
      BY LenProperties DEF FunctionAt
    <3> QED BY <2>1, <3>1 DEF Traced
  <2>3. at[1] \in DOMAIN p.body
    BY LocationIs
  <2>4. Complete(p, o, states, at[1])
    BY <2>3
  <2> QED BY <2>2, <2>3, <2>4, FunctionAdmits DEF Complete
<1> HIDE DEF Fine
<1>2. first \in G
  <2> DEFINE b == Begin(Main)
             e == [i \in 0 .. 0 |-> Zeros]
  <2>1. Start(V) = [at |-> b, calls |-> <<>>, ret |-> 0, val |-> Zeros]
    BY DEF Start, Zeros
  <2>2. b \in Location(p) /\ Main \in DOMAIN p.body /\ b[1] = Main
    BY LocationsOfFunction DEF WellFormed
  <2>3. Zeros \in Vals
    BY DEF Zeros, Vals
  <2>4. Run(Main, Zeros, b, Zeros) \in Real(p)
    BY <2>2, <2>3, RealRuns
  <2>5. /\ Len(<<>>) = 0 /\ <<>> \in Seq(Location(p))
        /\ e \in [0 .. 0 -> Vals] /\ e[0] = Zeros /\ \A i \in 0 .. 0 : i = 0
    BY <2>3
  <2>6. \A calls : FunctionAt(b, calls, 0) = Main
    BY <2>2 DEF FunctionAt
  <2> HIDE DEF b, e
  <2>7. \A i \in 1 .. 0 : FALSE
    OBVIOUS
  <2>8. Traced(p, states, b, <<>>, Zeros, e)
    <3> DEFINE none == <<>>
    <3>1. Len(none) = 0
      BY <2>5
    <3> HIDE DEF none
    <3>2. \A i \in 0 .. 0 : Admits(states[Begin(FunctionAt(b, none, i))], e[i])
      BY <2>5, <2>6 DEF b
    <3>3. Traced(p, states, b, none, Zeros, e)
      BY <2>2, <2>4, <2>5, <2>7, <3>1, <3>2 DEF Traced
    <3> QED BY <3>3 DEF none
  <2>9. Fine(b, <<>>, Zeros)
    BY <2>8 DEF Fine
  <2>10. Start(V) \in Configs(p)
    BY <2>1, <2>2, <2>3, <2>5 DEF Configs
  <2> DEFINE c0 == Start(V)
             C == Configs(p)
  <2>11. c0 \in C /\ c0.at = b /\ c0.calls = <<>> /\ c0.val = Zeros
    BY <2>1, <2>10
  <2> HIDE DEF c0, C
  <2>12. [to |-> c0, jumped |-> FALSE] \in {t \in [to : C, jumped : BOOLEAN] :
                                            Fine(t.to.at, t.to.calls, t.to.val)}
    BY <2>9, <2>11
  <2> QED BY <2>12 DEF c0, C
<1>3. ASSUME NEW t \in G, NEW u \in Moves(p, Nondet, t.to) PROVE u \in G
  <2> DEFINE cfg == t.to
             l == cfg.at
             v == cfg.val
             calls == cfg.calls
  <2>1. cfg \in Configs(p) /\ l \in Location(p) /\ calls \in Seq(Location(p)) /\ v \in Vals
        /\ cfg.ret \in Int /\ Fine(l, calls, v)
    BY DEF Configs
  <2>2. PICK e : Traced(p, states, l, calls, v, e)
    BY <2>1 DEF Fine
  <2> HIDE DEF l, v, calls
  <2>3. Admits(states[l], v)
    BY <1>1, <2>1
  <2>4. l[1] \in DOMAIN p.body
    BY <2>1, LocationIs
  <2>5. u = [to |-> u.to, jumped |-> u.jumped] /\ u.jumped \in BOOLEAN
    BY <2>1, MovesAre
  <2>6. ASSUME u.to \in Configs(p), Fine(u.to.at, u.to.calls, u.to.val)
        PROVE  u \in G
    BY <2>5, <2>6
  <2>7. LocalMove(p, cfg, u.to) \/ CallMove(p, cfg, u.to) \/ ReturnMove(p, cfg, u.to)
    BY <2>1, MovesAre
  <2> HIDE DEF cfg, G
  <2>8. CASE LocalMove(p, cfg, u.to)
    <3> DEFINE m == u.to.at
               w == u.to.val
               r == u.to.ret
    <3>1. LocalStep(p, l, v, m, w) /\ r \in Int /\ u.to = [cfg EXCEPT !.at = m, !.ret = r, !.val = w]
      BY <2>8 DEF LocalMove, l, v
    <3> HIDE DEF m, w, r
    <3>2. m \in Location(p) /\ w \in Vals
      BY <2>1, <3>1, LocalStepType
    <3>3. Traced(p, states, m, calls, w, e)
      BY <2>1, <2>2, <3>1, TraceLocal
    <3>4. u.to \in Configs(p) /\ u.to.calls = calls
      BY <2>1, <3>1, <3>2 DEF Configs, calls
    <3>5. Fine(m, calls, w)
      BY <3>3 DEF Fine
    <3> QED BY <2>6, <3>4, <3>5 DEF m, w
  <2>9. CASE CallMove(p, cfg, u.to)
    <3>0. /\ CallIn(p, l)
          /\ u.to = [cfg EXCEPT !.at = Begin(Instr(p, l).function), !.calls = <<l>> \o calls]
      BY <2>9 DEF CallMove, l, calls
    <3> DEFINE g == Instr(p, l).function
               b == Begin(g)
               more == <<l>> \o calls
               xs == Instr(p, l).ret
               none == states[l]
    <3>1. b \in Location(p) /\ g \in DOMAIN p.body
      BY <3>0, LocationsOfFunction DEF CallIn
    <3>2. Refines(havoc_rec(states[l], xs), states[b])
      <4>1. Carried(p, o, states, l)
        BY <2>1, <2>4 DEF Complete
      <4>2. Effect(p, o, states[l], l, b) = havoc_rec(states[l], xs)
        BY <3>0 DEF Effect, CallIn
      <4> QED BY <3>0, <4>1, <4>2 DEF Carried
    <3>3. more \in Seq(Location(p))
      <4>1. <<l>> \in Seq(Location(p))
        BY <2>1
      <4> QED BY <2>1, <4>1, ConcatProperties
    <3>4. u.to = [cfg EXCEPT !.at = b, !.calls = more]
      BY <3>0
    <3> HIDE DEF b, xs, more
    <3>5. states[l] \in AbstractState(p, o) /\ states[b] \in AbstractState(p, o)
      BY <2>1, <3>1 DEF States
    <3>6. Admits(havoc_rec(states[l], xs), v) /\ havoc_rec(states[l], xs) \in AbstractState(p, o)
      BY <2>1, <2>3, <3>5, HavocAdmits, HavocType
    <3>7. Admits(states[b], v)
      BY <2>1, <3>2, <3>5, <3>6, RefinesAdmits
    <3>8. \E d : Traced(p, states, b, more, v, d)
      BY <2>1, <2>2, <3>0, <3>7, TraceCall DEF b, more
    <3>9. u.to \in Configs(p) /\ u.to.at = b /\ u.to.calls = more /\ u.to.val = v
      BY <2>1, <3>1, <3>3, <3>4 DEF Configs, v
    <3> QED BY <2>6, <3>8, <3>9 DEF Fine
  <2>10. CASE ReturnMove(p, cfg, u.to)
    <3>0. /\ Instr(p, l).type = "END_FUNCTION" /\ calls # <<>>
          /\ u.to = [at |-> Following(Head(calls)), calls |-> Tail(calls), ret |-> 0,
                     val |-> Returned(v, Instr(p, Head(calls)).ret, cfg.ret)]
      BY <2>10 DEF ReturnMove, l, v, calls
    <3> DEFINE call == Head(calls)
               fewer == Tail(calls)
               n == Following(call)
               w == Returned(v, Instr(p, call).ret, cfg.ret)
    <3>1. call \in Location(p) /\ fewer \in Seq(Location(p)) /\ call = calls[1]
      BY <2>1, <3>0, HeadTailProperties
    <3>2. CallIn(p, call)
      <4>1. 1 \in 1 .. Len(calls)
        BY <2>1, <3>0, EmptySeq, LenProperties
      <4> QED BY <2>2, <3>1, <4>1 DEF Traced
    <3>3. n \in Location(p)
      BY <3>1, <3>2, FollowingIs DEF CallIn
    <3>4. l = EndOf(p, l[1])
      BY <2>1, <3>0, EndIs
    <3>5. w \in Vals
      BY <2>1, ReturnedType
    <3>6. \E d : Traced(p, states, n, fewer, w, d)
      BY <2>1, <2>2, <3>0, <3>4, TraceReturn
    <3>7. u.to = [at |-> n, calls |-> fewer, ret |-> 0, val |-> w]
      BY <3>0
    <3> HIDE DEF n, fewer, w
    <3>8. u.to \in Configs(p) /\ u.to.at = n /\ u.to.calls = fewer /\ u.to.val = w
      BY <3>1, <3>3, <3>5, <3>7 DEF Configs
    <3> QED BY <2>6, <3>6, <3>8 DEF Fine
  <2> QED BY <2>7, <2>8, <2>9, <2>10
<1> HIDE DEF first, G
<1>4. Steps(p, V, Nondet, depth) \subseteq G
  BY <1>2, <1>3, StepsStay DEF first
<1>5. s \in G
  BY <1>4
<1>6. /\ s.to \in Configs(p) /\ Fine(s.to.at, s.to.calls, s.to.val)
  BY <1>5 DEF G
<1>7. s.to.at \in Location(p) /\ s.to.calls \in Seq(Location(p)) /\ s.to.val \in Vals
  BY <1>6 DEF Configs
<1> QED BY <1>1, <1>6, <1>7

(* When the analysis is done, all functions are complete.                  *)
LEMMA DoneAdmits ==
  ASSUME SoundInv, Plain(program, options), Done, NEW s \in Executed[program]
  PROVE  s.to.at \in Location(program) /\ Admits(state_map[s.to.at], s.to.val)
PROOF
<1>1. /\ WellFormed(program) /\ options \in Settings /\ state_map \in States(program, options)
      /\ \E c \in Cases : program = c.program
  BY CaseType DEF SoundInv, AnalysisInv
<1>2. Width = 0 /\ ~options.narrowing /\ OneKind(program)
  BY DEF Plain
<1>3. PendingIn(stack) = {} /\ InProgress(stack) = {}
  <2>1. stack = <<>> /\ DOMAIN stack = {} /\ Len(stack) = 0
    BY DEF Done
  <2>2. 2 .. 0 = {}
    OBVIOUS
  <2> QED BY <2>1, <2>2 DEF PendingIn, InProgress
<1>4. \A l \in Location(program) :
        /\ Carried(program, options, state_map, l)
        /\ CallIn(program, l) => Summarized(program, state_map, l)
  BY <1>2, <1>3 DEF SoundInv, AnalysisInv, SummariesIn
<1>5. \A f \in DOMAIN program.body : Complete(program, options, state_map, f)
  BY <1>4 DEF Complete
<1>6. Admits(state_map[Begin(Main)], Zeros)
  BY DEF SoundInv
<1>7. Executed[program] = Steps(program, IntVars \cup FloatVars, Nondet, Depth)
  BY <1>1 DEF Executed
<1> QED BY <1>1, <1>2, <1>5, <1>6, <1>7, ReferenceAssumption, ExecutionsAdmitted

(* When the analysis is done, the values an execution has at a location    *)
(* lie in the intervals there (interval_domain.cpp:703-779, ai.cpp:169-238)*)
(* whatever the program, its inputs, the length of the execution and the   *)
(* order of the work, and however much was extrapolated.                   *)
THEOREM IntervalsSoundTheorem == Spec => [](Plain(program, options) => IntervalsSound)
PROOF
<1>1. SoundInv => (Plain(program, options) => IntervalsSound)
  BY DoneAdmits DEF IntervalsSound
<1> QED BY <1>1, SummariesInvariant, PTL

(* An assumption that is inserted removes no execution                     *)
(* (interval_analysis.cpp:27-88).                                          *)
THEOREM AssumptionsHoldTheorem == Spec => [](Plain(program, options) => AssumptionsHold)
PROOF
<1>1. ASSUME SoundInv, Plain(program, options), Done, NEW s \in Executed[program],
             s.to.at \in DOMAIN assumptions, NEW x \in DOMAIN assumptions[s.to.at]
      PROVE  HasValue(assumptions[s.to.at][x], s.to.val[x])
  <2> DEFINE l == s.to.at
  <2>1. Admits(state_map[l], s.to.val)
    BY <1>1, DoneAdmits
  <2>2. assumptions = [k \in {k \in Location(program) : Instrumented(k)} |-> Assumed(k)]
    BY <1>1 DEF SoundInv
  <2>3. assumptions[l] = Assumed(l)
    BY <1>1, <2>2
  <2> HIDE DEF l
  <2>4. x \in Mapped(state_map[l]) /\ Assumed(l)[x] = get_interval_from_symbol(state_map[l], x)
    BY <1>1, <2>3 DEF Assumed, l
  <2> QED BY <2>1, <2>3, <2>4 DEF Admits, l
<1>2. SoundInv => (Plain(program, options) => AssumptionsHold)
  BY <1>1 DEF AssumptionsHold
<1> QED BY <1>2, SummariesInvariant, PTL
=============================================================================
