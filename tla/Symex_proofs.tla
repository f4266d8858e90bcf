------------------------------ MODULE Symex_proofs ------------------------------
(***************************************************************************)
(* Proofs about Symex, for every program, bound and number of inputs: no   *)
(* symbol of the equation is assigned twice, none is named before it is    *)
(* assigned, so that slicing keeps what it must, and in each active        *)
(* function an input takes exactly one path.                               *)
(*                                                                         *)
(* The handlers are functions from a configuration to a configuration, so  *)
(* most of it is about configurations.  NamesInv: the numbers given out so *)
(* far are not above the counters.  StackOK: what was put aside in a frame *)
(* waits in its function, and ahead of where its callee returns to.        *)
(* PathsOK: how the guards of a frame divide the inputs that entered it.   *)
(* sides is where the condition of each branch holds; without it nothing   *)
(* says that a literal and its opposite, of which operator |= makes the    *)
(* constant true, are two sides of one branch.                             *)
(* SymsInv: what the equation, the guards and the states put aside name    *)
(* was given out before, so what is assigned next no step has named.       *)
(***************************************************************************)
EXTENDS Symex, SetLemmas

-----------------------------------------------------------------------------
(* Folds.  A fold over a set is a function chosen to satisfy a recursion;  *)
(* that there is one is proved here once, for whatever Fold_op does.       *)

(* A step in the pass of symex_slice.                                      *)
SliceStep(step, after) ==
  IF step.type # "ASSIGNMENT"
    THEN [depends |-> after.depends \cup step.syms, steps |-> <<step>> \o after.steps]
  ELSE IF step.lhs \notin after.depends
    THEN [after EXCEPT !.steps = <<[step EXCEPT !.ignore = TRUE]>> \o @]
  ELSE [depends |-> run_on_assignment(step, after.depends), steps |-> <<step>> \o after.steps]

Fold_op(tag, x, d) ==
  CASE tag.fold = "assign" -> symex_assign(d, x, tag.e)
    [] tag.fold = "phi" -> phi(tag.goto_state, tag.guard, x, d)
    [] tag.fold = "merge" -> merge_goto(tag.list[x], d)
    [] tag.fold = "slice" -> SliceStep(tag.list[x], d)

(* Numbers come in increasing order, everything else in any order.         *)
Fold_pick(tag, s) == IF tag.fold \in {"merge", "slice"} THEN Min(s) ELSE CHOOSE x \in s : TRUE

IsFold(tag, base, S, it) ==
  it = [s \in SUBSET S |->
          IF s = {} THEN base
          ELSE Fold_op(tag, Fold_pick(tag, s), it[s \ {Fold_pick(tag, s)}])]

(* There is a fold over every finite set.                                  *)
LEMMA FoldExists ==
  ASSUME NEW tag, NEW base, NEW S, IsFiniteSet(S),
         \A s \in SUBSET S : s # {} => Fold_pick(tag, s) \in s
  PROVE  \E it : IsFold(tag, base, S, it)
PROOF
<1> DEFINE Sub(n) == {s \in SUBSET S : Cardinality(s) <= n}
           pick(s) == Fold_pick(tag, s)
           Upto(n, g) ==
             g = [s \in Sub(n) |-> IF s = {} THEN base ELSE Fold_op(tag, pick(s), g[s \ {pick(s)}])]
           Reached == {n \in Nat : \E g : Upto(n, g)}
<1>1. ASSUME NEW s \in SUBSET S
      PROVE  IsFiniteSet(s) /\ Cardinality(s) \in Nat /\ Cardinality(s) <= Cardinality(S)
  BY FS_Subset, FS_CardinalityType
<1>2. ASSUME NEW n \in Nat, NEW s \in Sub(n + 1), s # {}
      PROVE  s \ {pick(s)} \in Sub(n)
  <2>1. pick(s) \in s
    BY <1>2
  <2>2. Cardinality(s \ {pick(s)}) = Cardinality(s) - 1
    BY <1>1, <2>1, FS_RemoveElement
  <2> QED BY <1>1, <2>2
<1>3. 0 \in Reached
  <2>1. \A s \in Sub(0) : s = {}
    BY <1>1, FS_EmptySet
  <2> DEFINE g == [s \in Sub(0) |-> base]
  <2>2. Upto(0, g)
    BY <2>1
  <2> QED BY <2>2
<1>4. ASSUME NEW n \in Reached PROVE n + 1 \in Reached
  <2>1. PICK g : Upto(n, g)
    OBVIOUS
  <2> DEFINE h == [s \in Sub(n + 1) |->
                     IF s = {} THEN base ELSE Fold_op(tag, pick(s), g[s \ {pick(s)}])]
  <2> HIDE DEF Sub
  <2>2. ASSUME NEW s \in Sub(n) PROVE g[s] = h[s]
    <3>1. s \in Sub(n + 1)
      BY <1>1 DEF Sub
    <3>2. g[s] = IF s = {} THEN base ELSE Fold_op(tag, pick(s), g[s \ {pick(s)}])
      BY <2>1, Zenon
    <3> QED BY <3>1, <3>2
  <2>3. ASSUME NEW s \in Sub(n + 1), s # {} PROVE g[s \ {pick(s)}] = h[s \ {pick(s)}]
    BY <1>2, <2>2, <2>3
  <2>4. h = [s \in Sub(n + 1) |-> IF s = {} THEN base ELSE Fold_op(tag, pick(s), h[s \ {pick(s)}])]
    <3>1. ASSUME NEW s \in Sub(n + 1)
          PROVE  h[s] = IF s = {} THEN base ELSE Fold_op(tag, pick(s), h[s \ {pick(s)}])
      BY <2>3
    <3> HIDE DEF h
    <3>2. h = [s \in Sub(n + 1) |-> h[s]]
      BY DEF h
    <3> QED BY <3>1, <3>2
  <2> HIDE DEF h
  <2>5. \E f : Upto(n + 1, f)
    BY <2>4
  <2> QED BY <2>5
<1>5. Reached = Nat
  <2> HIDE DEF Reached
  <2>1. Reached \in SUBSET Nat
    BY DEF Reached
  <2> QED BY <1>3, <1>4, <2>1, NatSetInduction
<1>6. PICK it : Upto(Cardinality(S), it)
  BY <1>1, <1>5
<1>7. Sub(Cardinality(S)) = SUBSET S
  BY <1>1
<1>8. IsFold(tag, base, S, it)
  BY <1>6, <1>7, Zenon DEF IsFold
<1> QED BY <1>8

(* Assigning each variable is such a fold.                                 *)
LEMMA AssignEachIsFold ==
  ASSUME NEW c, NEW xs, IsFiniteSet(xs), NEW e
  PROVE  \E it : /\ IsFold([fold |-> "assign", e |-> e], c, xs, it)
                 /\ assign_each(c, xs, e) = it[xs]
PROOF
<1> DEFINE tag == [fold |-> "assign", e |-> e]
           pick(s) == CHOOSE x \in s : TRUE
           Chosen(it) ==
             it = [s \in SUBSET xs |->
                     IF s = {} THEN c ELSE symex_assign(it[s \ {pick(s)}], pick(s), e)]
<1>1. /\ \A s : Fold_pick(tag, s) = pick(s)
      /\ \A x, d : Fold_op(tag, x, d) = symex_assign(d, x, e)
  BY DEF Fold_pick, Fold_op
<1>2. \A it : IsFold(tag, c, xs, it) <=> Chosen(it)
  <2> TAKE it
  <2>1. ASSUME NEW s \in SUBSET xs
        PROVE  (IF s = {} THEN c
                ELSE Fold_op(tag, Fold_pick(tag, s), it[s \ {Fold_pick(tag, s)}]))
                 = (IF s = {} THEN c ELSE symex_assign(it[s \ {pick(s)}], pick(s), e))
    BY <1>1
  <2> QED BY <2>1, Zenon DEF IsFold
<1>3. \E it : IsFold(tag, c, xs, it)
  BY <1>1, FoldExists
<1>4. assign_each(c, xs, e) = (CHOOSE it : Chosen(it))[xs]
  BY Zenon DEF assign_each, FoldSet, MapThenFoldSet
<1> HIDE DEF Chosen
<1>5. Chosen(CHOOSE it : Chosen(it))
  BY <1>2, <1>3
<1> QED BY <1>2, <1>4, <1>5

(* So is merging the variables of a state put aside.                       *)
LEMMA PhiFunctionIsFold ==
  ASSUME NEW c, NEW goto_state, NEW merged, IsFiniteSet(Vars)
  PROVE  \E it :
           /\ IsFold([fold |-> "phi", goto_state |-> goto_state,
                       guard |-> Minus(goto_state.guard, merged)], c, Changed(c, goto_state), it)
           /\ phi_function(c, goto_state, merged) = it[Changed(c, goto_state)]
PROOF
<1> DEFINE guard == Minus(goto_state.guard, merged)
           tag == [fold |-> "phi", goto_state |-> goto_state, guard |-> guard]
           xs == Changed(c, goto_state)
           pick(s) == CHOOSE x \in s : TRUE
           Chosen(it) ==
             it = [s \in SUBSET xs |->
                     IF s = {} THEN c ELSE phi(goto_state, guard, pick(s), it[s \ {pick(s)}])]
<1>0. IsFiniteSet(xs)
  BY FS_Subset DEF Changed
<1>4. phi_function(c, goto_state, merged) = (CHOOSE it : Chosen(it))[xs]
  BY Zenon DEF phi_function, FoldSet, MapThenFoldSet
<1> HIDE DEF guard, xs
<1>1. /\ \A s : Fold_pick(tag, s) = pick(s)
      /\ \A x, d : Fold_op(tag, x, d) = phi(goto_state, guard, x, d)
  BY DEF Fold_pick, Fold_op
<1>2. \A it : IsFold(tag, c, xs, it) <=> Chosen(it)
  <2> TAKE it
  <2>1. ASSUME NEW s \in SUBSET xs
        PROVE  (IF s = {} THEN c
                ELSE Fold_op(tag, Fold_pick(tag, s), it[s \ {Fold_pick(tag, s)}]))
                 = (IF s = {} THEN c ELSE phi(goto_state, guard, pick(s), it[s \ {pick(s)}]))
    BY <1>1
  <2> QED BY <2>1, Zenon DEF IsFold
<1>3. \E it : IsFold(tag, c, xs, it)
  BY <1>0, <1>1, FoldExists
<1> HIDE DEF Chosen
<1>5. Chosen(CHOOSE it : Chosen(it))
  BY <1>2, <1>3
<1>6. \E it : IsFold(tag, c, xs, it) /\ phi_function(c, goto_state, merged) = it[xs]
  BY <1>2, <1>4, <1>5
<1> QED BY <1>6 DEF guard, xs

(* So is merging a list of states; it takes them from the last on, since   *)
(* the fold for the least index is applied last.                           *)
LEMMA MergesAreFold ==
  ASSUME NEW c, NEW list, NEW n \in Nat, DOMAIN list = 1 .. n
  PROVE  \E it : /\ IsFold([fold |-> "merge", list |-> list], c, 1 .. n, it)
                 /\ FoldRight(merge_goto, list, c) = it[1 .. n]
PROOF
<1> DEFINE tag == [fold |-> "merge", list |-> list]
           S == 1 .. n
           Chosen(it) ==
             it = [s \in SUBSET S |->
                     IF s = {} THEN c ELSE merge_goto(list[Min(s)], it[s \ {Min(s)}])]
<1>1. /\ \A s : Fold_pick(tag, s) = Min(s)
      /\ \A x, d : Fold_op(tag, x, d) = merge_goto(list[x], d)
  BY DEF Fold_pick, Fold_op
<1>2. \A it : IsFold(tag, c, S, it) <=> Chosen(it)
  <2> TAKE it
  <2>1. ASSUME NEW s \in SUBSET S
        PROVE  (IF s = {} THEN c
                ELSE Fold_op(tag, Fold_pick(tag, s), it[s \ {Fold_pick(tag, s)}]))
                 = (IF s = {} THEN c ELSE merge_goto(list[Min(s)], it[s \ {Min(s)}]))
    BY <1>1
  <2> QED BY <2>1, Zenon DEF IsFold
<1>3. \E it : IsFold(tag, c, S, it)
  <2>1. \A s \in SUBSET S : s # {} => Fold_pick(tag, s) \in s
    BY <1>1, MinProperties
  <2>2. IsFiniteSet(S)
    BY FS_Interval
  <2> QED BY <2>1, <2>2, FoldExists
<1>4. FoldRight(merge_goto, list, c) = (CHOOSE it : Chosen(it))[S]
  BY Zenon DEF FoldRight, MapThenFoldSet
<1> HIDE DEF Chosen
<1>5. Chosen(CHOOSE it : Chosen(it))
  BY <1>2, <1>3
<1> QED BY <1>2, <1>4, <1>5

(* The pass of symex_slice too goes from the last step on.                 *)
LEMMA SliceIsFold ==
  ASSUME NEW list, NEW n \in Nat, DOMAIN list = 1 .. n
  PROVE  \E it : /\ IsFold([fold |-> "slice", list |-> list], [depends |-> {}, steps |-> <<>>], 1 .. n, it)
                 /\ symex_slice(list) = it[1 .. n].steps
PROOF
<1> DEFINE tag == [fold |-> "slice", list |-> list]
           c == [depends |-> {}, steps |-> <<>>]
           S == 1 .. n
           Chosen(it) ==
             it = [s \in SUBSET S |->
                     IF s = {} THEN c ELSE SliceStep(list[Min(s)], it[s \ {Min(s)}])]
<1>1. /\ \A s : Fold_pick(tag, s) = Min(s)
      /\ \A x, d : Fold_op(tag, x, d) = SliceStep(list[x], d)
  BY DEF Fold_pick, Fold_op
<1>2. \A it : IsFold(tag, c, S, it) <=> Chosen(it)
  <2> TAKE it
  <2>1. ASSUME NEW s \in SUBSET S
        PROVE  (IF s = {} THEN c
                ELSE Fold_op(tag, Fold_pick(tag, s), it[s \ {Fold_pick(tag, s)}]))
                 = (IF s = {} THEN c ELSE SliceStep(list[Min(s)], it[s \ {Min(s)}]))
    BY <1>1
  <2> QED BY <2>1, Zenon DEF IsFold
<1>3. \E it : IsFold(tag, c, S, it)
  <2>1. \A s \in SUBSET S : s # {} => Fold_pick(tag, s) \in s
    BY <1>1, MinProperties
  <2>2. IsFiniteSet(S)
    BY FS_Interval
  <2> QED BY <2>1, <2>2, FoldExists
<1>4. symex_slice(list) = (CHOOSE it : Chosen(it))[S].steps
  BY Zenon DEF symex_slice, SliceStep, FoldRight, MapThenFoldSet
<1> HIDE DEF Chosen
<1>5. Chosen(CHOOSE it : Chosen(it))
  BY <1>2, <1>3
<1> QED BY <1>2, <1>4, <1>5

-----------------------------------------------------------------------------
(* Configurations, and what steps of the equation do to them.              *)

StateFields ==
  {"pc", "guard", "level2", "call_stack", "loop_iterations", "function_unwind", "first_loop",
   "guards", "nondets"}

IsConfig(c) == DOMAIN c = {"state", "steps"} /\ DOMAIN c.state = StateFields

IsSeq(s) == s \in Seq(Range(s))

(* A name has been given out: its number is not above the counter.         *)
Taken(state, lhs) ==
  \/ \E x \in Vars, k \in Nat : lhs = <<x, k>> /\ k <= state.level2[x].num
  \/ \E k \in Nat : lhs = <<"guard", k>> /\ k <= state.guards

AssignedOnce(steps) ==
  \A m, n \in DOMAIN steps :
    m # n /\ steps[m].type = "ASSIGNMENT" /\ steps[n].type = "ASSIGNMENT" =>
      steps[m].lhs # steps[n].lhs

NamesInv(c) ==
  /\ IsSeq(c.steps)
  /\ DOMAIN c.state.level2 = Vars
  /\ \A x \in Vars : c.state.level2[x].num \in Nat
  /\ c.state.guards \in Nat
  /\ \A n \in DOMAIN c.steps :
       c.steps[n].type = "ASSIGNMENT" => Taken(c.state, c.steps[n].lhs)
  /\ AssignedOnce(c.steps)

(* The inputs that some step of the equation stops.                        *)
CutBy(steps) ==
  UNION {World \ steps[n].den :
           n \in {m \in DOMAIN steps :
                    \/ steps[m].type = "ASSUME"
                    \/ steps[m].type = "ASSERT" /\ steps[m].msg \in Location(goto_functions)}}

SameControl(c, d) ==
  /\ d.state.pc = c.state.pc
  /\ d.state.guard = c.state.guard
  /\ d.state.call_stack = c.state.call_stack
  /\ d.state.guards = c.state.guards

Grows(c, d) == NamesInv(c) => NamesInv(d) /\ CutBy(c.steps) \subseteq CutBy(d.steps)

(* From c to d only names were given out and steps appended.               *)
Records(c, d) == IsConfig(d) /\ SameControl(c, d) /\ Grows(c, d)

(* Nothing happened.                                                       *)
LEMMA RecordsReflexive ==
  ASSUME NEW c, IsConfig(c)
  PROVE  Records(c, c)
BY DEF Records, SameControl, Grows

(* One after the other.                                                    *)
LEMMA RecordsTransitive ==
  ASSUME NEW a, NEW b, NEW c, Records(a, b), Records(b, c)
  PROVE  Records(a, c)
BY DEF Records, SameControl, Grows

(* A step appended to the equation.                                        *)
LEMMA AppendStep ==
  ASSUME NEW s, IsSeq(s), NEW step
  PROVE  LET t == Append(s, step)
         IN  /\ IsSeq(t)
             /\ Len(s) \in Nat /\ DOMAIN s = 1 .. Len(s)
             /\ DOMAIN t = 1 .. Len(s) + 1 /\ Len(t) = Len(s) + 1
             /\ t[Len(s) + 1] = step
             /\ \A n \in 1 .. Len(s) : t[n] = s[n]
PROOF
<1> DEFINE R == Range(s) \cup {step}
           t == Append(s, step)
<1>1. s \in Seq(Range(s)) /\ Range(s) \subseteq R /\ step \in R
  BY DEF IsSeq
<1>2. Len(s) \in Nat /\ DOMAIN s = 1 .. Len(s) /\ \A n \in 1 .. Len(s) : s[n] \in Range(s)
  BY <1>1, LenProperties DEF Range
<1> HIDE DEF R
<1>3. s \in Seq(R)
  BY <1>1, <1>2
<1>4. /\ t \in Seq(R) /\ Len(t) = Len(s) + 1 /\ t[Len(s) + 1] = step
      /\ \A n \in 1 .. Len(s) : t[n] = s[n]
  BY <1>1, <1>3, AppendProperties
<1>5. DOMAIN t = 1 .. Len(s) + 1
  BY <1>4, LenProperties
<1> HIDE DEF t
<1>6. t \in Seq(Range(t))
  BY <1>4, SeqOfElements
<1> QED BY <1>2, <1>4, <1>5, <1>6 DEF IsSeq, t

(* What stopped an input before stops it still.                            *)
LEMMA CutGrows ==
  ASSUME NEW s, IsSeq(s), NEW step
  PROVE  /\ CutBy(s) \subseteq CutBy(Append(s, step))
         /\ step.type = "ASSUME" \/ (step.type = "ASSERT" /\ step.msg \in Location(goto_functions))
              => World \ step.den \subseteq CutBy(Append(s, step))
PROOF
<1> DEFINE t == Append(s, step)
<1>1. /\ Len(s) \in Nat /\ DOMAIN s = 1 .. Len(s) /\ DOMAIN t = 1 .. Len(s) + 1
      /\ t[Len(s) + 1] = step /\ \A n \in 1 .. Len(s) : t[n] = s[n]
  BY AppendStep
<1> HIDE DEF t
<1>2. CutBy(s) \subseteq CutBy(t)
  <2> SUFFICES ASSUME NEW w \in CutBy(s) PROVE w \in CutBy(t)
    OBVIOUS
  <2>1. PICK n \in DOMAIN s :
          /\ w \in World \ s[n].den
          /\ \/ s[n].type = "ASSUME"
             \/ s[n].type = "ASSERT" /\ s[n].msg \in Location(goto_functions)
    BY DEF CutBy
  <2>2. n \in DOMAIN t /\ t[n] = s[n]
    BY <1>1
  <2> QED BY <2>1, <2>2 DEF CutBy
<1>3. ASSUME step.type = "ASSUME" \/ (step.type = "ASSERT" /\ step.msg \in Location(goto_functions))
      PROVE  World \ step.den \subseteq CutBy(t)
  <2>1. Len(s) + 1 \in DOMAIN t
    BY <1>1
  <2> QED BY <1>1, <1>3, <2>1 DEF CutBy
<1> QED BY <1>2, <1>3 DEF t

(* The names stay distinct if a new assignment is to a name that was not   *)
(* taken, and now is.                                                      *)
LEMMA NameGiven ==
  ASSUME NEW c, NEW d, NEW step, NamesInv(c),
         d.steps = Append(c.steps, step),
         DOMAIN d.state.level2 = Vars,
         \A x \in Vars : /\ d.state.level2[x].num \in Nat
                        /\ c.state.level2[x].num <= d.state.level2[x].num,
         d.state.guards \in Nat, c.state.guards <= d.state.guards,
         step.type = "ASSIGNMENT" => ~Taken(c.state, step.lhs) /\ Taken(d.state, step.lhs)
  PROVE  NamesInv(d)
PROOF
<1> DEFINE s == c.steps
           t == d.steps
<1>1. /\ Len(s) \in Nat /\ DOMAIN s = 1 .. Len(s) /\ IsSeq(t) /\ DOMAIN t = 1 .. Len(s) + 1
      /\ t[Len(s) + 1] = step /\ \A n \in 1 .. Len(s) : t[n] = s[n]
  BY AppendStep DEF NamesInv
<1>2. ASSUME NEW lhs, Taken(c.state, lhs) PROVE Taken(d.state, lhs)
  <2>1. \A x \in Vars : c.state.level2[x].num \in Nat
    BY DEF NamesInv
  <2>2. c.state.guards \in Nat
    BY DEF NamesInv
  <2>3. CASE \E x \in Vars, k \in Nat : lhs = <<x, k>> /\ k <= c.state.level2[x].num
    BY <2>1, <2>3 DEF Taken
  <2>4. CASE \E k \in Nat : lhs = <<"guard", k>> /\ k <= c.state.guards
    BY <2>2, <2>4 DEF Taken
  <2> QED BY <1>2, <2>3, <2>4 DEF Taken
<1> HIDE DEF s, t
<1>3. ASSUME NEW n \in DOMAIN s, s[n].type = "ASSIGNMENT" PROVE Taken(c.state, s[n].lhs)
  BY <1>3 DEF NamesInv, s
<1>4. ASSUME NEW n \in DOMAIN t, t[n].type = "ASSIGNMENT" PROVE Taken(d.state, t[n].lhs)
  <2>1. CASE n = Len(s) + 1
    BY <1>1, <1>4, <2>1
  <2>2. CASE n # Len(s) + 1
    <3>1. n \in DOMAIN s /\ t[n] = s[n]
      BY <1>1, <2>2
    <3> QED BY <1>2, <1>3, <1>4, <3>1
  <2> QED BY <2>1, <2>2
<1>5. AssignedOnce(t)
  <2>1. AssignedOnce(s)
    BY DEF NamesInv, s
  <2>2. ASSUME NEW m \in DOMAIN t, NEW n \in DOMAIN t, m # n,
               t[m].type = "ASSIGNMENT", t[n].type = "ASSIGNMENT"
        PROVE  t[m].lhs # t[n].lhs
    <3>1. CASE m = Len(s) + 1
      <4>1. n \in DOMAIN s /\ t[n] = s[n]
        BY <1>1, <2>2, <3>1
      <4> QED BY <1>1, <1>3, <2>2, <3>1, <4>1
    <3>2. CASE n = Len(s) + 1
      <4>1. m \in DOMAIN s /\ t[m] = s[m]
        BY <1>1, <2>2, <3>2
      <4> QED BY <1>1, <1>3, <2>2, <3>2, <4>1
    <3>3. CASE m # Len(s) + 1 /\ n # Len(s) + 1
      <4>1. m \in DOMAIN s /\ t[m] = s[m] /\ n \in DOMAIN s /\ t[n] = s[n]
        BY <1>1, <3>3
      <4> QED BY <2>1, <2>2, <4>1 DEF AssignedOnce
    <3> QED BY <3>1, <3>2, <3>3
  <2> QED BY <2>2 DEF AssignedOnce
<1> QED BY <1>1, <1>4, <1>5 DEF NamesInv, t

(* An assumption or an assertion.                                          *)
LEMMA EmitRecords ==
  ASSUME NEW c, IsConfig(c), NEW step, step.type # "ASSIGNMENT"
  PROVE  /\ Records(c, Emit(c, step))
         /\ Emit(c, step).steps = Append(c.steps, step)
PROOF
<1> DEFINE d == Emit(c, step)
<1>1. IsConfig(d) /\ d.state = c.state /\ d.steps = Append(c.steps, step)
  BY DEF Emit, IsConfig
<1> HIDE DEF d
<1>2. ASSUME NamesInv(c) PROVE NamesInv(d) /\ CutBy(c.steps) \subseteq CutBy(d.steps)
  <2>1. \A x \in Vars : c.state.level2[x].num <= c.state.level2[x].num
    BY <1>2 DEF NamesInv
  <2>2. c.state.guards \in Nat /\ c.state.guards <= c.state.guards
    BY <1>2 DEF NamesInv
  <2>3. DOMAIN c.state.level2 = Vars /\ \A x \in Vars : c.state.level2[x].num \in Nat
    BY <1>2 DEF NamesInv
  <2>4. NamesInv(d)
    BY <1>1, <1>2, <2>1, <2>2, <2>3, NameGiven
  <2>5. IsSeq(c.steps)
    BY <1>2 DEF NamesInv
  <2> QED BY <1>1, <2>4, <2>5, CutGrows
<1> QED BY <1>1, <1>2 DEF Records, SameControl, Grows, d

(* goto_symext::assignment: the next number of the variable.               *)
LEMMA AssignmentRecords ==
  ASSUME NEW c, IsConfig(c), NEW x \in Vars, NEW rhs, "guard" \notin Vars
  PROVE  Records(c, assignment(c, x, rhs))
PROOF
<1> DEFINE num == c.state.level2[x].num + 1
           step == Assignment(<<x, num>>, rhs.syms)
           value == [num |-> num, const |-> rhs.const, val |-> rhs.val]
           d == assignment(c, x, rhs)
<1>1. /\ IsConfig(d) /\ SameControl(c, d)
      /\ d.steps = Append(c.steps, step)
      /\ d.state.level2 = [c.state.level2 EXCEPT ![x] = value]
  <2> DEFINE e == Emit(c, step)
  <2>1. IsConfig(e) /\ e.state = c.state /\ e.steps = Append(c.steps, step)
    BY DEF Emit, IsConfig
  <2>2. d = [e EXCEPT !.state.level2[x] = value]
    BY DEF assignment
  <2> HIDE DEF e, d, step, value
  <2> QED BY <2>1, <2>2 DEF IsConfig, StateFields, SameControl
<1>2. step.type = "ASSIGNMENT" /\ step.lhs = <<x, num>>
  BY DEF Assignment
<1>3. value.num = num
  OBVIOUS
<1> HIDE DEF d, step, value
<1>4. ASSUME NamesInv(c) PROVE NamesInv(d) /\ CutBy(c.steps) \subseteq CutBy(d.steps)
  <2>1. DOMAIN c.state.level2 = Vars /\ \A y \in Vars : c.state.level2[y].num \in Nat
    BY <1>4 DEF NamesInv
  <2>2. /\ DOMAIN d.state.level2 = Vars
        /\ \A y \in Vars : /\ d.state.level2[y].num \in Nat
                           /\ c.state.level2[y].num <= d.state.level2[y].num
    BY <1>1, <1>3, <2>1
  <2>3. d.state.guards = c.state.guards /\ c.state.guards \in Nat /\ c.state.guards <= c.state.guards
    BY <1>1, <1>4 DEF NamesInv, SameControl
  <2>4. ~Taken(c.state, <<x, num>>)
    BY <2>1 DEF Taken
  <2>5. Taken(d.state, <<x, num>>)
    <3>1. d.state.level2[x].num = num /\ num \in Nat
      BY <1>1, <1>3, <2>1
    <3> HIDE DEF num
    <3> QED BY <3>1 DEF Taken
  <2>6. NamesInv(d)
    <3> HIDE DEF num
    <3>1. step.type = "ASSIGNMENT" => ~Taken(c.state, step.lhs) /\ Taken(d.state, step.lhs)
      BY <1>2, <2>4, <2>5
    <3>2. d.state.guards \in Nat /\ c.state.guards <= d.state.guards
      BY <2>3
    <3>3. d.steps = Append(c.steps, step)
      BY <1>1
    <3> QED BY ONLY <1>4, <2>2, <3>1, <3>2, <3>3, NameGiven
  <2>7. IsSeq(c.steps)
    BY <1>4 DEF NamesInv
  <2> QED BY <1>1, <2>6, <2>7, CutGrows
<1> QED BY <1>1, <1>4 DEF Records, Grows, d

(* An assignment of the program, of a new input too.                       *)
LEMMA SymexAssignRecords ==
  ASSUME NEW c, IsConfig(c), NEW x \in Vars, NEW e, "guard" \notin Vars
  PROVE  Records(c, symex_assign(c, x, e))
PROOF
<1> DEFINE a == assignment(c, x, rename(c.state, e))
           d == symex_assign(c, x, e)
<1>1. Records(c, a)
  BY AssignmentRecords
<1>2. d = a \/ d = [a EXCEPT !.state.nondets = c.state.nondets + 1]
  BY DEF symex_assign
<1> HIDE DEF a, d
<1>3. Records(a, [a EXCEPT !.state.nondets = c.state.nondets + 1])
  <2> DEFINE b == [a EXCEPT !.state.nondets = c.state.nondets + 1]
  <2>1. /\ IsConfig(b) /\ SameControl(a, b) /\ b.steps = a.steps
        /\ b.state.level2 = a.state.level2
    BY <1>1 DEF Records, IsConfig, SameControl, StateFields
  <2> HIDE DEF b
  <2>2. NamesInv(a) => NamesInv(b)
    BY <2>1 DEF NamesInv, SameControl, Taken
  <2>3. Records(a, b)
    BY <2>1, <2>2 DEF Records, Grows
  <2> QED BY <2>3 DEF b
<1> QED BY <1>1, <1>2, <1>3, RecordsTransitive DEF d

-----------------------------------------------------------------------------
(* Guards.  sides[n] is where the n-th branch condition holds; a literal   *)
(* of a guard says of one branch which way it went.                        *)

GuardOK(g, sides) ==
  \A e \in g :
    e.kind = "symbol" =>
      \E n \in DOMAIN sides :
        /\ e.symbol = <<"guard", n>> /\ e.negated \in BOOLEAN
        /\ e.den = IF e.negated THEN sides[n] ELSE World \ sides[n]

(* The false guard holds nowhere.                                          *)
LEMMA FalseDen == Den(FalseGuard) = {}
BY DEF Den, FalseGuard, False

(* The true guard holds everywhere.                                        *)
LEMMA TrueDen == Den(TrueGuard) = World
BY DEF Den, TrueGuard

(* A conjunct narrows a guard to where it holds.                           *)
LEMMA AddDen ==
  ASSUME NEW g, NEW e, e.kind = "false" => e.den = {}
  PROVE  Den(add(g, e)) = Den(g) \cap e.den
PROOF
<1>1. CASE is_false(g)
  <2>1. Den(g) = {}
    BY <1>1, FalseDen DEF is_false
  <2> QED BY <1>1, <2>1 DEF add
<1>2. CASE ~is_false(g) /\ e.kind = "false"
  BY <1>2, FalseDen DEF add
<1>3. CASE ~is_false(g) /\ e.kind # "false"
  <2>1. add(g, e) = g \cup {e}
    BY <1>3 DEF add
  <2> QED BY <2>1 DEF Den
<1> QED BY <1>1, <1>2, <1>3

(* A literal of a known branch may be added.                               *)
LEMMA AddOK ==
  ASSUME NEW g, NEW e, NEW sides, GuardOK(g, sides), GuardOK({e}, sides)
  PROVE  GuardOK(add(g, e), sides)
PROOF
<1>1. GuardOK(FalseGuard, sides)
  BY DEF GuardOK, FalseGuard, False
<1>2. GuardOK(g \cup {e}, sides)
  BY DEF GuardOK
<1> QED BY <1>1, <1>2 DEF add

(* No input is on a path whose guard was made false.                       *)
LEMMA MakeFalse ==
  ASSUME NEW g, NEW sides
  PROVE  Den(make_false(g)) = {} /\ GuardOK(make_false(g), sides)
PROOF
<1>1. make_false(g) = FalseGuard
  BY DEF make_false, add, is_false, FalseGuard, False
<1>2. GuardOK(FalseGuard, sides)
  BY DEF GuardOK, FalseGuard, False
<1> QED BY <1>1, <1>2, FalseDen

(* operator |= is the disjunction, although it drops what both guards have *)
(* in common, and a literal with its opposite.                             *)
LEMMA OrIsDisjunction ==
  ASSUME NEW g, NEW h, NEW sides, GuardOK(g, sides), GuardOK(h, sides)
  PROVE  Den(Or(g, h)) = Den(g) \cup Den(h) /\ GuardOK(Or(g, h), sides)
PROOF
<1> DEFINE a == g \ h
           b == h \ g
<1>1. CASE is_false(h) \/ is_true(g) \/ is_false(g) \/ is_true(h) \/ g = h
  <2>1. is_false(g) => Den(g) = {}
    BY FalseDen DEF is_false
  <2>2. is_false(h) => Den(h) = {}
    BY FalseDen DEF is_false
  <2>3. is_true(g) => Den(g) = World
    BY TrueDen DEF is_true
  <2>4. is_true(h) => Den(h) = World
    BY TrueDen DEF is_true
  <2>5. Den(g) \subseteq World /\ Den(h) \subseteq World
    BY DEF Den
  <2> QED BY <1>1, <2>1, <2>2, <2>3, <2>4, <2>5 DEF Or
<1>2. CASE ~(is_false(h) \/ is_true(g) \/ is_false(g) \/ is_true(h) \/ g = h)
  <2>1. Or(g, h) = (g \cap h) \cup Either(a, b)
    BY <1>2 DEF Or
  <2>2. Den(Either(a, b)) \cap Den(g \cap h) = Den(g) \cup Den(h)
    <3>1. CASE \E c \in a, d \in b : a = {c} /\ b = {d} /\ Opposite(c, d)
      <4>1. PICK c \in a, d \in b : a = {c} /\ b = {d} /\ Opposite(c, d)
        BY <3>1
      <4>2. Either(a, b) = {}
        BY <3>1 DEF Either
      <4>3. PICK m \in DOMAIN sides :
              /\ c.symbol = <<"guard", m>> /\ c.negated \in BOOLEAN
              /\ c.den = IF c.negated THEN sides[m] ELSE World \ sides[m]
        BY <4>1 DEF GuardOK, Opposite
      <4>4. PICK n \in DOMAIN sides :
              /\ d.symbol = <<"guard", n>> /\ d.negated \in BOOLEAN
              /\ d.den = IF d.negated THEN sides[n] ELSE World \ sides[n]
        BY <4>1 DEF GuardOK, Opposite
      <4>5. m = n
        <5>1. <<"guard", m>> = <<"guard", n>>
          BY <4>1, <4>3, <4>4 DEF Opposite
        <5> QED BY <5>1
      <4>6. World \subseteq c.den \cup d.den
        BY <4>1, <4>3, <4>4, <4>5 DEF Opposite
      <4>7. g = (g \cap h) \cup {c} /\ h = (g \cap h) \cup {d}
        BY <4>1
      <4>8. \A w : w \in Den(g) <=> w \in Den(g \cap h) /\ w \in c.den
        BY <4>7 DEF Den
      <4>9. \A w : w \in Den(h) <=> w \in Den(g \cap h) /\ w \in d.den
        BY <4>7 DEF Den
      <4>10. Den(g \cap h) \subseteq World /\ Den({}) = World
        BY DEF Den
      <4> HIDE DEF a, b
      <4> QED BY <4>2, <4>6, <4>8, <4>9, <4>10
    <3>2. CASE ~(\E c \in a, d \in b : a = {c} /\ b = {d} /\ Opposite(c, d))
      <4>1. Either(a, b) = {Condition(Den(a) \cup Den(b), Syms(a) \cup Syms(b))}
        BY <3>2, Zenon DEF Either
      <4>2. Den(Either(a, b)) = Den(a) \cup Den(b)
        <5>1. Den(a) \subseteq World /\ Den(b) \subseteq World
          BY DEF Den
        <5> HIDE DEF a, b
        <5>2. Condition(Den(a) \cup Den(b), Syms(a) \cup Syms(b)).den = Den(a) \cup Den(b)
          BY DEF Condition
        <5> QED BY <4>1, <5>1, <5>2 DEF Den
      <4>3. \A w : w \in Den(g) <=> w \in Den(g \cap h) /\ w \in Den(a)
        BY DEF Den
      <4>4. \A w : w \in Den(h) <=> w \in Den(g \cap h) /\ w \in Den(b)
        BY DEF Den
      <4> HIDE DEF a, b
      <4> QED BY <4>2, <4>3, <4>4
    <3> QED BY <3>1, <3>2
  <2>3. Den((g \cap h) \cup Either(a, b)) = Den(Either(a, b)) \cap Den(g \cap h)
    BY DEF Den
  <2>4. GuardOK(Either(a, b), sides)
    BY DEF Either, GuardOK, Condition
  <2>5. GuardOK((g \cap h) \cup Either(a, b), sides)
    BY <2>4 DEF GuardOK
  <2> QED BY <2>1, <2>2, <2>3, <2>5
<1> QED BY <1>1, <1>2

-----------------------------------------------------------------------------
(* Symbols before their assignment.                                        *)

(* What the equation may name: a name that was given out, or an input.     *)
Named(state, s) == Taken(state, s) \/ s[1] = "nondet"

GuardNamed(state, g) == \A s \in Syms(g) : Named(state, s)

(* No variable of a state put aside has a name that was not given out.     *)
QueuedNamed(state, q) ==
  /\ GuardNamed(state, q.guard)
  /\ \A x \in Vars : q.level2[x].num \in Nat /\ q.level2[x].num <= state.level2[x].num

FrameNamed(state, f) ==
  /\ GuardNamed(state, f.entry_guard)
  /\ \A l \in DOMAIN f.goto_state_map :
       \A i \in DOMAIN f.goto_state_map[l] : QueuedNamed(state, f.goto_state_map[l][i])

StackNamed(state, stack) == \A n \in DOMAIN stack : FrameNamed(state, stack[n])

(* A step names no symbol that it or a later one assigns.                  *)
AssignedFirst(steps) ==
  \A m, n \in DOMAIN steps :
    n <= m /\ steps[m].type = "ASSIGNMENT" => steps[m].lhs \notin steps[n].syms

StepsNamed(state, steps) ==
  \A n \in DOMAIN steps : \A s \in steps[n].syms : Named(state, s)

(* Symbolic execution appends no step that is ignored.                     *)
StepOK(step) ==
  /\ {"type", "syms", "ignore"} \subseteq DOMAIN step
  /\ step.type \in {"ASSIGNMENT", "ASSUME", "ASSERT"}
  /\ step.type = "ASSIGNMENT" => "lhs" \in DOMAIN step
  /\ ~step.ignore

StepsOK(steps) == \A n \in DOMAIN steps : StepOK(steps[n])

SymsInv(c) ==
  /\ IsConfig(c) /\ NamesInv(c)
  /\ StepsOK(c.steps) /\ StepsNamed(c.state, c.steps) /\ AssignedFirst(c.steps)
  /\ GuardNamed(c.state, c.state.guard)
  /\ StackNamed(c.state, c.state.call_stack)

(* The counters of names, from one state to a later one.                   *)
NoFewer(a, b) ==
  /\ \A x \in Vars : /\ a.level2[x].num \in Nat /\ b.level2[x].num \in Nat
                     /\ a.level2[x].num <= b.level2[x].num
  /\ a.guards \in Nat /\ b.guards \in Nat /\ a.guards <= b.guards

(* From c to d names were given out, and none is used before it is         *)
(* assigned.                                                               *)
Carried(c, d) ==
  SymsInv(d) /\ NoFewer(c.state, d.state) /\ d.state.call_stack = c.state.call_stack

-----------------------------------------------------------------------------
(* What the folds do.                                                      *)

(* After the states of s were merged: names were given out, and an input   *)
(* that was on one of their paths is on this one.                          *)
Merged(c, list, sides, s, d) ==
  /\ IsConfig(d)
  /\ d.state.pc = c.state.pc
  /\ d.state.call_stack = c.state.call_stack
  /\ d.state.guards = c.state.guards
  /\ Grows(c, d)
  /\ GuardOK(d.state.guard, sides)
  /\ Den(d.state.guard) = Den(c.state.guard) \cup UNION {Den(list[i].guard) : i \in s}

(* Before step i: of the steps from i on those of used are as they were,   *)
(* and what these name is assigned there by steps of used, or depended on. *)
SlicedFrom(list, n, i, used, d) ==
  /\ DOMAIN d = {"depends", "steps"} /\ IsSeq(d.steps) /\ Len(d.steps) = n - i + 1
  /\ used \in SUBSET (i .. n)
  /\ \A j \in i .. n :
       /\ list[j].type # "ASSIGNMENT" => j \in used
       /\ d.steps[j - i + 1] = IF j \in used THEN list[j] ELSE [list[j] EXCEPT !.ignore = TRUE]
  /\ \A j \in used : \A s \in list[j].syms :
       /\ \A m \in i .. n : list[m].type = "ASSIGNMENT" /\ list[m].lhs = s => m \in used
       /\ s \in d.depends \/ \E m \in i .. n : list[m].type = "ASSIGNMENT" /\ list[m].lhs = s

SlicedThrough(list, s, d) ==
  \A n \in Nat : \A i \in 1 .. n + 1 :
    DOMAIN list = 1 .. n /\ s = i .. n => \E used : SlicedFrom(list, n, i, used, d)

Fold_keeps(goal, s, d) ==
  CASE goal.kind = "merged" -> Merged(goal.from, goal.list, goal.sides, s, d)
    [] goal.kind = "records" -> Records(goal.from, d)
    [] goal.kind = "names" -> Carried(goal.from, d)
    [] goal.kind = "slice" -> SlicedThrough(goal.list, s, d)

(* What holds of the base, and after a step if it held before it, holds of *)
(* the fold.                                                               *)
LEMMA FoldInduction ==
  ASSUME NEW tag, NEW base, NEW S, IsFiniteSet(S), NEW it, IsFold(tag, base, S, it), NEW goal,
         \A s \in SUBSET S : s # {} => Fold_pick(tag, s) \in s,
         Fold_keeps(goal, {}, base),
         \A s \in SUBSET S : \A d :
           s # {} /\ Fold_keeps(goal, s \ {Fold_pick(tag, s)}, d) =>
             Fold_keeps(goal, s, Fold_op(tag, Fold_pick(tag, s), d))
  PROVE  Fold_keeps(goal, S, it[S])
PROOF
<1> DEFINE Sub(n) == {s \in SUBSET S : Cardinality(s) <= n}
           pick(s) == Fold_pick(tag, s)
           Kept == {n \in Nat : \A s \in Sub(n) : Fold_keeps(goal, s, it[s])}
<1>1. ASSUME NEW s \in SUBSET S
      PROVE  IsFiniteSet(s) /\ Cardinality(s) \in Nat /\ Cardinality(s) <= Cardinality(S)
  BY FS_Subset, FS_CardinalityType
<1>2. ASSUME NEW s \in SUBSET S
      PROVE  it[s] = IF s = {} THEN base ELSE Fold_op(tag, pick(s), it[s \ {pick(s)}])
  BY Zenon DEF IsFold
<1>3. 0 \in Kept
  <2>1. \A s \in Sub(0) : s = {}
    BY <1>1, FS_EmptySet
  <2> QED BY <1>2, <2>1
<1>4. ASSUME NEW n \in Kept PROVE n + 1 \in Kept
  <2>1. ASSUME NEW s \in Sub(n + 1) PROVE Fold_keeps(goal, s, it[s])
    <3>1. CASE s = {}
      BY <1>2, <3>1
    <3>2. CASE s # {}
      <4>1. pick(s) \in s
        BY <3>2
      <4>2. Cardinality(s \ {pick(s)}) = Cardinality(s) - 1
        BY <1>1, <4>1, FS_RemoveElement
      <4>3. s \ {pick(s)} \in Sub(n)
        BY <1>1, <4>2
      <4>4. Fold_keeps(goal, s \ {pick(s)}, it[s \ {pick(s)}])
        BY <4>3
      <4> QED BY <1>2, <3>2, <4>4
    <3> QED BY <3>1, <3>2
  <2> QED BY <2>1
<1>5. Kept = Nat
  <2> HIDE DEF Kept
  <2>1. Kept \in SUBSET Nat
    BY DEF Kept
  <2> QED BY <1>3, <1>4, <2>1, NatSetInduction
<1>6. Cardinality(S) \in Kept /\ S \in Sub(Cardinality(S))
  BY <1>1, <1>5
<1> QED BY <1>6

(* A value returned into the variables of a call.                          *)
LEMMA AssignEachRecords ==
  ASSUME NEW c, IsConfig(c), NEW xs \in SUBSET Vars, NEW e
  PROVE  Records(c, assign_each(c, xs, e))
PROOF
<1> DEFINE tag == [fold |-> "assign", e |-> e]
           goal == [kind |-> "records", from |-> c]
<1>1. IsFiniteSet(xs) /\ "guard" \notin Vars
  BY ProgramAssumption, FS_Subset
<1>2. PICK it : IsFold(tag, c, xs, it) /\ assign_each(c, xs, e) = it[xs]
  BY <1>1, AssignEachIsFold
<1>3. /\ \A s : Fold_pick(tag, s) = CHOOSE x \in s : TRUE
      /\ \A x, d : Fold_op(tag, x, d) = symex_assign(d, x, e)
      /\ \A s, d : Fold_keeps(goal, s, d) <=> Records(c, d)
  BY DEF Fold_pick, Fold_op, Fold_keeps
<1> HIDE DEF tag, goal
<1>4. \A s \in SUBSET xs : s # {} => Fold_pick(tag, s) \in s
  BY <1>3
<1>5. Fold_keeps(goal, {}, c)
  BY <1>3, RecordsReflexive
<1>6. ASSUME NEW s \in SUBSET xs, NEW d,
             s # {}, Fold_keeps(goal, s \ {Fold_pick(tag, s)}, d)
      PROVE  Fold_keeps(goal, s, Fold_op(tag, Fold_pick(tag, s), d))
  <2> DEFINE x == Fold_pick(tag, s)
  <2>1. x \in Vars
    BY <1>4, <1>6
  <2> HIDE DEF x
  <2>2. Records(c, d) /\ IsConfig(d)
    BY <1>3, <1>6 DEF Records
  <2>3. Records(d, symex_assign(d, x, e))
    BY <1>1, <2>1, <2>2, SymexAssignRecords
  <2>4. Records(c, symex_assign(d, x, e))
    BY <2>2, <2>3, RecordsTransitive
  <2> QED BY <1>3, <2>4 DEF x
<1>7. Fold_keeps(goal, xs, it[xs])
  BY <1>1, <1>2, <1>4, <1>5, <1>6, FoldInduction
<1> QED BY <1>2, <1>3, <1>7

(* The variables of a state put aside merged.                              *)
LEMMA PhiFunctionRecords ==
  ASSUME NEW c, IsConfig(c), NEW goto_state, NEW merged
  PROVE  Records(c, phi_function(c, goto_state, merged))
PROOF
<1> DEFINE guard == Minus(goto_state.guard, merged)
           tag == [fold |-> "phi", goto_state |-> goto_state, guard |-> guard]
           goal == [kind |-> "records", from |-> c]
           xs == Changed(c, goto_state)
<1>1. xs \in SUBSET Vars /\ IsFiniteSet(xs) /\ IsFiniteSet(Vars) /\ "guard" \notin Vars
  BY ProgramAssumption, FS_Subset DEF Changed
<1>2. PICK it : IsFold(tag, c, xs, it) /\ phi_function(c, goto_state, merged) = it[xs]
  BY <1>1, PhiFunctionIsFold
<1> HIDE DEF guard, xs
<1>3. /\ \A s : Fold_pick(tag, s) = CHOOSE x \in s : TRUE
      /\ \A x, d : Fold_op(tag, x, d) = phi(goto_state, guard, x, d)
      /\ \A s, d : Fold_keeps(goal, s, d) <=> Records(c, d)
  BY DEF Fold_pick, Fold_op, Fold_keeps
<1> HIDE DEF tag, goal
<1>4. \A s \in SUBSET xs : s # {} => Fold_pick(tag, s) \in s
  BY <1>3
<1>5. Fold_keeps(goal, {}, c)
  BY <1>3, RecordsReflexive
<1>6. ASSUME NEW s \in SUBSET xs, NEW d,
             s # {}, Fold_keeps(goal, s \ {Fold_pick(tag, s)}, d)
      PROVE  Fold_keeps(goal, s, Fold_op(tag, Fold_pick(tag, s), d))
  <2> DEFINE x == Fold_pick(tag, s)
  <2>1. x \in Vars
    BY <1>1, <1>4, <1>6
  <2> HIDE DEF x
  <2>2. Records(c, d) /\ IsConfig(d)
    BY <1>3, <1>6 DEF Records
  <2>3. Records(d, phi(goto_state, guard, x, d))
    BY <1>1, <2>1, <2>2, AssignmentRecords DEF phi
  <2>4. Records(c, phi(goto_state, guard, x, d))
    BY <2>2, <2>3, RecordsTransitive
  <2> QED BY <1>3, <2>4 DEF x
<1>7. Fold_keeps(goal, xs, it[xs])
  BY <1>1, <1>2, <1>4, <1>5, <1>6, FoldInduction
<1> QED BY <1>2, <1>3, <1>7

(* No name given out and no step appended.                                 *)
LEMMA GrowsReflexive ==
  ASSUME NEW c, NEW d, d.steps = c.steps, d.state.level2 = c.state.level2,
         d.state.guards = c.state.guards
  PROVE  Grows(c, d)
BY DEF Grows, NamesInv, Taken

(* One after the other.                                                    *)
LEMMA GrowsTransitive ==
  ASSUME NEW a, NEW b, NEW c, Grows(a, b), Grows(b, c)
  PROVE  Grows(a, c)
BY DEF Grows

(* Another guard, and nothing else.                                        *)
LEMMA SetGuard ==
  ASSUME NEW c, IsConfig(c), NEW g
  PROVE  LET d == [c EXCEPT !.state.guard = g]
         IN  /\ IsConfig(d) /\ d.state.guard = g /\ Grows(c, d)
             /\ d.state.pc = c.state.pc
             /\ d.state.call_stack = c.state.call_stack
             /\ d.state.guards = c.state.guards
             /\ d.steps = c.steps
PROOF
<1> DEFINE d == [c EXCEPT !.state.guard = g]
<1>1. /\ IsConfig(d) /\ d.state.guard = g
      /\ d.state.pc = c.state.pc /\ d.state.call_stack = c.state.call_stack
      /\ d.state.guards = c.state.guards /\ d.state.level2 = c.state.level2
      /\ d.steps = c.steps
  BY DEF IsConfig, StateFields
<1> HIDE DEF d
<1>2. Grows(c, d)
  BY <1>1, GrowsReflexive
<1> QED BY <1>1, <1>2 DEF d

(* One more state of the list merged.                                      *)
LEMMA MergeGoto ==
  ASSUME NEW c, NEW list, NEW sides, NEW s, NEW x \in s, NEW d,
         Merged(c, list, sides, s \ {x}, d), GuardOK(list[x].guard, sides)
  PROVE  Merged(c, list, sides, s, merge_goto(list[x], d))
PROOF
<1> DEFINE goto_state == list[x]
           new_guard == Or(d.state.guard, goto_state.guard)
           after == IF is_false(goto_state.guard) THEN d ELSE phi_function(d, goto_state, new_guard)
           e == [after EXCEPT !.state.guard = new_guard]
<1>1. merge_goto(goto_state, d) = e
  BY DEF merge_goto, merge_state_guards, Guard
<1>2. IsConfig(d)
  BY DEF Merged
<1>3. Records(d, after)
  BY <1>2, RecordsReflexive, PhiFunctionRecords
<1>4. Den(new_guard) = Den(d.state.guard) \cup Den(goto_state.guard) /\ GuardOK(new_guard, sides)
  BY OrIsDisjunction DEF Merged
<1>5. Den(d.state.guard) = Den(c.state.guard) \cup UNION {Den(list[i].guard) : i \in s \ {x}}
  BY DEF Merged
<1> HIDE DEF after, new_guard
<1>6. /\ IsConfig(e) /\ e.state.guard = new_guard /\ Grows(after, e)
      /\ e.state.pc = after.state.pc
      /\ e.state.call_stack = after.state.call_stack
      /\ e.state.guards = after.state.guards
  BY <1>3, SetGuard DEF Records
<1> HIDE DEF e
<1>7. Grows(c, e)
  BY <1>3, <1>6, GrowsTransitive DEF Records, Merged
<1>8. Den(new_guard) = Den(c.state.guard) \cup UNION {Den(list[i].guard) : i \in s}
  BY <1>4, <1>5
<1>9. Merged(c, list, sides, s, e)
  BY <1>3, <1>4, <1>6, <1>7, <1>8 DEF Records, SameControl, Merged
<1> QED BY <1>1, <1>9

(* All states of a list merged.                                            *)
LEMMA MergeAll ==
  ASSUME NEW c, IsConfig(c), NEW list, NEW n \in Nat, DOMAIN list = 1 .. n, NEW sides,
         GuardOK(c.state.guard, sides), \A i \in 1 .. n : GuardOK(list[i].guard, sides)
  PROVE  Merged(c, list, sides, 1 .. n, FoldRight(merge_goto, list, c))
PROOF
<1> DEFINE tag == [fold |-> "merge", list |-> list]
           goal == [kind |-> "merged", from |-> c, list |-> list, sides |-> sides]
           S == 1 .. n
<1>1. IsFiniteSet(S)
  BY FS_Interval
<1>2. PICK it : IsFold(tag, c, S, it) /\ FoldRight(merge_goto, list, c) = it[S]
  BY MergesAreFold
<1>3. /\ \A s : Fold_pick(tag, s) = Min(s)
      /\ \A x, d : Fold_op(tag, x, d) = merge_goto(list[x], d)
      /\ \A s, d : Fold_keeps(goal, s, d) <=> Merged(c, list, sides, s, d)
  BY DEF Fold_pick, Fold_op, Fold_keeps
<1> HIDE DEF tag, goal
<1>4. \A s \in SUBSET S : s # {} => Fold_pick(tag, s) \in s
  BY <1>3, MinProperties
<1>5. Fold_keeps(goal, {}, c)
  <2>1. Grows(c, c)
    BY GrowsReflexive
  <2> QED BY <1>3, <2>1 DEF Merged
<1>6. ASSUME NEW s \in SUBSET S, NEW d,
             s # {}, Fold_keeps(goal, s \ {Fold_pick(tag, s)}, d)
      PROVE  Fold_keeps(goal, s, Fold_op(tag, Fold_pick(tag, s), d))
  <2> DEFINE x == Fold_pick(tag, s)
  <2>1. x \in s /\ x \in S
    BY <1>4, <1>6
  <2>2. Merged(c, list, sides, s \ {x}, d)
    BY <1>3, <1>6
  <2> HIDE DEF x
  <2>3. Merged(c, list, sides, s, merge_goto(list[x], d))
    BY <2>1, <2>2, MergeGoto
  <2> QED BY <1>3, <2>3 DEF x
<1>7. Fold_keeps(goal, S, it[S])
  BY <1>1, <1>2, <1>4, <1>5, <1>6, FoldInduction
<1> QED BY <1>2, <1>3, <1>7

-----------------------------------------------------------------------------
(* The call stack.                                                         *)

Body(f) == goto_functions.body[f]

FrameFields == {"function", "entry_guard", "calling_location", "return_value", "goto_state_map"}

FrameOK(f, sides) ==
  /\ DOMAIN f = FrameFields
  /\ f.function \in DOMAIN goto_functions.body
  /\ f.return_value \subseteq Vars
  /\ GuardOK(f.entry_guard, sides)
  /\ \A l \in DOMAIN f.goto_state_map :
       /\ l = <<f.function, l[2]>> /\ l[2] \in 1 .. Len(Body(f.function))
       /\ IsSeq(f.goto_state_map[l])
       /\ \A i \in DOMAIN f.goto_state_map[l] : GuardOK(f.goto_state_map[l][i].guard, sides)

(* All that was put aside in the frame waits behind the k-th instruction.  *)
Ahead(f, k) == \A l \in DOMAIN f.goto_state_map : k < l[2]

StackOK(stack, sides) ==
  /\ IsSeq(stack) /\ Len(stack) >= 1
  /\ stack[1].function = Main
  /\ \A n \in 1 .. Len(stack) : FrameOK(stack[n], sides)
  /\ \A n \in 1 .. Len(stack) - 1 :
       LET l == stack[n + 1].calling_location
       IN  /\ l = <<stack[n].function, l[2]>>
           /\ l[2] \in 1 .. Len(Body(stack[n].function)) - 1
           /\ Ahead(stack[n], l[2])

Queued(f) ==
  UNION {{<<l, i>> : i \in DOMAIN f.goto_state_map[l]} : l \in DOMAIN f.goto_state_map}

DenOf(f, q) == Den(f.goto_state_map[q[1]][q[2]].guard)

(* How the inputs that entered a frame are divided among the path at hand  *)
(* and those put aside.                                                    *)
Split(f, here, cut) ==
  /\ here \subseteq Den(f.entry_guard)
  /\ \A q \in Queued(f) : DenOf(f, q) \subseteq Den(f.entry_guard) /\ DenOf(f, q) \cap here = {}
  /\ \A q, r \in Queued(f) : q # r => DenOf(f, q) \cap DenOf(f, r) = {}
  /\ Den(f.entry_guard) \ cut \subseteq here \cup UNION {DenOf(f, q) : q \in Queued(f)}

Here(stack, guard, n) == IF n = Len(stack) THEN guard ELSE stack[n + 1].entry_guard

PathsOK(stack, guard, cut) ==
  \A n \in 1 .. Len(stack) : Split(stack[n], Den(Here(stack, guard, n)), cut)

(* Inputs that leave the path at hand are cut off.                         *)
LEMMA SplitNarrows ==
  ASSUME NEW f, NEW here, NEW cut, Split(f, here, cut),
         NEW here2, NEW cut2, here2 \subseteq here, cut \subseteq cut2, here \ cut2 \subseteq here2
  PROVE  Split(f, here2, cut2)
BY DEF Split

(* A frame with one more state put aside.                                  *)
WithState(f, l, goto_state) ==
  LET map == f.goto_state_map
      list == IF l \in DOMAIN map THEN map[l] ELSE <<>>
  IN  [f EXCEPT !.goto_state_map =
         [m \in DOMAIN map \cup {l} |-> IF m = l THEN Append(list, goto_state) ELSE map[m]]]

(* It has one more state waiting, with the guard it was put aside with.    *)
LEMMA WithStateFacts ==
  ASSUME NEW f, NEW sides, FrameOK(f, sides),
         NEW l, l = <<f.function, l[2]>>, l[2] \in 1 .. Len(Body(f.function)), NEW goto_state, GuardOK(goto_state.guard, sides)
  PROVE  LET g == WithState(f, l, goto_state)
         IN  /\ FrameOK(g, sides)
             /\ g.function = f.function /\ g.entry_guard = f.entry_guard
             /\ g.calling_location = f.calling_location /\ g.return_value = f.return_value
             /\ DOMAIN g.goto_state_map = DOMAIN f.goto_state_map \cup {l}
             /\ \E new \in Queued(g) :
                  /\ Queued(g) = Queued(f) \cup {new} /\ new \notin Queued(f)
                  /\ DenOf(g, new) = Den(goto_state.guard)
                  /\ \A q \in Queued(f) : DenOf(g, q) = DenOf(f, q)
PROOF
<1> DEFINE map == f.goto_state_map
           list == IF l \in DOMAIN map THEN map[l] ELSE <<>>
           longer == Append(list, goto_state)
           more == [m \in DOMAIN map \cup {l} |-> IF m = l THEN longer ELSE map[m]]
           g == WithState(f, l, goto_state)
<1>1. IsSeq(list) /\ \A i \in DOMAIN list : GuardOK(list[i].guard, sides)
  <2>1. CASE l \in DOMAIN map
    BY <2>1 DEF FrameOK
  <2>2. CASE l \notin DOMAIN map
    <3>1. IsSeq(<<>>) /\ DOMAIN <<>> = {}
      BY DEF IsSeq
    <3> QED BY <2>2, <3>1
  <2> QED BY <2>1, <2>2
<1>2. g = [f EXCEPT !.goto_state_map = more]
  BY DEF WithState
<1> HIDE DEF list
<1>3. /\ IsSeq(longer) /\ Len(list) \in Nat /\ DOMAIN list = 1 .. Len(list)
      /\ DOMAIN longer = 1 .. Len(list) + 1
      /\ longer[Len(list) + 1] = goto_state
      /\ \A i \in 1 .. Len(list) : longer[i] = list[i]
  BY <1>1, AppendStep
<1> HIDE DEF longer
<1>4. /\ DOMAIN more = DOMAIN map \cup {l} /\ more[l] = longer
      /\ \A m \in DOMAIN map : m # l => more[m] = map[m]
  OBVIOUS
<1> HIDE DEF more
<1>5. /\ DOMAIN g = FrameFields /\ g.goto_state_map = more
      /\ g.function = f.function /\ g.entry_guard = f.entry_guard
      /\ g.calling_location = f.calling_location /\ g.return_value = f.return_value
  BY <1>2 DEF FrameOK, FrameFields
<1> HIDE DEF g
<1>6. \A i \in DOMAIN longer : GuardOK(longer[i].guard, sides)
  BY <1>1, <1>3
<1>7. FrameOK(g, sides)
  <2>1. ASSUME NEW m \in DOMAIN more
        PROVE  /\ m = <<f.function, m[2]>> /\ m[2] \in 1 .. Len(Body(f.function))
               /\ IsSeq(more[m]) /\ \A i \in DOMAIN more[m] : GuardOK(more[m][i].guard, sides)
    <3>1. CASE m = l
      BY <1>3, <1>4, <1>6, <3>1
    <3>2. CASE m # l
      BY <1>4, <3>2 DEF FrameOK
    <3> QED BY <3>1, <3>2
  <2> QED BY <1>5, <2>1 DEF FrameOK
<1>8. \E new \in Queued(g) :
        /\ Queued(g) = Queued(f) \cup {new} /\ new \notin Queued(f)
        /\ DenOf(g, new) = Den(goto_state.guard)
        /\ \A q \in Queued(f) : DenOf(g, q) = DenOf(f, q)
  <2> DEFINE new == <<l, Len(list) + 1>>
  <2>1. ASSUME NEW q
        PROVE  q \in Queued(f) <=> \E m \in DOMAIN map : \E i \in DOMAIN map[m] : q = <<m, i>>
    BY DEF Queued
  <2>2. ASSUME NEW q
        PROVE  q \in Queued(g) <=> \E m \in DOMAIN more : \E i \in DOMAIN more[m] : q = <<m, i>>
    BY <1>5 DEF Queued
  <2>3. new \in Queued(g)
    BY <1>3, <1>4, <2>2
  <2>4. new \notin Queued(f)
    <3>1. ASSUME NEW m \in DOMAIN map, NEW i \in DOMAIN map[m], new = <<m, i>> PROVE FALSE
      <4>1. m = l /\ i = Len(list) + 1
        BY <3>1
      <4>2. list = map[l]
        BY <4>1 DEF list
      <4> QED BY <1>3, <4>1, <4>2
    <3> QED BY <2>1, <3>1
  <2>5. ASSUME NEW q \in Queued(f) PROVE q \in Queued(g) /\ DenOf(g, q) = DenOf(f, q)
    <3>0. PICK m \in DOMAIN map : \E i \in DOMAIN map[m] : q = <<m, i>>
      BY <2>1
    <3>1. PICK i \in DOMAIN map[m] : q = <<m, i>>
      BY <3>0
    <3>2. CASE m = l
      <4>1. list = map[l]
        BY <3>2 DEF list
      <4>2. i \in DOMAIN more[m] /\ more[m][i] = map[m][i]
        BY <1>3, <1>4, <3>1, <3>2, <4>1
      <4> QED BY <1>4, <1>5, <2>2, <3>1, <4>2 DEF DenOf
    <3>3. CASE m # l
      BY <1>4, <1>5, <2>2, <3>1, <3>3 DEF DenOf
    <3> QED BY <3>2, <3>3
  <2>6. ASSUME NEW q \in Queued(g), q # new PROVE q \in Queued(f)
    <3>0. PICK m \in DOMAIN more : \E i \in DOMAIN more[m] : q = <<m, i>>
      BY <2>2
    <3>1. PICK i \in DOMAIN more[m] : q = <<m, i>>
      BY <3>0
    <3>2. CASE m = l
      <4>1. i \in 1 .. Len(list)
        BY <1>3, <1>4, <2>6, <3>1, <3>2
      <4>2. list = map[l] /\ l \in DOMAIN map
        <5>1. DOMAIN list # {}
          BY <1>3, <4>1
        <5> QED BY <5>1 DEF list
      <4> QED BY <1>3, <2>1, <3>1, <3>2, <4>1, <4>2
    <3>3. CASE m # l
      BY <1>4, <2>1, <3>1, <3>3
    <3> QED BY <3>2, <3>3
  <2>7. DenOf(g, new) = Den(goto_state.guard)
    BY <1>3, <1>4, <1>5 DEF DenOf
  <2> HIDE DEF new
  <2>8. Queued(g) = Queued(f) \cup {new}
    BY <2>3, <2>5, <2>6
  <2> QED BY <2>3, <2>4, <2>5, <2>7, <2>8
<1> QED BY <1>4, <1>5, <1>7, <1>8 DEF g

(* Inputs that leave the path at hand are put aside.                       *)
LEMMA SplitAside ==
  ASSUME NEW f, NEW here, NEW cut, Split(f, here, cut),
         NEW g, g.entry_guard = f.entry_guard,
         NEW new \in Queued(g), Queued(g) = Queued(f) \cup {new}, new \notin Queued(f),
         \A q \in Queued(f) : DenOf(g, q) = DenOf(f, q),
         NEW here2, NEW cut2, here2 \subseteq here, DenOf(g, new) \subseteq here,
         here2 \cap DenOf(g, new) = {},
         cut \subseteq cut2, here \ cut2 \subseteq here2 \cup DenOf(g, new)
  PROVE  Split(g, here2, cut2)
PROOF
<1>1. ASSUME NEW q \in Queued(g)
      PROVE  DenOf(g, q) \subseteq Den(g.entry_guard) /\ DenOf(g, q) \cap here2 = {}
  BY DEF Split
<1>2. ASSUME NEW q \in Queued(g), NEW r \in Queued(g), q # r
      PROVE  DenOf(g, q) \cap DenOf(g, r) = {}
  BY <1>2 DEF Split
<1>3. ASSUME NEW w \in Den(g.entry_guard), w \notin cut2
      PROVE  w \in here2 \cup UNION {DenOf(g, q) : q \in Queued(g)}
  <2>1. w \in here \/ \E q \in Queued(f) : w \in DenOf(f, q)
    BY <1>3 DEF Split
  <2>2. CASE w \in here
    BY <1>3, <2>2
  <2>3. CASE \E q \in Queued(f) : w \in DenOf(f, q)
    BY <2>3
  <2> QED BY <2>1, <2>2, <2>3
<1>4. here2 \subseteq Den(g.entry_guard)
  BY DEF Split
<1> QED BY <1>1, <1>2, <1>3, <1>4 DEF Split

(* Another frame on top, that is where the old one was.                    *)
LEMMA TopReplaced ==
  ASSUME NEW stack, NEW sides, StackOK(stack, sides), NEW f, FrameOK(f, sides),
         f.function = stack[Len(stack)].function,
         f.entry_guard = stack[Len(stack)].entry_guard,
         f.calling_location = stack[Len(stack)].calling_location
  PROVE  LET s == [stack EXCEPT ![Len(stack)] = f]
         IN  /\ StackOK(s, sides) /\ Len(s) = Len(stack) /\ s[Len(stack)] = f
             /\ \A guard, guard2, cut, cut2 :
                  /\ PathsOK(stack, guard, cut) /\ cut \subseteq cut2
                  /\ Split(f, Den(guard2), cut2)
                  => PathsOK(s, guard2, cut2)
PROOF
<1> DEFINE n == Len(stack)
           R == Range(stack) \cup {f}
           s == [stack EXCEPT ![n] = f]
<1>1. /\ stack \in Seq(Range(stack)) /\ n \in Nat \ {0} /\ DOMAIN stack = 1 .. n
  <2>1. stack \in Seq(Range(stack))
    BY DEF StackOK, IsSeq
  <2> QED BY <2>1, LenProperties DEF StackOK
<1>2. /\ DOMAIN s = 1 .. n /\ s[n] = f /\ \A m \in 1 .. n - 1 : s[m] = stack[m]
  BY <1>1
<1>3. s \in Seq(R) /\ Len(s) = n
  <2>1. stack \in [1 .. n -> R]
    BY <1>1 DEF Range
  <2>2. f \in R
    OBVIOUS
  <2> HIDE DEF R
  <2>3. s \in [1 .. n -> R]
    BY <2>1, <2>2
  <2> HIDE DEF s
  <2> QED BY <1>1, <2>3
<1>4. IsSeq(s)
  BY <1>3, SeqOfElements DEF IsSeq
<1> HIDE DEF R, s, n
<1>5. \A m \in 1 .. n :
        /\ s[m].function = stack[m].function
        /\ s[m].entry_guard = stack[m].entry_guard
        /\ s[m].calling_location = stack[m].calling_location
  BY <1>1, <1>2 DEF n
<1>6. StackOK(s, sides)
  <2>1. 1 \in 1 .. n /\ s[1].function = Main /\ Len(s) >= 1
    BY <1>1, <1>3, <1>5 DEF StackOK
  <2>2. ASSUME NEW m \in 1 .. n PROVE FrameOK(s[m], sides)
    <3>1. m = n \/ m \in 1 .. n - 1
      BY <1>1
    <3> QED BY <1>2, <3>1 DEF StackOK, n
  <2>3. ASSUME NEW m \in 1 .. n - 1
        PROVE  LET l == s[m + 1].calling_location
               IN  /\ l = <<s[m].function, l[2]>>
                   /\ l[2] \in 1 .. Len(Body(s[m].function)) - 1
                   /\ Ahead(s[m], l[2])
    <3>1. m + 1 \in 1 .. n /\ s[m] = stack[m]
      BY <1>1, <1>2
    <3>2. s[m + 1].calling_location = stack[m + 1].calling_location
      BY <1>5, <3>1
    <3> QED BY <3>1, <3>2 DEF StackOK, n
  <2> QED BY <1>3, <1>4, <2>1, <2>2, <2>3 DEF StackOK
<1>7. ASSUME NEW guard, NEW guard2, NEW cut, NEW cut2,
             PathsOK(stack, guard, cut), cut \subseteq cut2, Split(f, Den(guard2), cut2)
      PROVE  PathsOK(s, guard2, cut2)
  <2>1. ASSUME NEW m \in 1 .. n PROVE Split(s[m], Den(Here(s, guard2, m)), cut2)
    <3>1. CASE m = n
      BY <1>2, <1>3, <1>7, <3>1 DEF Here
    <3>2. CASE m # n
      <4>1. m \in 1 .. n - 1 /\ m + 1 \in 1 .. n /\ s[m] = stack[m]
        BY <1>1, <1>2, <3>2
      <4>2. Here(s, guard2, m) = Here(stack, guard, m)
        BY <1>3, <1>5, <3>2, <4>1 DEF Here, n
      <4>3. Split(stack[m], Den(Here(stack, guard, m)), cut)
        BY <1>7 DEF PathsOK, n
      <4> QED BY <1>7, <4>1, <4>2, <4>3, SplitNarrows
    <3> QED BY <3>1, <3>2
  <2> QED BY <1>3, <2>1 DEF PathsOK
<1> QED BY <1>2, <1>3, <1>6, <1>7 DEF s, n

(* Another guard, or more inputs cut off.                                  *)
LEMMA PathsNarrow ==
  ASSUME NEW stack, NEW guard, NEW cut, PathsOK(stack, guard, cut), NEW guard2, NEW cut2,
         Den(guard2) \subseteq Den(guard), cut \subseteq cut2, Den(guard) \ cut2 \subseteq Den(guard2)
  PROVE  PathsOK(stack, guard2, cut2)
PROOF
<1> SUFFICES ASSUME NEW n \in 1 .. Len(stack)
             PROVE  Split(stack[n], Den(Here(stack, guard2, n)), cut2)
  BY DEF PathsOK
<1>1. Split(stack[n], Den(Here(stack, guard, n)), cut)
  BY DEF PathsOK
<1>2. CASE n = Len(stack)
  <2>1. Split(stack[n], Den(guard), cut)
    BY <1>1, <1>2 DEF Here
  <2>2. Split(stack[n], Den(guard2), cut2)
    BY <2>1, SplitNarrows
  <2> QED BY <1>2, <2>2 DEF Here
<1>3. CASE n # Len(stack)
  <2>1. Here(stack, guard2, n) = Here(stack, guard, n)
    BY <1>3 DEF Here
  <2> QED BY <1>1, <2>1, SplitNarrows
<1> QED BY <1>2, <1>3

-----------------------------------------------------------------------------
(* Configurations.                                                         *)

ControlInv(c, sides) ==
  /\ DOMAIN sides = 1 .. c.state.guards
  /\ GuardOK(c.state.guard, sides)
  /\ StackOK(c.state.call_stack, sides)
  /\ PathsOK(c.state.call_stack, c.state.guard, CutBy(c.steps))

Inv(c, sides) == IsConfig(c) /\ NamesInv(c) /\ ControlInv(c, sides)

(* Control is in the function on top.                                      *)
In(c) ==
  LET f == top(c.state).function
  IN  c.state.pc = <<f, c.state.pc[2]>> /\ c.state.pc[2] \in 1 .. Len(Body(f))

(* Whatever waits here, or waits ahead.                                    *)
AtPc(c) == In(c) /\ \A l \in DOMAIN top(c.state).goto_state_map : c.state.pc[2] <= l[2]

(* What waited here was merged.                                            *)
PastPc(c) == In(c) /\ Ahead(top(c.state), c.state.pc[2])

(* The frame on top.                                                       *)
LEMMA TopFrame ==
  ASSUME NEW c, NEW sides, StackOK(c.state.call_stack, sides)
  PROVE  /\ Len(c.state.call_stack) \in Nat \ {0}
         /\ DOMAIN c.state.call_stack = 1 .. Len(c.state.call_stack)
         /\ Len(c.state.call_stack) \in 1 .. Len(c.state.call_stack)
         /\ FrameOK(top(c.state), sides)
PROOF
<1> DEFINE s == c.state.call_stack
<1>1. s \in Seq(Range(s)) /\ Len(s) >= 1
  BY DEF StackOK, IsSeq
<1>2. Len(s) \in Nat \ {0} /\ DOMAIN s = 1 .. Len(s) /\ Len(s) \in 1 .. Len(s)
  BY <1>1, LenProperties
<1> QED BY <1>2 DEF StackOK, top

(* Steps appended, and inputs cut off that leave the path at hand.         *)
LEMMA NarrowedKeeps ==
  ASSUME NEW c, NEW sides, Inv(c, sides), NEW d, IsConfig(d), Grows(c, d),
         d.state.call_stack = c.state.call_stack, d.state.guards = c.state.guards,
         GuardOK(d.state.guard, sides), Den(d.state.guard) \subseteq Den(c.state.guard),
         Den(c.state.guard) \ CutBy(d.steps) \subseteq Den(d.state.guard)
  PROVE  Inv(d, sides)
PROOF
<1>1. NamesInv(d) /\ CutBy(c.steps) \subseteq CutBy(d.steps)
  BY DEF Inv, Grows
<1>2. PathsOK(d.state.call_stack, d.state.guard, CutBy(d.steps))
  BY <1>1, PathsNarrow DEF Inv, ControlInv
<1> QED BY <1>1, <1>2 DEF Inv, ControlInv

(* Only names were given out.                                              *)
LEMMA RecordsKeep ==
  ASSUME NEW c, NEW sides, Inv(c, sides), NEW d, Records(c, d)
  PROVE  /\ Inv(d, sides) /\ d.state.pc = c.state.pc /\ top(d.state) = top(c.state)
         /\ PastPc(c) => PastPc(d)
PROOF
<1>1. /\ IsConfig(d) /\ Grows(c, d)
      /\ d.state.pc = c.state.pc /\ d.state.guard = c.state.guard
      /\ d.state.call_stack = c.state.call_stack /\ d.state.guards = c.state.guards
  BY DEF Records, SameControl
<1>2. GuardOK(c.state.guard, sides)
  BY DEF Inv, ControlInv
<1>3. Inv(d, sides)
  BY <1>1, <1>2, NarrowedKeeps
<1> QED BY <1>1, <1>3 DEF top, PastPc, In

(* Only control, or a counter of loops or calls, changed.                  *)
LEMMA SilentKeeps ==
  ASSUME NEW c, NEW sides, Inv(c, sides), NEW d, IsConfig(d),
         d.state.level2 = c.state.level2, d.state.guards = c.state.guards,
         d.state.guard = c.state.guard, d.state.call_stack = c.state.call_stack,
         d.steps = c.steps
  PROVE  Inv(d, sides) /\ top(d.state) = top(c.state)
PROOF
<1>1. GuardOK(c.state.guard, sides)
  BY DEF Inv, ControlInv
<1>2. Inv(d, sides)
  BY <1>1, GrowsReflexive, NarrowedKeeps
<1> QED BY <1>2 DEF top

(* Control goes elsewhere.                                                 *)
LEMMA GotoKeeps ==
  ASSUME NEW c, NEW sides, Inv(c, sides), NEW l
  PROVE  /\ Inv(Goto(c, l), sides) /\ Goto(c, l).state.pc = l
         /\ top(Goto(c, l).state) = top(c.state)
PROOF
<1> DEFINE d == Goto(c, l)
<1>1. /\ IsConfig(d) /\ d.state.pc = l
      /\ d.state.level2 = c.state.level2 /\ d.state.guards = c.state.guards
      /\ d.state.guard = c.state.guard /\ d.state.call_stack = c.state.call_stack
      /\ d.steps = c.steps
  BY DEF Goto, Inv, IsConfig, StateFields
<1> HIDE DEF d
<1>2. Inv(d, sides) /\ top(d.state) = top(c.state)
  BY <1>1, SilentKeeps
<1> QED BY <1>1, <1>2 DEF d

(* The next instruction, unless this one is the last.                      *)
LEMMA NextPcKeeps ==
  ASSUME NEW c, NEW sides, Inv(c, sides), PastPc(c),
         c.state.pc[2] < Len(Body(top(c.state).function))
  PROVE  Inv(NextPc(c), sides) /\ AtPc(NextPc(c))
PROOF
<1> DEFINE f == top(c.state)
           k == c.state.pc[2]
           d == NextPc(c)
<1>1. c.state.pc = <<f.function, k>> /\ k \in 1 .. Len(Body(f.function)) /\ Ahead(f, k)
  BY DEF PastPc, In
<1>2. FrameOK(f, sides)
  BY TopFrame DEF Inv, ControlInv
<1>3. Inv(d, sides) /\ d.state.pc = Following(c.state.pc) /\ top(d.state) = f
  BY GotoKeeps DEF NextPc
<1> HIDE DEF d, f, k
<1>4. Following(c.state.pc) = <<f.function, k + 1>>
  BY <1>1 DEF Following
<1>5. k + 1 \in 1 .. Len(Body(f.function))
  BY <1>1 DEF f, k
<1>6. \A l \in DOMAIN f.goto_state_map : k + 1 <= l[2]
  BY <1>1, <1>2 DEF FrameOK, Ahead
<1> QED BY <1>3, <1>4, <1>5, <1>6 DEF AtPc, In, d

(* What Queue does to a configuration.                                     *)
StackWith(c, l, guard) ==
  [c.state.call_stack EXCEPT ![Len(c.state.call_stack)] =
     WithState(top(c.state), l, [guard |-> guard, level2 |-> c.state.level2])]

(* It changes the frame on top only.                                       *)
LEMMA QueueFacts ==
  ASSUME NEW c, IsConfig(c), NEW l, NEW guard
  PROVE  LET d == Queue(c, l, guard)
         IN  /\ IsConfig(d) /\ Grows(c, d)
             /\ d.state.pc = c.state.pc /\ d.state.guard = c.state.guard
             /\ d.state.level2 = c.state.level2 /\ d.state.guards = c.state.guards
             /\ d.steps = c.steps
             /\ d.state.call_stack = StackWith(c, l, guard)
PROOF
<1> DEFINE n == Len(c.state.call_stack)
           f == top(c.state)
           map == f.goto_state_map
           list == IF l \in DOMAIN map THEN map[l] ELSE <<>>
           goto_state == [guard |-> guard, level2 |-> c.state.level2]
           more == [m \in DOMAIN map \cup {l} |-> IF m = l THEN Append(list, goto_state) ELSE map[m]]
           d == Queue(c, l, guard)
<1>1. d = [c EXCEPT !.state.call_stack[n].goto_state_map = more]
  BY DEF Queue
<1>2. WithState(f, l, goto_state) = [f EXCEPT !.goto_state_map = more]
  BY DEF WithState
<1>3. f = c.state.call_stack[n]
  BY DEF top
<1> HIDE DEF more, d, f, n
<1>4. /\ IsConfig(d)
      /\ d.state.pc = c.state.pc /\ d.state.guard = c.state.guard
      /\ d.state.level2 = c.state.level2 /\ d.state.guards = c.state.guards
      /\ d.steps = c.steps
      /\ d.state.call_stack = [c.state.call_stack EXCEPT ![n].goto_state_map = more]
  BY <1>1 DEF IsConfig, StateFields
<1>5. [c.state.call_stack EXCEPT ![n].goto_state_map = more]
        = [c.state.call_stack EXCEPT ![n] = WithState(f, l, goto_state)]
  BY <1>2, <1>3
<1>6. Grows(c, d)
  BY <1>4, GrowsReflexive
<1>7. d.state.call_stack = StackWith(c, l, guard)
  BY <1>4, <1>5 DEF StackWith, n, f
<1> QED BY <1>4, <1>6, <1>7 DEF d

(* A state is put aside, and inputs leave the path at hand for it.         *)
PutAside(c, sides, l, guard, d) ==
  /\ IsConfig(c) /\ NamesInv(c) /\ StackOK(c.state.call_stack, sides)
  /\ PathsOK(c.state.call_stack, c.state.guard, CutBy(c.steps))
  /\ l = <<top(c.state).function, l[2]>>
  /\ l[2] \in 1 .. Len(Body(top(c.state).function))
  /\ GuardOK(guard, sides)
  /\ IsConfig(d) /\ Grows(c, d) /\ DOMAIN sides = 1 .. d.state.guards
  /\ d.state.call_stack = Queue(c, l, guard).state.call_stack
  /\ GuardOK(d.state.guard, sides)
  /\ Den(guard) \subseteq Den(c.state.guard)
  /\ Den(d.state.guard) \subseteq Den(c.state.guard)
  /\ Den(d.state.guard) \cap Den(guard) = {}
  /\ Den(c.state.guard) \subseteq Den(d.state.guard) \cup Den(guard)

(* Then the inputs are still divided among the paths.                      *)
LEMMA AsideKeeps ==
  ASSUME NEW c, NEW sides, NEW l, NEW guard, NEW d, PutAside(c, sides, l, guard, d)
  PROVE  /\ Inv(d, sides)
         /\ top(d.state).function = top(c.state).function
         /\ DOMAIN top(d.state).goto_state_map = DOMAIN top(c.state).goto_state_map \cup {l}
PROOF
<1> DEFINE stack == c.state.call_stack
           n == Len(stack)
           f == top(c.state)
           goto_state == [guard |-> guard, level2 |-> c.state.level2]
           g == WithState(f, l, goto_state)
           s == [stack EXCEPT ![n] = g]
<1>0. /\ IsConfig(c) /\ NamesInv(c) /\ StackOK(c.state.call_stack, sides)
      /\ PathsOK(c.state.call_stack, c.state.guard, CutBy(c.steps))
      /\ l = <<top(c.state).function, l[2]>>
      /\ l[2] \in 1 .. Len(Body(top(c.state).function))
      /\ GuardOK(guard, sides)
      /\ IsConfig(d) /\ Grows(c, d) /\ DOMAIN sides = 1 .. d.state.guards
      /\ d.state.call_stack = Queue(c, l, guard).state.call_stack
      /\ GuardOK(d.state.guard, sides)
      /\ Den(guard) \subseteq Den(c.state.guard)
      /\ Den(d.state.guard) \subseteq Den(c.state.guard)
      /\ Den(d.state.guard) \cap Den(guard) = {}
      /\ Den(c.state.guard) \subseteq Den(d.state.guard) \cup Den(guard)
  BY DEF PutAside
<1> USE <1>0
<1>1. d.state.call_stack = s
  BY QueueFacts DEF StackWith
<1>2. FrameOK(f, sides) /\ n \in 1 .. n /\ f = stack[n]
  BY TopFrame DEF top
<1>3. goto_state.guard = guard
  OBVIOUS
<1> HIDE DEF goto_state
<1>4. /\ FrameOK(g, sides)
      /\ g.function = f.function /\ g.entry_guard = f.entry_guard
      /\ g.calling_location = f.calling_location
      /\ DOMAIN g.goto_state_map = DOMAIN f.goto_state_map \cup {l}
      /\ \E new \in Queued(g) :
           /\ Queued(g) = Queued(f) \cup {new} /\ new \notin Queued(f)
           /\ DenOf(g, new) = Den(guard)
           /\ \A q \in Queued(f) : DenOf(g, q) = DenOf(f, q)
  <2>1. l = <<f.function, l[2]>> /\ l[2] \in 1 .. Len(Body(f.function))
    OBVIOUS
  <2> HIDE DEF f
  <2>2. GuardOK(goto_state.guard, sides)
    BY <1>3
  <2>3. FrameOK(f, sides)
    BY <1>2
  <2> HIDE DEF g
  <2>4. /\ FrameOK(g, sides)
        /\ g.function = f.function /\ g.entry_guard = f.entry_guard
        /\ g.calling_location = f.calling_location /\ g.return_value = f.return_value
        /\ DOMAIN g.goto_state_map = DOMAIN f.goto_state_map \cup {l}
        /\ \E new \in Queued(g) :
             /\ Queued(g) = Queued(f) \cup {new} /\ new \notin Queued(f)
             /\ DenOf(g, new) = Den(goto_state.guard)
             /\ \A q \in Queued(f) : DenOf(g, q) = DenOf(f, q)
    BY ONLY <2>1, <2>2, <2>3, WithStateFacts DEF g
  <2> QED BY <1>3, <2>4
<1>5. PICK new \in Queued(g) :
        /\ Queued(g) = Queued(f) \cup {new} /\ new \notin Queued(f)
        /\ DenOf(g, new) = Den(guard)
        /\ \A q \in Queued(f) : DenOf(g, q) = DenOf(f, q)
  BY <1>4
<1>6. NamesInv(d) /\ CutBy(c.steps) \subseteq CutBy(d.steps)
  BY DEF Grows
<1> HIDE DEF g, f
<1>7. Split(f, Den(c.state.guard), CutBy(c.steps))
  BY <1>2 DEF PathsOK, Here
<1>8. Split(g, Den(d.state.guard), CutBy(d.steps))
  BY <1>4, <1>5, <1>6, <1>7, SplitAside
<1>9. /\ g.function = stack[n].function /\ g.entry_guard = stack[n].entry_guard
      /\ g.calling_location = stack[n].calling_location
  BY <1>2, <1>4
<1> HIDE DEF s, stack, n
<1>10. /\ StackOK(s, sides) /\ Len(s) = n /\ s[n] = g
       /\ PathsOK(s, d.state.guard, CutBy(d.steps))
  <2>1. StackOK(stack, sides) /\ PathsOK(stack, c.state.guard, CutBy(c.steps))
    BY DEF stack
  <2> QED BY <1>4, <1>6, <1>8, <1>9, <2>1, TopReplaced DEF s, n
<1>11. top(d.state) = g
  BY <1>1, <1>10 DEF top
<1> QED BY <1>1, <1>4, <1>6, <1>10, <1>11 DEF Inv, ControlInv, f

(* A frame without what waits at a location.                               *)
WithoutStates(f, l) ==
  [f EXCEPT !.goto_state_map = [m \in DOMAIN f.goto_state_map \ {l} |-> f.goto_state_map[m]]]

(* All else waits as it did.                                               *)
LEMMA WithoutStatesFacts ==
  ASSUME NEW f, NEW sides, FrameOK(f, sides), NEW l
  PROVE  LET g == WithoutStates(f, l)
         IN  /\ FrameOK(g, sides)
             /\ g.function = f.function /\ g.entry_guard = f.entry_guard
             /\ g.calling_location = f.calling_location /\ g.return_value = f.return_value
             /\ DOMAIN g.goto_state_map = DOMAIN f.goto_state_map \ {l}
             /\ \A m \in DOMAIN g.goto_state_map : g.goto_state_map[m] = f.goto_state_map[m]
PROOF
<1> DEFINE map == f.goto_state_map
           less == [m \in DOMAIN map \ {l} |-> map[m]]
           g == WithoutStates(f, l)
<1>1. g = [f EXCEPT !.goto_state_map = less]
  BY DEF WithoutStates
<1>2. DOMAIN less = DOMAIN map \ {l} /\ \A m \in DOMAIN less : less[m] = map[m]
  OBVIOUS
<1> HIDE DEF g, less
<1>3. /\ DOMAIN g = FrameFields /\ g.goto_state_map = less
      /\ g.function = f.function /\ g.entry_guard = f.entry_guard
      /\ g.calling_location = f.calling_location /\ g.return_value = f.return_value
  BY <1>1 DEF FrameOK, FrameFields
<1>4. ASSUME NEW m \in DOMAIN less
      PROVE  /\ m = <<f.function, m[2]>> /\ m[2] \in 1 .. Len(Body(f.function))
             /\ IsSeq(less[m]) /\ \A i \in DOMAIN less[m] : GuardOK(less[m][i].guard, sides)
  BY <1>2 DEF FrameOK
<1>5. FrameOK(g, sides)
  BY <1>3, <1>4 DEF FrameOK
<1> QED BY <1>2, <1>3, <1>5 DEF g

(* Inputs that waited come to the path at hand.                            *)
LEMMA SplitMerged ==
  ASSUME NEW f, NEW here, NEW cut, Split(f, here, cut), NEW l \in DOMAIN f.goto_state_map,
         NEW g, g.entry_guard = f.entry_guard,
         DOMAIN g.goto_state_map = DOMAIN f.goto_state_map \ {l},
         \A m \in DOMAIN g.goto_state_map : g.goto_state_map[m] = f.goto_state_map[m],
         NEW here2, NEW cut2, cut \subseteq cut2,
         here2 = here \cup UNION {Den(f.goto_state_map[l][i].guard) : i \in DOMAIN f.goto_state_map[l]}
  PROVE  Split(g, here2, cut2)
PROOF
<1>1. ASSUME NEW q
      PROVE  q \in Queued(f) <=>
               \E m \in DOMAIN f.goto_state_map : \E i \in DOMAIN f.goto_state_map[m] : q = <<m, i>>
  BY DEF Queued
<1>2. ASSUME NEW q
      PROVE  q \in Queued(g) <=>
               \E m \in DOMAIN g.goto_state_map : \E i \in DOMAIN g.goto_state_map[m] : q = <<m, i>>
  BY DEF Queued
<1>3. ASSUME NEW q \in Queued(g)
      PROVE  q \in Queued(f) /\ q[1] # l /\ DenOf(g, q) = DenOf(f, q)
  <2>1. PICK m \in DOMAIN g.goto_state_map : \E i \in DOMAIN g.goto_state_map[m] : q = <<m, i>>
    BY <1>2
  <2>2. PICK i \in DOMAIN g.goto_state_map[m] : q = <<m, i>>
    BY <2>1
  <2>3. m \in DOMAIN f.goto_state_map /\ m # l /\ g.goto_state_map[m] = f.goto_state_map[m]
    OBVIOUS
  <2> QED BY <1>1, <2>2, <2>3 DEF DenOf
<1>4. ASSUME NEW q \in Queued(f), q[1] # l PROVE q \in Queued(g)
  <2>1. PICK m \in DOMAIN f.goto_state_map : \E i \in DOMAIN f.goto_state_map[m] : q = <<m, i>>
    BY <1>1
  <2>2. PICK i \in DOMAIN f.goto_state_map[m] : q = <<m, i>>
    BY <2>1
  <2>3. m \in DOMAIN g.goto_state_map /\ g.goto_state_map[m] = f.goto_state_map[m]
    BY <1>4, <2>2
  <2> QED BY <1>2, <2>2, <2>3
<1>5. ASSUME NEW i \in DOMAIN f.goto_state_map[l]
      PROVE  <<l, i>> \in Queued(f) /\ DenOf(f, <<l, i>>) = Den(f.goto_state_map[l][i].guard)
  BY <1>1 DEF DenOf
<1>6. ASSUME NEW q \in Queued(f), q[1] = l
      PROVE  DenOf(f, q) \subseteq here2
  <2>1. PICK m \in DOMAIN f.goto_state_map : \E i \in DOMAIN f.goto_state_map[m] : q = <<m, i>>
    BY <1>1
  <2>2. PICK i \in DOMAIN f.goto_state_map[m] : q = <<m, i>>
    BY <2>1
  <2>3. m = l
    BY <1>6, <2>2
  <2> QED BY <1>5, <2>2, <2>3
<1>7. \A q \in Queued(f) : DenOf(f, q) \subseteq Den(f.entry_guard) /\ DenOf(f, q) \cap here = {}
  BY DEF Split
<1>8. \A q, r \in Queued(f) : q # r => DenOf(f, q) \cap DenOf(f, r) = {}
  BY DEF Split
<1>9. here2 \subseteq Den(g.entry_guard)
  <2>1. here \subseteq Den(f.entry_guard)
    BY DEF Split
  <2>2. \A i \in DOMAIN f.goto_state_map[l] : Den(f.goto_state_map[l][i].guard) \subseteq Den(f.entry_guard)
    BY <1>5, <1>7
  <2> QED BY <2>1, <2>2
<1>10. ASSUME NEW q \in Queued(g)
       PROVE  DenOf(g, q) \subseteq Den(g.entry_guard) /\ DenOf(g, q) \cap here2 = {}
  <2>1. ASSUME NEW i \in DOMAIN f.goto_state_map[l]
        PROVE  DenOf(g, q) \cap Den(f.goto_state_map[l][i].guard) = {}
    <3>1. q # <<l, i>>
      BY <1>3
    <3> QED BY <1>3, <1>5, <1>8, <3>1
  <2>2. DenOf(g, q) \cap here = {} /\ DenOf(g, q) \subseteq Den(g.entry_guard)
    BY <1>3, <1>7
  <2> QED BY <2>1, <2>2
<1>11. ASSUME NEW q \in Queued(g), NEW r \in Queued(g), q # r
       PROVE  DenOf(g, q) \cap DenOf(g, r) = {}
  BY <1>3, <1>8, <1>11
<1>12. ASSUME NEW w \in Den(g.entry_guard), w \notin cut2
       PROVE  w \in here2 \cup UNION {DenOf(g, q) : q \in Queued(g)}
  <2>1. w \in here \/ \E q \in Queued(f) : w \in DenOf(f, q)
    BY <1>12 DEF Split
  <2>2. CASE w \in here
    BY <2>2
  <2>3. CASE \E q \in Queued(f) : w \in DenOf(f, q)
    <3>1. PICK q \in Queued(f) : w \in DenOf(f, q)
      BY <2>3
    <3>2. CASE q[1] = l
      BY <1>6, <3>1, <3>2
    <3>3. CASE q[1] # l
      BY <1>3, <1>4, <3>1, <3>3
    <3> QED BY <3>2, <3>3
  <2> QED BY <2>1, <2>2, <2>3
<1> QED BY <1>9, <1>10, <1>11, <1>12 DEF Split

(* merge_gotos.                                                            *)
LEMMA MergeGotosKeeps ==
  ASSUME NEW c, NEW sides, Inv(c, sides), AtPc(c)
  PROVE  LET d == merge_gotos(c)
         IN  /\ Inv(d, sides) /\ PastPc(d) /\ d.state.pc = c.state.pc
             /\ top(d.state).function = top(c.state).function
PROOF
<1> DEFINE stack == c.state.call_stack
           n == Len(stack)
           f == top(c.state)
           pc_ == c.state.pc
           map == f.goto_state_map
           d == merge_gotos(c)
<1>1. FrameOK(f, sides) /\ n \in Nat \ {0} /\ DOMAIN stack = 1 .. n /\ n \in 1 .. n /\ f = stack[n]
  BY TopFrame DEF Inv, ControlInv, top
<1>2. \A l \in DOMAIN map : l = <<f.function, l[2]>> /\ l[2] \in Nat /\ pc_[2] <= l[2]
  BY <1>1 DEF FrameOK, AtPc
<1>3. pc_ = <<f.function, pc_[2]>> /\ pc_[2] \in 1 .. Len(Body(f.function))
  BY DEF AtPc, In
<1>4. \A l \in DOMAIN map : l # pc_ => pc_[2] < l[2]
  BY <1>2, <1>3
<1>5. CASE pc_ \notin DOMAIN map
  <2>1. d = c
    BY <1>5 DEF merge_gotos
  <2>2. PastPc(c)
    BY <1>3, <1>4, <1>5 DEF PastPc, In, Ahead
  <2> QED BY <2>1, <2>2
<1>6. CASE pc_ \in DOMAIN map
  <2> DEFINE list == map[pc_]
             merged == FoldRight(merge_goto, list, c)
             less == [l \in DOMAIN map \ {pc_} |-> map[l]]
             g == WithoutStates(f, pc_)
             s == [stack EXCEPT ![n] = g]
  <2>1. /\ Len(list) \in Nat /\ DOMAIN list = 1 .. Len(list)
        /\ \A i \in 1 .. Len(list) : GuardOK(list[i].guard, sides)
    <3>1. list \in Seq(Range(list))
      BY <1>1, <1>6 DEF FrameOK, IsSeq
    <3>2. Len(list) \in Nat /\ DOMAIN list = 1 .. Len(list)
      BY <3>1, LenProperties
    <3> QED BY <1>1, <1>6, <3>2 DEF FrameOK
  <2>2. Merged(c, list, sides, 1 .. Len(list), merged)
    <3>1. IsConfig(c) /\ GuardOK(c.state.guard, sides)
      BY DEF Inv, ControlInv
    <3> HIDE DEF list
    <3> QED BY <2>1, <3>1, MergeAll
  <2>3. d = [merged EXCEPT !.state.call_stack[n].goto_state_map = less]
    BY <1>6, Zenon DEF merge_gotos
  <2>4. g = [f EXCEPT !.goto_state_map = less]
    BY DEF WithoutStates
  <2>5. /\ FrameOK(g, sides)
        /\ g.function = f.function /\ g.entry_guard = f.entry_guard
        /\ g.calling_location = f.calling_location
        /\ DOMAIN g.goto_state_map = DOMAIN map \ {pc_}
        /\ \A m \in DOMAIN g.goto_state_map : g.goto_state_map[m] = map[m]
    BY <1>1, WithoutStatesFacts
  <2> HIDE DEF g, less, merged, d
  <2>6. /\ IsConfig(merged) /\ merged.state.pc = pc_ /\ merged.state.call_stack = stack
        /\ merged.state.guards = c.state.guards /\ Grows(c, merged)
        /\ GuardOK(merged.state.guard, sides)
        /\ Den(merged.state.guard)
             = Den(c.state.guard) \cup UNION {Den(list[i].guard) : i \in DOMAIN list}
    BY <2>1, <2>2 DEF Merged
  <2> HIDE DEF list, f, stack, n
  <2>7. /\ IsConfig(d) /\ d.state.pc = pc_ /\ d.state.guards = c.state.guards
        /\ d.state.level2 = merged.state.level2
        /\ d.state.guard = merged.state.guard /\ d.steps = merged.steps
        /\ d.state.call_stack = [stack EXCEPT ![n].goto_state_map = less]
    BY <2>3, <2>6 DEF IsConfig, StateFields
  <2>8. d.state.call_stack = s
    BY <1>1, <2>4, <2>7
  <2>9. Grows(c, d)
    <3>1. Grows(merged, d)
      BY <2>6, <2>7, GrowsReflexive
    <3> QED BY <2>6, <3>1, GrowsTransitive
  <2>10. NamesInv(d) /\ CutBy(c.steps) \subseteq CutBy(d.steps)
    BY <2>9 DEF Inv, Grows
  <2>11. Split(g, Den(d.state.guard), CutBy(d.steps))
    <3>1. Split(f, Den(c.state.guard), CutBy(c.steps))
      BY <1>1 DEF Inv, ControlInv, PathsOK, Here, n, stack
    <3>2. Den(d.state.guard)
            = Den(c.state.guard) \cup UNION {Den(map[pc_][i].guard) : i \in DOMAIN map[pc_]}
      BY <2>6, <2>7 DEF list
    <3> HIDE DEF pc_
    <3> QED BY <1>6, <2>5, <2>10, <3>1, <3>2, SplitMerged
  <2>12. /\ StackOK(s, sides) /\ Len(s) = n /\ s[n] = g
         /\ PathsOK(s, d.state.guard, CutBy(d.steps))
    <3>1. StackOK(stack, sides) /\ PathsOK(stack, c.state.guard, CutBy(c.steps))
      BY DEF Inv, ControlInv, stack
    <3>2. /\ g.function = stack[n].function /\ g.entry_guard = stack[n].entry_guard
          /\ g.calling_location = stack[n].calling_location
      BY <1>1, <2>5
    <3> QED BY <2>5, <2>10, <2>11, <3>1, <3>2, TopReplaced DEF n
  <2>13. top(d.state) = g
    BY <2>8, <2>12 DEF top
  <2>14. Inv(d, sides)
    BY <2>6, <2>7, <2>8, <2>10, <2>12 DEF Inv, ControlInv
  <2>15. PastPc(d)
    BY <1>3, <1>4, <2>5, <2>7, <2>13 DEF PastPc, In, Ahead
  <2> QED BY <2>5, <2>7, <2>13, <2>14, <2>15 DEF d, f
<1> QED BY <1>5, <1>6

-----------------------------------------------------------------------------
(* The handlers, from a configuration that is past merge_gotos.            *)

Ready(c, sides) == Inv(c, sides) /\ PastPc(c) /\ c.state.pc = pc

(* A step keeps the invariant, for some way to number the branches.        *)
Kept(c) == \E sides : Inv(c, sides) /\ AtPc(c)

(* Only a counter of loops or calls changed.                               *)
LEMMA SilentReady ==
  ASSUME NEW c, NEW sides, Ready(c, sides), NEW d, IsConfig(d),
         d.state.pc = c.state.pc,
         d.state.level2 = c.state.level2, d.state.guards = c.state.guards,
         d.state.guard = c.state.guard, d.state.call_stack = c.state.call_stack,
         d.steps = c.steps
  PROVE  Ready(d, sides) /\ top(d.state) = top(c.state)
PROOF
<1>1. Inv(c, sides)
  BY DEF Ready
<1>2. Inv(d, sides) /\ top(d.state) = top(c.state)
  BY <1>1, SilentKeeps
<1> QED BY <1>2 DEF Ready, PastPc, In

(* Only names were given out.                                              *)
LEMMA RecordsReady ==
  ASSUME NEW c, NEW sides, Ready(c, sides), NEW d, Records(c, d)
  PROVE  Ready(d, sides) /\ top(d.state) = top(c.state) /\ d.state.guard = c.state.guard
BY RecordsKeep DEF Ready, Records, SameControl

(* What every instruction begins with: merge_gotos, and the loop it may be *)
(* in.                                                                     *)
LEMMA EnteredReady ==
  ASSUME NEW sides, Inv(Now, sides), AtPc(Now)
  PROVE  Ready(merge_gotos(Now), sides) /\ Ready(Entered, sides)
PROOF
<1> DEFINE c == merge_gotos(Now)
           d == [c EXCEPT !.state.first_loop = loop_number(goto_functions, pc)]
<1>1. Now.state.pc = pc
  BY DEF Now, pc
<1>2. Ready(c, sides)
  BY <1>1, MergeGotosKeeps DEF Ready
<1> HIDE DEF c
<1>3. Entered = c \/ Entered = d
  BY DEF Entered, c
<1>4. /\ IsConfig(d) /\ d.state.pc = c.state.pc
      /\ d.state.level2 = c.state.level2 /\ d.state.guards = c.state.guards
      /\ d.state.guard = c.state.guard /\ d.state.call_stack = c.state.call_stack
      /\ d.steps = c.steps
  BY <1>2 DEF Ready, Inv, IsConfig, StateFields
<1> HIDE DEF d
<1>5. Ready(d, sides)
  BY <1>2, <1>4, SilentReady
<1> QED BY <1>2, <1>3, <1>5 DEF c

(* Where control goes on.                                                  *)
Facts ==
  /\ WellFormed(goto_functions)
  /\ DOMAIN program.body = DOMAIN goto_functions.body
  /\ \A l \in goto_functions.inductive \cap Location(goto_functions) :
       Instr(goto_functions, l).type # "END_FUNCTION"

(* An expression that rename knows, of variables of the program.           *)
ExprOK(e) == e.op \in {"const", "var", "plus", "nondet"} /\ ExprVars(e) \subseteq Vars

(* The instruction at hand is one of the function on top.                  *)
LEMMA HereFacts ==
  ASSUME Facts, NEW c, NEW sides, Ready(c, sides)
  PROVE  LET f == top(c.state).function
         IN  /\ pc = <<f, pc[2]>> /\ pc[1] = f
             /\ f \in DOMAIN goto_functions.body
             /\ Len(Body(f)) \in Nat \ {0} /\ DOMAIN Body(f) = 1 .. Len(Body(f))
             /\ pc[2] \in 1 .. Len(Body(f))
             /\ instruction = Body(f)[pc[2]]
             /\ pc \in Location(goto_functions)
             /\ instruction.type = "END_FUNCTION" <=> pc[2] = Len(Body(f))
             /\ instruction.type = "GOTO" => instruction.target \in 1 .. Len(Body(f))
             /\ instruction.type = "ASSIGN" => instruction.x \in Vars
             /\ instruction.type = "FUNCTION_CALL" => instruction.ret \subseteq Vars
             /\ instruction.type \in {"GOTO", "ASSUME", "ASSERT"} => GuardVars(instruction.guard) \subseteq Vars
             /\ instruction.type \in {"ASSIGN", "RETURN"} => ExprOK(instruction.e)
PROOF
<1> DEFINE f == top(c.state).function
<1>1. FrameOK(top(c.state), sides)
  BY TopFrame DEF Ready, Inv, ControlInv
<1>2. f \in DOMAIN goto_functions.body
  BY <1>1 DEF FrameOK
<1>3. pc = <<f, pc[2]>> /\ pc[2] \in 1 .. Len(Body(f))
  BY DEF Ready, PastPc, In
<1> HIDE DEF f
<1>4. pc[1] = f
  BY <1>3
<1>5. /\ Len(Body(f)) \in Nat \ {0} /\ DOMAIN Body(f) = 1 .. Len(Body(f))
      /\ \A n \in 1 .. Len(Body(f)) :
           /\ Body(f)[n].type = "END_FUNCTION" <=> n = Len(Body(f))
           /\ Body(f)[n].type = "GOTO" => Body(f)[n].target \in 1 .. Len(Body(f))
           /\ Body(f)[n].type \in {"ASSIGN", "RETURN"} =>
                Body(f)[n].e.op \in {"const", "var", "plus", "nondet"}
  BY <1>2 DEF Facts, WellFormed, Body
<1>8. ASSUME NEW n \in 1 .. Len(Body(f))
      PROVE  LET i == Body(f)[n]
             IN  /\ i.type = "ASSIGN" => i.x \in Vars
                 /\ i.type = "FUNCTION_CALL" => i.ret \subseteq Vars
                 /\ i.type \in {"GOTO", "ASSUME", "ASSERT"} => GuardVars(i.guard) \subseteq Vars
                 /\ i.type \in {"ASSIGN", "RETURN"} => ExprVars(i.e) \subseteq Vars
  <2> DEFINE i == Body(f)[n]
             names == CASE i.type \in {"GOTO", "ASSUME", "ASSERT"} -> GuardVars(i.guard)
                        [] i.type = "DECL" -> {i.x}
                        [] i.type = "ASSIGN" -> {i.x} \cup ExprVars(i.e)
                        [] i.type = "FUNCTION_CALL" -> i.ret
                        [] i.type = "RETURN" -> ExprVars(i.e)
                        [] OTHER -> {}
  <2>1. names \subseteq Symbols(goto_functions, f)
    BY <1>5 DEF Symbols, Body
  <2>2. Symbols(goto_functions, f) \subseteq Vars
    BY <1>2 DEF Facts, WellFormed
  <2>3. names \subseteq Vars
    BY <2>1, <2>2
  <2>4. /\ i.type \in {"GOTO", "ASSUME", "ASSERT"} => names = GuardVars(i.guard)
        /\ i.type = "ASSIGN" => names = {i.x} \cup ExprVars(i.e)
        /\ i.type = "FUNCTION_CALL" => names = i.ret
        /\ i.type = "RETURN" => names = ExprVars(i.e)
    OBVIOUS
  <2> HIDE DEF names
  <2> QED BY <2>3, <2>4
<1>6. instruction = Body(f)[pc[2]]
  BY <1>4 DEF instruction, Instr, Body
<1>7. pc \in Location(goto_functions)
  BY <1>2, <1>3, <1>5 DEF Location, Body
<1> QED BY <1>2, <1>3, <1>4, <1>5, <1>6, <1>7, <1>8 DEF f, ExprOK

(* An instruction that is not the last of its function is followed by the  *)
(* next.                                                                   *)
LEMMA NextKept ==
  ASSUME Facts, NEW c, NEW sides, Ready(c, sides), instruction.type # "END_FUNCTION"
  PROVE  Kept(NextPc(c))
PROOF
<1>1. c.state.pc[2] < Len(Body(top(c.state).function))
  BY HereFacts DEF Ready
<1>2. Inv(c, sides) /\ PastPc(c)
  BY DEF Ready
<1> QED BY <1>1, <1>2, NextPcKeeps DEF Kept

(* An assumption stops the inputs of the path that do not satisfy it.      *)
LEMMA AssumedFacts ==
  ASSUME NEW c, IsConfig(c), NEW cond
  PROVE  /\ Records(c, Assumed(c, cond))
         /\ NamesInv(c) => Den(c.state.guard) \ cond.den \subseteq CutBy(Assumed(c, cond).steps)
PROOF
<1> DEFINE step == Assumption(guard_expr(Guard(c), cond.den), Syms(Guard(c)) \cup cond.syms)
<1>1. step.type = "ASSUME" /\ step.den = (World \ Den(c.state.guard)) \cup cond.den
  BY DEF Assumption, guard_expr, Guard
<1>2. Assumed(c, cond) = Emit(c, step)
  BY DEF Assumed
<1> HIDE DEF step
<1>3. Records(c, Emit(c, step)) /\ Emit(c, step).steps = Append(c.steps, step)
  BY <1>1, EmitRecords
<1>4. ASSUME NamesInv(c) PROVE World \ step.den \subseteq CutBy(Append(c.steps, step))
  <2>1. IsSeq(c.steps)
    BY <1>4 DEF NamesInv
  <2>2. step.type = "ASSUME" \/ (step.type = "ASSERT" /\ step.msg \in Location(goto_functions))
    BY <1>1
  <2> QED BY <2>1, <2>2, CutGrows
<1>5. Den(c.state.guard) \subseteq World
  BY DEF Den
<1> QED BY <1>1, <1>2, <1>3, <1>4, <1>5

(* An unwinding assertion stops the inputs that violate it, as an          *)
(* assertion, as an assumption, or because there are none.                 *)
LEMMA ClaimFacts ==
  ASSUME NEW c, IsConfig(c), NEW cond, NEW msg
  PROVE  /\ Records(c, claim(c, cond, msg))
         /\ NamesInv(c) /\ msg \in Location(goto_functions)
              => Den(c.state.guard) \ cond.den \subseteq CutBy(claim(c, cond, msg).steps)
PROOF
<1> DEFINE step == Assertion(guard_expr(Guard(c), cond.den), Syms(Guard(c)) \cup cond.syms, msg)
<1>1. /\ step.type = "ASSERT" /\ step.msg = msg
      /\ step.den = (World \ Den(c.state.guard)) \cup cond.den
  BY DEF Assertion, guard_expr, Guard
<1>2. \/ claim(c, cond, msg) = c /\ (is_false(Guard(c)) \/ IsTrue(cond))
      \/ claim(c, cond, msg) = Assumed(c, cond)
      \/ claim(c, cond, msg) = Emit(c, step)
  BY DEF claim, assume
<1> HIDE DEF step
<1>3. Records(c, Emit(c, step)) /\ Emit(c, step).steps = Append(c.steps, step)
  BY <1>1, EmitRecords
<1>4. ASSUME NamesInv(c), msg \in Location(goto_functions)
      PROVE  World \ step.den \subseteq CutBy(Append(c.steps, step))
  <2>1. IsSeq(c.steps)
    BY <1>4 DEF NamesInv
  <2> QED BY <1>1, <1>4, <2>1, CutGrows
<1>5. Den(c.state.guard) \subseteq World
  BY DEF Den
<1>6. is_false(Guard(c)) => Den(c.state.guard) = {}
  BY FalseDen DEF is_false, Guard
<1>7. IsTrue(cond) => Den(c.state.guard) \subseteq cond.den
  BY <1>5 DEF IsTrue
<1>8. Records(c, c)
  BY RecordsReflexive
<1>9. CASE claim(c, cond, msg) = c /\ (is_false(Guard(c)) \/ IsTrue(cond))
  BY <1>6, <1>7, <1>8, <1>9
<1>10. CASE claim(c, cond, msg) = Assumed(c, cond)
  BY <1>10, AssumedFacts
<1>11. CASE claim(c, cond, msg) = Emit(c, step)
  BY <1>1, <1>3, <1>4, <1>5, <1>11
<1> QED BY <1>2, <1>9, <1>10, <1>11

(* An assumption of the program.                                           *)
LEMMA AssumeRecords ==
  ASSUME NEW c, IsConfig(c), NEW cond
  PROVE  Records(c, assume(c, cond))
BY AssumedFacts, RecordsReflexive DEF assume

(* assume_false: all inputs of the path are cut off.                       *)
LEMMA AssumeFalseKeeps ==
  ASSUME NEW c, NEW sides, Inv(c, sides)
  PROVE  LET d == assume_false(c)
         IN  Inv(d, sides) /\ d.state.pc = c.state.pc /\ top(d.state) = top(c.state)
PROOF
<1> DEFINE a == Assumed(c, False_)
           g == make_false(Guard(c))
           d == [a EXCEPT !.state.guard = g]
<1>1. assume_false(c) = d
  BY DEF assume_false
<1>2. IsConfig(c) /\ NamesInv(c)
  BY DEF Inv
<1>3. Records(c, a) /\ Den(c.state.guard) \ False_.den \subseteq CutBy(a.steps)
  BY <1>2, AssumedFacts
<1>4. False_.den = {}
  BY DEF False_, True_, Not
<1>5. Den(g) = {} /\ GuardOK(g, sides)
  BY MakeFalse
<1> HIDE DEF a, g
<1>6. /\ IsConfig(d) /\ d.state.guard = g /\ Grows(a, d)
      /\ d.state.pc = a.state.pc /\ d.state.call_stack = a.state.call_stack
      /\ d.state.guards = a.state.guards /\ d.steps = a.steps
  BY <1>3, SetGuard DEF Records
<1> HIDE DEF d
<1>7. /\ Grows(c, d) /\ d.state.pc = c.state.pc /\ d.state.call_stack = c.state.call_stack
      /\ d.state.guards = c.state.guards
  BY <1>3, <1>6, GrowsTransitive DEF Records, SameControl
<1>8. Inv(d, sides)
  BY <1>3, <1>4, <1>5, <1>6, <1>7, NarrowedKeeps
<1> QED BY <1>1, <1>7, <1>8 DEF top

(* Beyond the bound: the inputs that would go on are cut off, except where *)
(* partial loops are allowed.                                              *)
LEMMA LoopBoundKeeps ==
  ASSUME Facts, NEW c, NEW sides, Ready(c, sides), NEW cond
  PROVE  Ready(loop_bound_exceeded(c, cond), sides)
PROOF
<1> DEFINE checked == IF no_unwinding_assertions THEN Assumed(c, Not(cond)) ELSE claim(c, Not(cond), pc)
           e == Conjunct(Not(cond))
           g == add(Guard(c), e)
           d == [checked EXCEPT !.state.guard = g]
<1>1. loop_bound_exceeded(c, cond) = IF partial_loops THEN c ELSE d
  BY DEF loop_bound_exceeded
<1>2. IsConfig(c) /\ NamesInv(c) /\ Inv(c, sides) /\ GuardOK(c.state.guard, sides)
  BY DEF Ready, Inv, ControlInv
<1>3. pc \in Location(goto_functions)
  BY HereFacts
<1>4. /\ Records(c, checked)
      /\ Den(c.state.guard) \ Not(cond).den \subseteq CutBy(checked.steps)
  <2>1. /\ Records(c, Assumed(c, Not(cond)))
        /\ Den(c.state.guard) \ Not(cond).den \subseteq CutBy(Assumed(c, Not(cond)).steps)
    BY <1>2, AssumedFacts
  <2>2. /\ Records(c, claim(c, Not(cond), pc))
        /\ Den(c.state.guard) \ Not(cond).den \subseteq CutBy(claim(c, Not(cond), pc).steps)
    BY <1>2, <1>3, ClaimFacts
  <2> QED BY <2>1, <2>2
<1>5. e.kind \in {"false", "other"} /\ e.den = Not(cond).den
  <2>1. IsFalse(Not(cond)) => Not(cond).den = {}
    BY DEF IsFalse
  <2> QED BY <2>1 DEF Conjunct, False, Condition
<1>6. e.kind = "false" => e.den = {}
  <2>1. IsFalse(Not(cond)) => Not(cond).den = {}
    BY DEF IsFalse
  <2>2. ~IsFalse(Not(cond)) => e.kind = "other"
    BY DEF Conjunct, Condition
  <2> QED BY <1>5, <2>1, <2>2
<1> HIDE DEF checked, e
<1>7. Den(g) = Den(c.state.guard) \cap e.den
  BY <1>6, AddDen DEF Guard
<1>8. GuardOK(g, sides)
  <2>1. GuardOK({e}, sides)
    BY <1>5 DEF GuardOK
  <2> QED BY <1>2, <2>1, AddOK DEF Guard
<1> HIDE DEF g
<1>9. /\ IsConfig(d) /\ d.state.guard = g /\ Grows(checked, d)
      /\ d.state.pc = checked.state.pc /\ d.state.call_stack = checked.state.call_stack
      /\ d.state.guards = checked.state.guards /\ d.steps = checked.steps
  BY <1>4, SetGuard DEF Records
<1> HIDE DEF d
<1>10. /\ Grows(c, d) /\ d.state.pc = c.state.pc /\ d.state.call_stack = c.state.call_stack
       /\ d.state.guards = c.state.guards
  BY <1>4, <1>9, GrowsTransitive DEF Records, SameControl
<1>11. Inv(d, sides)
  <2>1. /\ Den(d.state.guard) \subseteq Den(c.state.guard)
        /\ Den(c.state.guard) \ CutBy(d.steps) \subseteq Den(d.state.guard)
    BY <1>4, <1>5, <1>7, <1>9
  <2> QED BY <1>2, <1>8, <1>9, <1>10, <2>1, NarrowedKeeps
<1>12. Ready(d, sides)
  BY <1>10, <1>11 DEF Ready, PastPc, In, top
<1> QED BY <1>1, <1>12

(* The counters of a loop reset.                                           *)
LEMMA LeaveLoopKeeps ==
  ASSUME NEW c, NEW sides, Ready(c, sides)
  PROVE  Ready(LeaveLoop(c), sides)
PROOF
<1> DEFINE d == LeaveLoop(c)
<1>1. /\ IsConfig(d) /\ d.state.pc = c.state.pc
      /\ d.state.level2 = c.state.level2 /\ d.state.guards = c.state.guards
      /\ d.state.guard = c.state.guard /\ d.state.call_stack = c.state.call_stack
      /\ d.steps = c.steps
  BY DEF LeaveLoop, Ready, Inv, IsConfig, StateFields
<1> HIDE DEF d
<1> QED BY <1>1, SilentReady DEF d

-----------------------------------------------------------------------------
(* Another branch gets a number.                                           *)

More(sides, sides2) ==
  DOMAIN sides \subseteq DOMAIN sides2 /\ \A n \in DOMAIN sides : sides2[n] = sides[n]

(* What is said of the branches so far stays true of them.                 *)
LEMMA GuardMore ==
  ASSUME NEW g, NEW sides, NEW sides2, GuardOK(g, sides), More(sides, sides2)
  PROVE  GuardOK(g, sides2)
PROOF
<1> SUFFICES ASSUME NEW e \in g, e.kind = "symbol"
             PROVE  \E n \in DOMAIN sides2 :
                      /\ e.symbol = <<"guard", n>> /\ e.negated \in BOOLEAN
                      /\ e.den = IF e.negated THEN sides2[n] ELSE World \ sides2[n]
  BY DEF GuardOK
<1>1. PICK n \in DOMAIN sides :
        /\ e.symbol = <<"guard", n>> /\ e.negated \in BOOLEAN
        /\ e.den = IF e.negated THEN sides[n] ELSE World \ sides[n]
  BY DEF GuardOK
<1>2. n \in DOMAIN sides2 /\ sides2[n] = sides[n]
  BY DEF More
<1> QED BY <1>1, <1>2

(* In every frame.                                                         *)
LEMMA StackMore ==
  ASSUME NEW stack, NEW sides, NEW sides2, StackOK(stack, sides), More(sides, sides2)
  PROVE  StackOK(stack, sides2)
PROOF
<1>1. ASSUME NEW f, FrameOK(f, sides) PROVE FrameOK(f, sides2)
  <2>1. GuardOK(f.entry_guard, sides2)
    BY <1>1, GuardMore DEF FrameOK
  <2>2. ASSUME NEW l \in DOMAIN f.goto_state_map, NEW i \in DOMAIN f.goto_state_map[l]
        PROVE  GuardOK(f.goto_state_map[l][i].guard, sides2)
    BY <1>1, GuardMore DEF FrameOK
  <2> QED BY <1>1, <2>1, <2>2 DEF FrameOK
<1>2. \A n \in 1 .. Len(stack) : FrameOK(stack[n], sides2)
  BY <1>1 DEF StackOK
<1> QED BY <1>2 DEF StackOK

(* A branch: each input of the path takes one of the sides.                *)
MayBranch(c, sides, l, taken_aside) ==
  /\ Inv(c, sides) /\ taken_aside \in BOOLEAN
  /\ l = <<top(c.state).function, l[2]>>
  /\ l[2] \in 1 .. Len(Body(top(c.state).function))

Branched(c, l, d, sides2) ==
  /\ Inv(d, sides2) /\ d.state.pc = c.state.pc
  /\ top(d.state).function = top(c.state).function
  /\ DOMAIN top(d.state).goto_state_map = DOMAIN top(c.state).goto_state_map \cup {l}

(* Both guards get the new literal, one as it is and one negated, so that  *)
(* no input is on both sides and none is lost.                             *)
LEMMA BranchKeeps ==
  ASSUME NEW c, NEW sides, NEW l, NEW taken_aside, MayBranch(c, sides, l, taken_aside), NEW cond
  PROVE  \E sides2 : Branched(c, l, Branch(c, cond, l, taken_aside), sides2)
PROOF
<1> DEFINE n == c.state.guards + 1
           symbol == <<"guard", n>>
           taken == Literal(symbol, TRUE, cond.den)
           not_taken == Literal(symbol, FALSE, World \ cond.den)
           aside == add(Guard(c), IF taken_aside THEN taken ELSE not_taken)
           here == add(Guard(c), IF taken_aside THEN not_taken ELSE taken)
           queued == Queue(c, l, aside)
           step == Assignment(symbol, cond.syms)
           emitted == Emit(queued, step)
           d == Branch(c, cond, l, taken_aside)
           sides2 == [m \in 1 .. n |-> IF m = n THEN cond.den ELSE sides[m]]
<1>0. /\ Inv(c, sides) /\ taken_aside \in BOOLEAN
      /\ l = <<top(c.state).function, l[2]>>
      /\ l[2] \in 1 .. Len(Body(top(c.state).function))
  BY DEF MayBranch
<1> USE <1>0
<1>1. d = [emitted EXCEPT !.state.guards = n, !.state.guard = here]
  BY DEF Branch
<1>2. /\ c.state.guards \in Nat /\ n \in Nat /\ DOMAIN sides = 1 .. c.state.guards
      /\ IsConfig(c) /\ NamesInv(c) /\ GuardOK(c.state.guard, sides)
      /\ StackOK(c.state.call_stack, sides)
      /\ PathsOK(c.state.call_stack, c.state.guard, CutBy(c.steps))
  BY DEF Inv, NamesInv, ControlInv
<1>3. More(sides, sides2) /\ DOMAIN sides2 = 1 .. n /\ n \in 1 .. n /\ sides2[n] = cond.den
  <2>1. \A m \in 1 .. c.state.guards : m \in 1 .. n /\ m # n
    BY <1>2
  <2> QED BY <1>2, <2>1 DEF More
<1> HIDE DEF sides2
<1>4. /\ taken.kind = "symbol" /\ taken.symbol = symbol /\ taken.negated = TRUE
      /\ taken.den = cond.den
      /\ not_taken.kind = "symbol" /\ not_taken.symbol = symbol /\ not_taken.negated = FALSE
      /\ not_taken.den = World \ cond.den
  BY DEF Literal
<1>5. step.type = "ASSIGNMENT" /\ step.lhs = symbol
  BY DEF Assignment
<1> HIDE DEF taken, not_taken, step
<1>6. GuardOK({taken}, sides2) /\ GuardOK({not_taken}, sides2)
  <2>1. \E m \in DOMAIN sides2 :
          /\ taken.symbol = <<"guard", m>> /\ taken.negated \in BOOLEAN
          /\ taken.den = IF taken.negated THEN sides2[m] ELSE World \ sides2[m]
    BY <1>3, <1>4
  <2>2. \E m \in DOMAIN sides2 :
          /\ not_taken.symbol = <<"guard", m>> /\ not_taken.negated \in BOOLEAN
          /\ not_taken.den = IF not_taken.negated THEN sides2[m] ELSE World \ sides2[m]
    BY <1>3, <1>4
  <2> QED BY <2>1, <2>2 DEF GuardOK
<1>7. GuardOK(c.state.guard, sides2) /\ StackOK(c.state.call_stack, sides2)
  BY <1>2, <1>3, GuardMore, StackMore
<1>8. GuardOK(aside, sides2) /\ GuardOK(here, sides2)
  BY <1>6, <1>7, AddOK DEF Guard
<1>9. /\ Den(add(c.state.guard, taken)) = Den(c.state.guard) \cap cond.den
      /\ Den(add(c.state.guard, not_taken)) = Den(c.state.guard) \cap (World \ cond.den)
  BY <1>4, AddDen
<1>10. /\ Den(aside) \subseteq Den(c.state.guard) /\ Den(here) \subseteq Den(c.state.guard)
       /\ Den(here) \cap Den(aside) = {}
       /\ Den(c.state.guard) \subseteq Den(here) \cup Den(aside)
  <2>1. Den(c.state.guard) \subseteq World
    BY DEF Den
  <2>2. CASE taken_aside
    BY <1>9, <2>1, <2>2 DEF Guard
  <2>3. CASE ~taken_aside
    BY <1>9, <2>1, <2>3 DEF Guard
  <2> QED BY <2>2, <2>3
<1> HIDE DEF aside, here
<1>11. /\ IsConfig(queued) /\ queued.state.pc = c.state.pc
       /\ queued.state.level2 = c.state.level2 /\ queued.state.guards = c.state.guards
       /\ queued.steps = c.steps
  BY <1>2, QueueFacts
<1> HIDE DEF queued
<1>12. emitted.state = queued.state /\ emitted.steps = Append(c.steps, step) /\ IsConfig(emitted)
  BY <1>11 DEF Emit, IsConfig
<1> HIDE DEF emitted, d
<1>13. /\ IsConfig(d) /\ d.state.guards = n /\ d.state.guard = here
       /\ d.state.pc = c.state.pc /\ d.state.level2 = c.state.level2
       /\ d.state.call_stack = queued.state.call_stack
       /\ d.steps = Append(c.steps, step)
  BY <1>1, <1>11, <1>12 DEF IsConfig, StateFields
<1>14. NamesInv(d)
  <2>1. DOMAIN c.state.level2 = Vars /\ \A x \in Vars : c.state.level2[x].num \in Nat
    BY <1>2 DEF NamesInv
  <2>2. /\ DOMAIN d.state.level2 = Vars
        /\ \A x \in Vars : /\ d.state.level2[x].num \in Nat
                           /\ c.state.level2[x].num <= d.state.level2[x].num
    BY <1>13, <2>1
  <2>3. d.state.guards \in Nat /\ c.state.guards <= d.state.guards
    BY <1>2, <1>13
  <2>4. ~Taken(c.state, symbol)
    BY <1>2, ProgramAssumption DEF Taken
  <2>5. Taken(d.state, symbol)
    BY <1>2, <1>13 DEF Taken
  <2> HIDE DEF symbol, n
  <2>6. step.type = "ASSIGNMENT" => ~Taken(c.state, step.lhs) /\ Taken(d.state, step.lhs)
    BY <1>5, <2>4, <2>5
  <2>7. NamesInv(c) /\ d.steps = Append(c.steps, step)
    BY <1>2, <1>13
  <2> QED BY ONLY <2>2, <2>3, <2>6, <2>7, NameGiven
<1>15. Grows(c, d)
  <2>1. IsSeq(c.steps)
    BY <1>2 DEF NamesInv
  <2>2. CutBy(c.steps) \subseteq CutBy(d.steps)
    BY <1>13, <2>1, CutGrows
  <2> QED BY <1>14, <2>2 DEF Grows
<1>16. d.state.call_stack = Queue(c, l, aside).state.call_stack
  BY <1>13 DEF queued
<1>17. DOMAIN sides2 = 1 .. d.state.guards
  BY <1>3, <1>13
<1>18. GuardOK(d.state.guard, sides2)
  BY <1>8, <1>13
<1>19. /\ Den(d.state.guard) \subseteq Den(c.state.guard)
       /\ Den(d.state.guard) \cap Den(aside) = {}
       /\ Den(c.state.guard) \subseteq Den(d.state.guard) \cup Den(aside)
       /\ Den(aside) \subseteq Den(c.state.guard)
  BY <1>10, <1>13
<1> HIDE DEF n, symbol
<1>20. /\ Inv(d, sides2)
       /\ top(d.state).function = top(c.state).function
       /\ DOMAIN top(d.state).goto_state_map = DOMAIN top(c.state).goto_state_map \cup {l}
  <2>1. /\ IsConfig(c) /\ NamesInv(c) /\ StackOK(c.state.call_stack, sides2)
        /\ PathsOK(c.state.call_stack, c.state.guard, CutBy(c.steps))
    BY <1>2, <1>7
  <2>2. IsConfig(d) /\ Grows(c, d) /\ GuardOK(aside, sides2)
    BY <1>8, <1>13, <1>15
  <2>3. l = <<top(c.state).function, l[2]>> /\ l[2] \in 1 .. Len(Body(top(c.state).function))
    BY <1>0
  <2>4. PutAside(c, sides2, l, aside, d)
    BY ONLY <2>1, <2>2, <2>3, <1>16, <1>17, <1>18, <1>19 DEF PutAside
  <2> QED BY ONLY <2>4, AsideKeeps
<1> QED BY <1>13, <1>20 DEF Branched, d

-----------------------------------------------------------------------------
(* Jumps.                                                                  *)

(* Control goes to an instruction up to which nothing waits.               *)
Landed(c, sides, d, sides2, more, k) ==
  /\ Ready(c, sides) /\ Inv(d, sides2)
  /\ top(d.state).function = top(c.state).function
  /\ DOMAIN top(d.state).goto_state_map = DOMAIN top(c.state).goto_state_map \cup more
  /\ k \in 1 .. Len(Body(top(c.state).function))
  /\ k <= pc[2] + 1 /\ \A l \in more : k <= l[2]
  /\ d.state.pc = <<top(c.state).function, k>>

(* Then whatever waits in the frame waits there or ahead.                  *)
LEMMA Arrived ==
  ASSUME NEW c, NEW sides, NEW d, NEW sides2, NEW more, NEW k, Landed(c, sides, d, sides2, more, k)
  PROVE  Kept(d)
PROOF
<1> DEFINE f == top(c.state)
<1> USE DEF Landed
<1>1. FrameOK(f, sides)
  BY TopFrame DEF Ready, Inv, ControlInv
<1>2. \A l \in DOMAIN f.goto_state_map : pc[2] < l[2] /\ l[2] \in Nat
  BY <1>1 DEF FrameOK, Ready, PastPc, Ahead
<1>3. pc[2] \in Nat
  BY DEF Ready, PastPc, In
<1>4. \A l \in DOMAIN f.goto_state_map : k <= l[2]
  BY <1>2, <1>3
<1> HIDE DEF f
<1>5. AtPc(d)
  BY <1>4 DEF AtPc, In, f
<1> QED BY <1>5 DEF Kept

(* The state goes where the jump does, and nothing is left on the path.    *)
LEMMA AllAside ==
  ASSUME NEW c, NEW sides, Ready(c, sides), NEW l, l = <<top(c.state).function, l[2]>>,
         l[2] \in 1 .. Len(Body(top(c.state).function)), NEW d, IsConfig(d),
         d.state.guard = make_false(c.state.guard), d.state.level2 = c.state.level2,
         d.state.guards = c.state.guards, d.steps = c.steps,
         d.state.call_stack = Queue(c, l, c.state.guard).state.call_stack
  PROVE  /\ Inv(d, sides)
         /\ top(d.state).function = top(c.state).function
         /\ DOMAIN top(d.state).goto_state_map = DOMAIN top(c.state).goto_state_map \cup {l}
PROOF
<1>1. /\ IsConfig(c) /\ NamesInv(c) /\ StackOK(c.state.call_stack, sides)
      /\ PathsOK(c.state.call_stack, c.state.guard, CutBy(c.steps))
      /\ GuardOK(c.state.guard, sides) /\ DOMAIN sides = 1 .. d.state.guards
  BY DEF Ready, Inv, ControlInv
<1>2. Grows(c, d)
  BY GrowsReflexive
<1>3. Den(d.state.guard) = {} /\ GuardOK(d.state.guard, sides)
  BY MakeFalse
<1>4. PutAside(c, sides, l, c.state.guard, d)
  BY <1>1, <1>2, <1>3 DEF PutAside
<1> QED BY ONLY <1>4, AsideKeeps

(* A jump forward: control goes on, the state goes ahead.                  *)
LEMMA JumpForwardKept ==
  ASSUME Facts, NEW c, NEW sides, Ready(c, sides), NEW cond,
         instruction.type = "GOTO", ~IsBackwards(goto_functions, pc)
  PROVE  Kept(JumpForward(c, cond))
PROOF
<1> DEFINE f == top(c.state).function
           t == instruction.target
           l == Target(goto_functions, pc)
<1>1. /\ pc = <<f, pc[2]>> /\ pc[1] = f /\ pc[2] \in 1 .. Len(Body(f)) /\ pc[2] # Len(Body(f))
      /\ Len(Body(f)) \in Nat /\ t \in 1 .. Len(Body(f))
  BY HereFacts
<1>2. pc[2] < t
  BY <1>1 DEF IsBackwards, instruction
<1>3. l = <<f, t>>
  BY <1>1 DEF Target, instruction
<1>4. c.state.pc = pc /\ Inv(c, sides) /\ IsConfig(c)
  BY DEF Ready, Inv
<1>5. Following(pc) = <<f, pc[2] + 1>> /\ pc[2] + 1 \in 1 .. Len(Body(f))
  BY <1>1 DEF Following
<1> HIDE DEF l, f, t
<1>6. l = <<f, l[2]>> /\ l[2] = t
  BY <1>3
<1>7. CASE IsTrue(cond)
  <2> DEFINE q == Queue(c, l, Guard(c))
             e == NextPc(q)
             d == [e EXCEPT !.state.guard = make_false(Guard(c))]
  <2>1. JumpForward(c, cond) = d
    BY <1>7 DEF JumpForward, l
  <2>2. /\ IsConfig(q) /\ q.state.pc = pc
        /\ q.state.level2 = c.state.level2 /\ q.state.guards = c.state.guards
        /\ q.steps = c.steps
    BY <1>4, QueueFacts
  <2> HIDE DEF q
  <2>3. /\ IsConfig(e) /\ e.state.pc = Following(pc)
        /\ e.state.level2 = q.state.level2 /\ e.state.guards = q.state.guards
        /\ e.state.call_stack = q.state.call_stack
        /\ e.steps = q.steps
    BY <2>2 DEF NextPc, Goto, IsConfig, StateFields
  <2> HIDE DEF e
  <2>4. /\ IsConfig(d) /\ d.state.pc = e.state.pc
        /\ d.state.guard = make_false(c.state.guard)
        /\ d.state.level2 = e.state.level2 /\ d.state.guards = e.state.guards
        /\ d.state.call_stack = e.state.call_stack
        /\ d.steps = e.steps
    BY <2>3 DEF IsConfig, StateFields, Guard
  <2> HIDE DEF d
  <2>5. d.state.call_stack = Queue(c, l, c.state.guard).state.call_stack
    BY <2>3, <2>4 DEF q, Guard
  <2>6. /\ Inv(d, sides)
        /\ top(d.state).function = f
        /\ DOMAIN top(d.state).goto_state_map = DOMAIN top(c.state).goto_state_map \cup {l}
    <3>1. /\ d.state.level2 = c.state.level2 /\ d.state.guards = c.state.guards
          /\ d.steps = c.steps
      BY <2>2, <2>3, <2>4
    <3>2. l = <<top(c.state).function, l[2]>> /\ l[2] \in 1 .. Len(Body(top(c.state).function))
      BY <1>1, <1>6 DEF f
    <3> QED BY <2>4, <2>5, <3>1, <3>2, AllAside DEF f
  <2>7. \A m \in {l} : pc[2] + 1 <= m[2]
    BY <1>1, <1>2, <1>6
  <2>8. pc[2] + 1 <= pc[2] + 1 /\ d.state.pc = <<f, pc[2] + 1>>
    BY <1>1, <1>5, <2>3, <2>4
  <2>9. Kept(d)
    <3>1. Landed(c, sides, d, sides, {l}, pc[2] + 1)
      BY <1>5, <2>6, <2>7, <2>8 DEF Landed, f
    <3> QED BY <3>1, Arrived
  <2> QED BY <2>1, <2>9
<1>8. CASE ~IsTrue(cond)
  <2> DEFINE side == TRUE
             b == Branch(c, cond, l, side)
             d == NextPc(b)
  <2>0. side \in BOOLEAN
    OBVIOUS
  <2>1. JumpForward(c, cond) = d
    BY <1>8 DEF JumpForward, l
  <2> HIDE DEF side
  <2>2. l = <<top(c.state).function, l[2]>> /\ l[2] \in 1 .. Len(Body(top(c.state).function))
    BY <1>1, <1>6 DEF f
  <2>9. PICK sides2 : Branched(c, l, b, sides2)
    <3>1. MayBranch(c, sides, l, side)
      BY <1>4, <2>0, <2>2 DEF MayBranch
    <3> QED BY <3>1, BranchKeeps
  <2> HIDE DEF b
  <2>3. /\ Inv(b, sides2) /\ b.state.pc = c.state.pc
        /\ top(b.state).function = top(c.state).function
        /\ DOMAIN top(b.state).goto_state_map = DOMAIN top(c.state).goto_state_map \cup {l}
    BY <2>9 DEF Branched
  <2>4. Inv(d, sides2) /\ d.state.pc = Following(pc) /\ top(d.state) = top(b.state)
    BY <1>4, <2>3, GotoKeeps DEF NextPc
  <2> HIDE DEF d
  <2>5. \A m \in {l} : pc[2] + 1 <= m[2]
    BY <1>1, <1>2, <1>6
  <2>6. pc[2] + 1 <= pc[2] + 1 /\ d.state.pc = <<f, pc[2] + 1>>
    BY <1>1, <1>5, <2>4
  <2>7. Kept(d)
    <3>1. Landed(c, sides, d, sides2, {l}, pc[2] + 1)
      BY <1>5, <2>3, <2>4, <2>5, <2>6 DEF Landed, f
    <3> QED BY <3>1, Arrived
  <2> QED BY <2>1, <2>7
<1> QED BY <1>7, <1>8

(* A goto to itself.                                                       *)
LEMMA JumpToItselfKept ==
  ASSUME Facts, NEW c, NEW sides, Ready(c, sides), NEW cond, instruction.type = "GOTO"
  PROVE  Kept(JumpToItself(c, cond))
PROOF
<1>1. Inv(c, sides) /\ IsConfig(c)
  BY DEF Ready, Inv
<1>2. Ready(assume_false(c), sides)
  BY <1>1, AssumeFalseKeeps DEF Ready, PastPc, In
<1>3. Ready(assume(c, Not(cond)), sides)
  BY <1>1, AssumeRecords, RecordsReady
<1>4. JumpToItself(c, cond) = NextPc(assume_false(c)) \/ JumpToItself(c, cond) = NextPc(assume(c, Not(cond)))
  BY DEF JumpToItself
<1> QED BY <1>2, <1>3, <1>4, NextKept

(* A jump back: the state goes on behind the loop, control goes back in    *)
(* front of it, unless the bound is reached.                               *)
LEMMA JumpBackKept ==
  ASSUME Facts, NEW c, NEW sides, Ready(c, sides), NEW cond,
         instruction.type = "GOTO", IsBackwards(goto_functions, pc)
  PROVE  Kept(JumpBack(c, cond))
PROOF
<1> DEFINE f == top(c.state).function
           t == instruction.target
           loop == loop_number(goto_functions, pc)
           unwind == c.state.loop_iterations[loop] + 1
           counted == [c EXCEPT !.state.loop_iterations[loop] = unwind]
           back == Goto(counted, Target(goto_functions, pc))
           aside == Following(pc)
           side == FALSE
           branched == Branch(back, cond, aside, side)
<1>1. /\ pc = <<f, pc[2]>> /\ pc[1] = f /\ pc[2] \in 1 .. Len(Body(f)) /\ pc[2] # Len(Body(f))
      /\ Len(Body(f)) \in Nat /\ t \in 1 .. Len(Body(f))
  BY HereFacts
<1>2. t <= pc[2]
  BY <1>1 DEF IsBackwards, instruction
<1>3. Target(goto_functions, pc) = <<f, t>> /\ aside = <<f, pc[2] + 1>>
  BY <1>1 DEF Target, instruction, Following
<1>4. \/ JumpBack(c, cond) = NextPc(LeaveLoop(loop_bound_exceeded(counted, cond)))
      \/ JumpBack(c, cond) = back
      \/ JumpBack(c, cond) = branched
  BY DEF JumpBack
<1>0. side \in BOOLEAN
  OBVIOUS
<1> HIDE DEF side
<1> HIDE DEF f, t, unwind, loop
<1>5. Ready(counted, sides) /\ top(counted.state) = top(c.state)
  <2>1. /\ IsConfig(counted) /\ counted.state.pc = c.state.pc
        /\ counted.state.level2 = c.state.level2 /\ counted.state.guards = c.state.guards
        /\ counted.state.guard = c.state.guard /\ counted.state.call_stack = c.state.call_stack
        /\ counted.steps = c.steps
    BY DEF Ready, Inv, IsConfig, StateFields
  <2> HIDE DEF counted
  <2> QED BY <2>1, SilentReady
<1> HIDE DEF counted
<1>6. /\ Inv(back, sides) /\ back.state.pc = <<f, t>> /\ top(back.state) = top(c.state)
  BY <1>3, <1>5, GotoKeeps DEF Ready
<1> HIDE DEF back
<1>7. CASE JumpBack(c, cond) = NextPc(LeaveLoop(loop_bound_exceeded(counted, cond)))
  <2>1. Ready(LeaveLoop(loop_bound_exceeded(counted, cond)), sides)
    BY <1>5, LoopBoundKeeps, LeaveLoopKeeps
  <2> QED BY <1>7, <2>1, NextKept
<1>8. CASE JumpBack(c, cond) = back
  <2>1. DOMAIN top(back.state).goto_state_map = DOMAIN top(c.state).goto_state_map \cup {}
    BY <1>6
  <2>2. t <= pc[2] + 1 /\ \A l \in {} : t <= l[2]
    BY <1>1, <1>2
  <2>3. /\ t \in 1 .. Len(Body(top(c.state).function))
        /\ back.state.pc = <<top(c.state).function, t>>
        /\ top(back.state).function = top(c.state).function
    BY <1>1, <1>6 DEF f
  <2>4. Landed(c, sides, back, sides, {}, t)
    BY <1>6, <2>1, <2>2, <2>3 DEF Landed
  <2> QED BY <1>8, <2>4, Arrived
<1>9. CASE JumpBack(c, cond) = branched
  <2> HIDE DEF aside
  <2>1. /\ aside = <<top(back.state).function, aside[2]>>
        /\ aside[2] \in 1 .. Len(Body(top(back.state).function))
        /\ aside[2] = pc[2] + 1
    BY <1>1, <1>3, <1>6 DEF f
  <2>9. PICK sides2 : Branched(back, aside, branched, sides2)
    <3>1. MayBranch(back, sides, aside, side)
      BY <1>0, <1>6, <2>1 DEF MayBranch
    <3> QED BY <3>1, BranchKeeps
  <2> HIDE DEF branched
  <2>2. /\ Inv(branched, sides2) /\ branched.state.pc = back.state.pc
        /\ top(branched.state).function = top(back.state).function
        /\ DOMAIN top(branched.state).goto_state_map
             = DOMAIN top(back.state).goto_state_map \cup {aside}
    BY <2>9 DEF Branched
  <2>3. t <= pc[2] + 1 /\ \A l \in {aside} : t <= l[2]
    BY <1>1, <1>2, <2>1
  <2>4. /\ t \in 1 .. Len(Body(top(c.state).function))
        /\ branched.state.pc = <<top(c.state).function, t>>
        /\ top(branched.state).function = top(c.state).function
        /\ DOMAIN top(branched.state).goto_state_map
             = DOMAIN top(c.state).goto_state_map \cup {aside}
    BY <1>1, <1>6, <2>2 DEF f
  <2>5. Landed(c, sides, branched, sides2, {aside}, t)
    BY <2>2, <2>3, <2>4 DEF Landed
  <2> QED BY <1>9, <2>5, Arrived
<1> QED BY <1>4, <1>7, <1>8, <1>9

(* A goto of any kind.                                                     *)
LEMMA GotoKept ==
  ASSUME Facts, NEW c, NEW sides, Ready(c, sides), instruction.type = "GOTO"
  PROVE  Kept(symex_goto(c))
PROOF
<1> DEFINE cond == Meaning(c.state, instruction.guard)
<1>1. \/ symex_goto(c) = NextPc(LeaveLoop(c))
      \/ symex_goto(c) = NextPc(c)
      \/ symex_goto(c) = JumpForward(c, cond) /\ ~IsBackwards(goto_functions, pc)
      \/ symex_goto(c) = JumpToItself(c, cond)
      \/ symex_goto(c) = JumpBack(c, cond) /\ IsBackwards(goto_functions, pc)
  BY DEF symex_goto
<1> HIDE DEF cond
<1>2. Ready(LeaveLoop(c), sides)
  BY LeaveLoopKeeps
<1> QED BY <1>1, <1>2, NextKept, JumpForwardKept, JumpToItselfKept, JumpBackKept

-----------------------------------------------------------------------------
(* Calls and returns.                                                      *)

(* A return goes ahead to the end of the function.                         *)
LEMMA ReturnReady ==
  ASSUME Facts, NEW c, NEW sides, Ready(c, sides), instruction.type = "RETURN"
  PROVE  Ready(symex_return(c), sides)
PROOF
<1> DEFINE f == top(c.state).function
           a == assign_each(c, top(c.state).return_value, instruction.e)
           l == EndOf(goto_functions, pc[1])
           q == Queue(a, l, Guard(a))
           d == [q EXCEPT !.state.guard = make_false(Guard(a))]
<1>1. symex_return(c) = d
  BY DEF symex_return
<1>2. /\ pc = <<f, pc[2]>> /\ pc[1] = f /\ pc[2] \in 1 .. Len(Body(f)) /\ pc[2] # Len(Body(f))
      /\ Len(Body(f)) \in Nat \ {0}
  BY HereFacts
<1>3. l = <<f, Len(Body(f))>>
  BY <1>2 DEF EndOf, Body
<1>4. top(c.state).return_value \in SUBSET Vars
  BY TopFrame DEF Ready, Inv, ControlInv, FrameOK
<1>5. Records(c, a)
  BY <1>4, AssignEachRecords DEF Ready, Inv
<1> HIDE DEF a, l, f
<1>6. Ready(a, sides) /\ top(a.state) = top(c.state) /\ IsConfig(a)
  BY <1>5, RecordsReady DEF Records
<1>7. /\ IsConfig(q) /\ q.state.pc = a.state.pc
      /\ q.state.level2 = a.state.level2 /\ q.state.guards = a.state.guards
      /\ q.steps = a.steps
  BY <1>6, QueueFacts
<1> HIDE DEF q
<1>8. /\ IsConfig(d) /\ d.state.pc = q.state.pc
      /\ d.state.guard = make_false(a.state.guard)
      /\ d.state.level2 = q.state.level2 /\ d.state.guards = q.state.guards
      /\ d.state.call_stack = q.state.call_stack
      /\ d.steps = q.steps
  BY <1>7 DEF IsConfig, StateFields, Guard
<1> HIDE DEF d
<1>9. /\ Inv(d, sides)
      /\ top(d.state).function = top(a.state).function
      /\ DOMAIN top(d.state).goto_state_map = DOMAIN top(a.state).goto_state_map \cup {l}
  <2>1. d.state.call_stack = Queue(a, l, a.state.guard).state.call_stack
    BY <1>8 DEF q, Guard
  <2>2. d.state.level2 = a.state.level2 /\ d.state.guards = a.state.guards /\ d.steps = a.steps
    BY <1>7, <1>8
  <2>3. l = <<top(a.state).function, l[2]>> /\ l[2] \in 1 .. Len(Body(top(a.state).function))
    BY <1>2, <1>3, <1>6 DEF f
  <2> QED BY <1>6, <1>8, <2>1, <2>2, <2>3, AllAside
<1>10. d.state.pc = pc
  BY <1>6, <1>7, <1>8 DEF Ready
<1>11. PastPc(d)
  <2>1. In(a) /\ a.state.pc = pc /\ Ahead(top(a.state), pc[2])
    BY <1>6 DEF Ready, PastPc
  <2>2. In(d)
    BY <1>9, <1>10, <2>1 DEF In
  <2>3. pc[2] < l[2]
    BY <1>2, <1>3
  <2> QED BY <1>9, <1>10, <2>1, <2>2, <2>3 DEF PastPc, Ahead
<1> QED BY <1>1, <1>9, <1>10, <1>11 DEF Ready

(* A frame pushed.                                                         *)
Pushed(stack, sides, f, guard, cut) ==
  /\ StackOK(stack, sides) /\ FrameOK(f, sides) /\ DOMAIN f.goto_state_map = {}
  /\ f.entry_guard = guard /\ PathsOK(stack, guard, cut)
  /\ LET l == f.calling_location
         caller == stack[Len(stack)]
     IN  /\ l = <<caller.function, l[2]>>
         /\ l[2] \in 1 .. Len(Body(caller.function)) - 1
         /\ Ahead(caller, l[2])

(* All inputs of the caller's path are on the callee's path.               *)
LEMMA PushKeeps ==
  ASSUME NEW stack, NEW sides, NEW f, NEW guard, NEW cut, Pushed(stack, sides, f, guard, cut)
  PROVE  LET s == Append(stack, f)
         IN  /\ StackOK(s, sides) /\ PathsOK(s, guard, cut)
             /\ s[Len(s)] = f
PROOF
<1> DEFINE n == Len(stack)
           s == Append(stack, f)
<1>0. /\ StackOK(stack, sides) /\ FrameOK(f, sides) /\ DOMAIN f.goto_state_map = {}
      /\ f.entry_guard = guard /\ PathsOK(stack, guard, cut)
      /\ f.calling_location = <<stack[n].function, f.calling_location[2]>>
      /\ f.calling_location[2] \in 1 .. Len(Body(stack[n].function)) - 1
      /\ Ahead(stack[n], f.calling_location[2])
  BY DEF Pushed
<1>1. /\ IsSeq(s) /\ n \in Nat \ {0} /\ DOMAIN stack = 1 .. n /\ Len(s) = n + 1
      /\ s[n + 1] = f /\ \A m \in 1 .. n : s[m] = stack[m]
  <2>1. IsSeq(stack) /\ n >= 1
    BY <1>0 DEF StackOK
  <2> HIDE DEF n, s
  <2>2. /\ IsSeq(s) /\ n \in Nat /\ DOMAIN stack = 1 .. n /\ Len(s) = n + 1
        /\ s[n + 1] = f /\ \A m \in 1 .. n : s[m] = stack[m]
    BY <2>1, AppendStep DEF n, s
  <2> QED BY <2>1, <2>2
<1> HIDE DEF s, n
<1>2. StackOK(s, sides)
  <2>1. 1 \in 1 .. n /\ s[1].function = Main
    BY <1>0, <1>1 DEF StackOK
  <2>2. ASSUME NEW m \in 1 .. n + 1 PROVE FrameOK(s[m], sides)
    <3>1. m = n + 1 \/ m \in 1 .. n
      BY <1>1
    <3> QED BY <1>0, <1>1, <3>1 DEF StackOK, n
  <2>3. ASSUME NEW m \in 1 .. n
        PROVE  LET l == s[m + 1].calling_location
               IN  /\ l = <<s[m].function, l[2]>>
                   /\ l[2] \in 1 .. Len(Body(s[m].function)) - 1
                   /\ Ahead(s[m], l[2])
    <3>1. CASE m = n
      BY <1>0, <1>1, <3>1
    <3>2. CASE m # n
      <4>1. m \in 1 .. n - 1 /\ m + 1 \in 1 .. n
        BY <1>1, <3>2
      <4>2. s[m] = stack[m] /\ s[m + 1] = stack[m + 1]
        BY <1>1, <4>1
      <4> QED BY <1>0, <4>1, <4>2 DEF StackOK, n
    <3> QED BY <3>1, <3>2
  <2>4. Len(s) >= 1 /\ Len(s) - 1 = n
    BY <1>1
  <2> QED BY <1>1, <2>1, <2>2, <2>3, <2>4 DEF StackOK
<1>3. PathsOK(s, guard, cut)
  <2>1. ASSUME NEW m \in 1 .. n + 1 PROVE Split(s[m], Den(Here(s, guard, m)), cut)
    <3>1. CASE m = n + 1
      <4>1. Queued(f) = {}
        BY <1>0 DEF Queued
      <4>2. Here(s, guard, m) = f.entry_guard
        BY <1>0, <1>1, <3>1 DEF Here
      <4> QED BY <1>0, <1>1, <3>1, <4>1, <4>2 DEF Split
    <3>2. CASE m # n + 1
      <4>1. m \in 1 .. n /\ s[m] = stack[m]
        BY <1>1, <3>2
      <4>2. Split(stack[m], Den(Here(stack, guard, m)), cut)
        BY <1>0, <4>1 DEF PathsOK, n
      <4>3. Here(s, guard, m) = Here(stack, guard, m)
        <5>1. CASE m = n
          <6>1. Here(stack, guard, m) = guard
            BY <5>1 DEF Here, n
          <6>2. Here(s, guard, m) = s[n + 1].entry_guard
            BY <1>1, <5>1 DEF Here
          <6> QED BY <1>0, <1>1, <6>1, <6>2
        <5>2. CASE m # n
          <6>1. m + 1 \in 1 .. n
            BY <1>1, <4>1, <5>2
          <6>2. Here(stack, guard, m) = stack[m + 1].entry_guard
            BY <5>2 DEF Here, n
          <6>3. Here(s, guard, m) = s[m + 1].entry_guard
            BY <1>1, <4>1 DEF Here
          <6> QED BY <1>1, <6>1, <6>2, <6>3
        <5> QED BY <5>1, <5>2
      <4> QED BY <4>1, <4>2, <4>3
    <3> QED BY <3>1, <3>2
  <2> QED BY <1>1, <2>1 DEF PathsOK
<1> QED BY <1>1, <1>2, <1>3 DEF s

(* A frame popped in which nothing waits.                                  *)
LEMMA PopKeeps ==
  ASSUME NEW stack, NEW sides, StackOK(stack, sides), Len(stack) > 1,
         DOMAIN stack[Len(stack)].goto_state_map = {},
         NEW guard, NEW cut, PathsOK(stack, guard, cut)
  PROVE  LET n == Len(stack)
             s == SubSeq(stack, 1, n - 1)
             after == IF is_false(guard) THEN guard ELSE stack[n].entry_guard
         IN  /\ StackOK(s, sides) /\ PathsOK(s, after, cut)
             /\ s[Len(s)] = stack[n - 1]
PROOF
<1> DEFINE n == Len(stack)
           s == SubSeq(stack, 1, n - 1)
           f == stack[n]
           after == IF is_false(guard) THEN guard ELSE f.entry_guard
<1>1. stack \in Seq(Range(stack)) /\ n \in Nat /\ n > 1
  BY LenProperties DEF StackOK, IsSeq
<1>2. s \in Seq(Range(stack)) /\ Len(s) = n - 1 /\ \A m \in 1 .. n - 1 : s[m] = stack[m]
  <2>1. \A m \in 1 .. n - 1 : stack[m] \in Range(stack)
    BY <1>1, ElementOfSeq
  <2> QED BY <1>1, <2>1, SubSeqProperties
<1> HIDE DEF s, f, n
<1>3. IsSeq(s)
  BY <1>2, SeqOfElements DEF IsSeq
<1>4. StackOK(s, sides)
  <2>1. 1 \in 1 .. n - 1 /\ Len(s) >= 1
    BY <1>1, <1>2
  <2>2. s[1].function = Main
    BY <1>2, <2>1 DEF StackOK
  <2>3. ASSUME NEW m \in 1 .. n - 1 PROVE FrameOK(s[m], sides)
    <3>1. m \in 1 .. n
      BY <1>1
    <3> QED BY <1>2, <3>1 DEF StackOK, n
  <2>4. ASSUME NEW m \in 1 .. (n - 1) - 1
        PROVE  LET l == s[m + 1].calling_location
               IN  /\ l = <<s[m].function, l[2]>>
                   /\ l[2] \in 1 .. Len(Body(s[m].function)) - 1
                   /\ Ahead(s[m], l[2])
    <3>1. m \in 1 .. n - 1 /\ m + 1 \in 1 .. n - 1
      BY <1>1
    <3> QED BY <1>2, <3>1 DEF StackOK, n
  <2> QED BY <1>2, <1>3, <2>1, <2>2, <2>3, <2>4 DEF StackOK
<1>5. Split(stack[n - 1], Den(f.entry_guard), cut) /\ Split(f, Den(guard), cut)
  <2>1. n - 1 \in 1 .. n /\ n \in 1 .. n /\ n - 1 # n /\ (n - 1) + 1 = n
    BY <1>1
  <2>2. Here(stack, guard, n) = guard /\ Here(stack, guard, n - 1) = f.entry_guard
    BY <2>1 DEF Here, n, f
  <2>3. \A m \in 1 .. n : Split(stack[m], Den(Here(stack, guard, m)), cut)
    BY DEF PathsOK, n
  <2> QED BY <2>1, <2>2, <2>3 DEF f
<1>6. Split(stack[n - 1], Den(after), cut)
  <2>1. CASE is_false(guard)
    <3>1. Den(guard) = {}
      BY <2>1, FalseDen DEF is_false
    <3>2. Queued(f) = {}
      BY DEF Queued, f, n
    <3>3. Den(f.entry_guard) \ cut \subseteq {}
      BY <1>5, <3>1, <3>2 DEF Split
    <3>4. Split(stack[n - 1], {}, cut)
      BY <1>5, <3>3, SplitNarrows
    <3> QED BY <2>1, <3>1, <3>4
  <2>2. CASE ~is_false(guard)
    BY <1>5, <2>2
  <2> QED BY <2>1, <2>2
<1> HIDE DEF after
<1>7. PathsOK(s, after, cut)
  <2>1. ASSUME NEW m \in 1 .. n - 1 PROVE Split(s[m], Den(Here(s, after, m)), cut)
    <3>1. CASE m = n - 1
      BY <1>2, <1>6, <3>1 DEF Here
    <3>2. CASE m # n - 1
      <4>1. m \in 1 .. n /\ m # n /\ m + 1 \in 1 .. n - 1
        BY <1>1, <3>2
      <4>2. s[m] = stack[m] /\ s[m + 1] = stack[m + 1]
        BY <1>2, <4>1
      <4>3. Here(s, after, m) = Here(stack, guard, m)
        BY <1>2, <3>2, <4>1, <4>2 DEF Here, n
      <4> QED BY <4>1, <4>2, <4>3 DEF PathsOK, n
    <3> QED BY <3>1, <3>2
  <2> QED BY <1>2, <2>1 DEF PathsOK
<1>8. s[Len(s)] = stack[n - 1]
  <2>1. n - 1 \in 1 .. n - 1
    BY <1>1
  <2> QED BY <1>2, <2>1
<1> QED BY <1>4, <1>7, <1>8 DEF s, after, f, n

(* A call of a function that has a body.                                   *)
LEMMA CallKept ==
  ASSUME Facts, NEW c, NEW sides, Ready(c, sides), instruction.type = "FUNCTION_CALL",
         NEW f \in DOMAIN program.body
  PROVE  Kept(Call(c, f))
PROOF
<1> DEFINE stack == c.state.call_stack
           new == frame(f, Guard(c), pc, instruction.ret)
           d == Call(c, f)
<1>1. /\ IsConfig(d) /\ d.state.pc = Begin(f)
      /\ d.state.level2 = c.state.level2 /\ d.state.guards = c.state.guards
      /\ d.state.guard = c.state.guard
      /\ d.state.call_stack = Append(stack, new)
      /\ d.steps = c.steps
  <2> HIDE DEF stack, new
  <2>1. d = [c EXCEPT !.state.call_stack = Append(stack, new),
                      !.state.function_unwind[f] = c.state.function_unwind[f] + 1,
                      !.state.pc = Begin(f)]
    BY DEF Call, stack, new
  <2> HIDE DEF d
  <2> QED BY <2>1 DEF Ready, Inv, IsConfig, StateFields
<1>2. /\ DOMAIN new = FrameFields /\ new.function = f /\ new.entry_guard = c.state.guard
      /\ new.calling_location = pc /\ new.return_value = instruction.ret
      /\ DOMAIN new.goto_state_map = {}
  BY DEF frame, FrameFields, Guard
<1> HIDE DEF new, d
<1>3. NamesInv(c) /\ ControlInv(c, sides) /\ In(c) /\ Ahead(top(c.state), pc[2])
  BY DEF Ready, Inv, PastPc
<1>4. /\ StackOK(stack, sides) /\ PathsOK(stack, c.state.guard, CutBy(c.steps))
      /\ GuardOK(c.state.guard, sides) /\ DOMAIN sides = 1 .. c.state.guards
  BY <1>3 DEF ControlInv
<1>5. /\ pc = <<top(c.state).function, pc[2]>>
      /\ pc[2] \in 1 .. Len(Body(top(c.state).function)) - 1
      /\ instruction.ret \subseteq Vars
  <2>1. /\ pc = <<top(c.state).function, pc[2]>>
        /\ pc[2] \in 1 .. Len(Body(top(c.state).function))
        /\ pc[2] # Len(Body(top(c.state).function))
        /\ Len(Body(top(c.state).function)) \in Nat
        /\ instruction.ret \subseteq Vars
    BY HereFacts
  <2> QED BY <2>1
<1>6. f \in DOMAIN goto_functions.body /\ Len(Body(f)) \in Nat \ {0}
  BY DEF Facts, WellFormed, Body
<1>7. FrameOK(new, sides)
  BY <1>2, <1>4, <1>5, <1>6 DEF FrameOK
<1>8. Pushed(stack, sides, new, c.state.guard, CutBy(c.steps))
  <2>1. top(c.state) = stack[Len(stack)]
    BY DEF top
  <2> HIDE DEF stack
  <2> QED BY <1>2, <1>3, <1>4, <1>5, <1>7, <2>1 DEF Pushed
<1>9. /\ StackOK(d.state.call_stack, sides)
      /\ PathsOK(d.state.call_stack, c.state.guard, CutBy(c.steps))
      /\ top(d.state) = new
  <2> HIDE DEF stack
  <2> QED BY <1>1, <1>8, PushKeeps DEF top
<1>10. NamesInv(d)
  BY <1>1, <1>3, GrowsReflexive DEF Grows
<1>11. Inv(d, sides)
  BY <1>1, <1>4, <1>9, <1>10 DEF Inv, ControlInv
<1>12. AtPc(d)
  <2>1. d.state.pc = <<f, 1>> /\ 1 \in 1 .. Len(Body(f))
    BY <1>1, <1>6 DEF Begin
  <2> QED BY <1>2, <1>9, <2>1 DEF AtPc, In
<1> QED BY <1>11, <1>12 DEF Kept, d

(* A call of any function.                                                 *)
LEMMA FunctionCallKept ==
  ASSUME Facts, NEW c, NEW sides, Ready(c, sides), instruction.type = "FUNCTION_CALL"
  PROVE  Kept(symex_function_call(c))
PROOF
<1> DEFINE f == instruction.function
           assigned == assign_each(c, instruction.ret, [op |-> "nondet"])
<1>1. \/ symex_function_call(c) = NextPc(assigned)
      \/ symex_function_call(c) = Call(c, f) /\ f \in DOMAIN program.body
      \/ symex_function_call(c) = NextPc(Assumed(c, False_))
      \/ symex_function_call(c) = NextPc(claim(c, False_, pc))
  BY DEF symex_function_call
<1>2. IsConfig(c) /\ instruction.ret \in SUBSET Vars
  BY HereFacts DEF Ready, Inv
<1>3. Ready(assigned, sides)
  <2>1. Records(c, assigned)
    BY <1>2, AssignEachRecords
  <2> QED BY <2>1, RecordsReady
<1>4. Ready(Assumed(c, False_), sides) /\ Ready(claim(c, False_, pc), sides)
  BY <1>2, AssumedFacts, ClaimFacts, RecordsReady
<1> HIDE DEF assigned
<1> QED BY <1>1, <1>3, <1>4, NextKept, CallKept

(* The end of a function other than main: all that entered it comes out of *)
(* it.                                                                     *)
LEMMA PopKept ==
  ASSUME Facts, NEW c, NEW sides, Ready(c, sides), instruction.type = "END_FUNCTION",
         pc[1] # Main
  PROVE  Kept(NextPc(pop_frame(c)))
PROOF
<1> DEFINE stack == c.state.call_stack
           n == Len(stack)
           f == top(c.state)
           s == SubSeq(stack, 1, n - 1)
           l == f.calling_location
           guard == IF is_false(c.state.guard) THEN c.state.guard ELSE f.entry_guard
           d == pop_frame(c)
<1>1. /\ StackOK(stack, sides) /\ PathsOK(stack, c.state.guard, CutBy(c.steps))
      /\ GuardOK(c.state.guard, sides) /\ DOMAIN sides = 1 .. c.state.guards
      /\ NamesInv(c)
  BY DEF Ready, Inv, ControlInv
<1>2. FrameOK(f, sides) /\ n \in Nat \ {0} /\ f = stack[n]
  BY <1>1, TopFrame DEF top
<1>3. pc[1] = f.function /\ pc[2] = Len(Body(f.function)) /\ Ahead(f, pc[2])
  BY HereFacts DEF Ready, PastPc
<1>4. n > 1
  BY <1>1, <1>2, <1>3 DEF StackOK
<1>5. DOMAIN f.goto_state_map = {}
  BY <1>2, <1>3 DEF FrameOK, Ahead
<1>6. /\ l = <<stack[n - 1].function, l[2]>>
      /\ l[2] \in 1 .. Len(Body(stack[n - 1].function)) - 1
      /\ Ahead(stack[n - 1], l[2])
      /\ FrameOK(stack[n - 1], sides)
  <2>1. n - 1 \in 1 .. n - 1 /\ n - 1 \in 1 .. n /\ (n - 1) + 1 = n
    BY <1>2, <1>4
  <2> HIDE DEF n
  <2> QED BY <1>1, <1>2, <2>1 DEF StackOK, n
<1>7. /\ IsConfig(d) /\ d.state.pc = l
      /\ d.state.level2 = c.state.level2 /\ d.state.guards = c.state.guards
      /\ d.state.guard = guard
      /\ d.state.call_stack = s
      /\ d.steps = c.steps
  <2> DEFINE e == Goto(c, l)
             m == f.function
             k == c.state.function_unwind[f.function] - 1
  <2>1. /\ IsConfig(e) /\ e.state.pc = l
        /\ e.state.level2 = c.state.level2 /\ e.state.guards = c.state.guards
        /\ e.steps = c.steps
    BY DEF Goto, Ready, Inv, IsConfig, StateFields
  <2>2. d = [e EXCEPT !.state.guard = guard,
                      !.state.function_unwind[m] = k,
                      !.state.call_stack = s]
    BY DEF pop_frame, Guard
  <2> HIDE DEF e, d, guard, s, k, m
  <2> QED BY <2>1, <2>2 DEF IsConfig, StateFields
<1>8. GuardOK(guard, sides)
  BY <1>1, <1>2 DEF FrameOK
<1>9. /\ StackOK(s, sides) /\ PathsOK(s, guard, CutBy(c.steps))
      /\ s[Len(s)] = stack[n - 1]
  BY <1>1, <1>2, <1>4, <1>5, PopKeeps
<1> HIDE DEF d, s, guard, stack, n, f
<1>10. top(d.state) = stack[n - 1]
  BY <1>7, <1>9 DEF top
<1>11. NamesInv(d)
  BY <1>1, <1>7, GrowsReflexive DEF Grows
<1>12. Inv(d, sides)
  BY <1>1, <1>7, <1>8, <1>9, <1>11 DEF Inv, ControlInv
<1>13. Len(Body(stack[n - 1].function)) \in Nat
  BY <1>6 DEF Facts, WellFormed, FrameOK, Body
<1>14. PastPc(d) /\ d.state.pc[2] < Len(Body(top(d.state).function))
  BY <1>6, <1>7, <1>10, <1>13 DEF PastPc, In
<1> QED BY <1>12, <1>14, NextPcKeeps DEF Kept, d

-----------------------------------------------------------------------------
(* The specification.                                                      *)

SymexInv ==
  /\ Facts
  /\ \E sides : Inv(Now, sides) /\ (pc # Ended => AtPc(Now))

(* The invariant holds at the start.                                       *)
LEMMA InitInv == Init => SymexInv
PROOF
<1> SUFFICES ASSUME Init PROVE SymexInv
  OBVIOUS
<1>1. PICK c \in Cases : program = c.program
  BY DEF Init
<1>2. goto_functions = goto_k_induction(c.program)
  BY <1>1 DEF Init
<1>3. Facts
  <2>1. DOMAIN goto_functions.body = DOMAIN program.body
    BY <1>1, <1>2 DEF goto_k_induction
  <2> HIDE DEF goto_k_induction
  <2>2. /\ WellFormed(goto_functions)
        /\ \A l \in goto_functions.inductive \cap Location(goto_functions) :
             Instr(goto_functions, l).type # "END_FUNCTION"
    BY <1>2, ProgramAssumption
  <2> QED BY <2>1, <2>2 DEF Facts
<1> DEFINE main == frame(Main, TrueGuard, Ended, {})
           s == cur_state.call_stack
           sides == [n \in 1 .. 0 |-> {}]
<1>4. /\ DOMAIN cur_state = StateFields
      /\ cur_state.pc = Begin(Main) /\ cur_state.guard = TrueGuard
      /\ cur_state.level2 = [x \in Vars |-> [num |-> 1, const |-> TRUE, val |-> [w \in World |-> 0]]]
      /\ s = <<main>> /\ cur_state.guards = 0
      /\ SSA_steps = <<>>
  BY DEF Init, StateFields
<1>5. /\ DOMAIN main = FrameFields /\ main.function = Main /\ main.entry_guard = TrueGuard
      /\ main.return_value = {} /\ DOMAIN main.goto_state_map = {}
  BY DEF frame, FrameFields
<1> HIDE DEF main
<1>6. GuardOK(TrueGuard, sides) /\ DOMAIN sides = 1 .. 0 /\ 1 .. 0 = {}
  BY DEF GuardOK, TrueGuard
<1> HIDE DEF sides
<1>7. Main \in DOMAIN goto_functions.body /\ Len(Body(Main)) \in Nat \ {0}
  BY <1>3 DEF Facts, WellFormed, Body
<1>8. FrameOK(main, sides)
  BY <1>5, <1>6, <1>7 DEF FrameOK
<1>9. IsSeq(s) /\ Len(s) = 1 /\ s[1] = main
  <2>1. s \in Seq({main})
    BY <1>4
  <2>2. s \in Seq(Range(s))
    BY <2>1, SeqOfElements
  <2> QED BY <1>4, <2>2 DEF IsSeq
<1>10. StackOK(s, sides)
  BY <1>5, <1>8, <1>9 DEF StackOK
<1>11. PathsOK(s, TrueGuard, CutBy(SSA_steps))
  <2>1. Queued(main) = {}
    BY <1>5 DEF Queued
  <2>2. Split(main, Den(TrueGuard), CutBy(SSA_steps))
    BY <1>5, <2>1 DEF Split
  <2> QED BY <1>9, <2>2 DEF PathsOK, Here
<1>12. NamesInv(Now)
  <2>1. IsSeq(<<>>) /\ DOMAIN <<>> = {}
    BY DEF IsSeq
  <2>2. Now.state = cur_state /\ Now.steps = <<>>
    BY <1>4 DEF Now
  <2>3. DOMAIN cur_state.level2 = Vars /\ \A x \in Vars : cur_state.level2[x].num = 1
    BY <1>4
  <2> QED BY <1>4, <2>1, <2>2, <2>3 DEF NamesInv, AssignedOnce
<1>13. Now.state = cur_state /\ Now.steps = SSA_steps /\ IsConfig(Now)
  BY <1>4 DEF Now, IsConfig
<1>14. Inv(Now, sides)
  BY <1>4, <1>6, <1>10, <1>11, <1>12, <1>13 DEF Inv, ControlInv
<1>15. AtPc(Now)
  <2>1. top(cur_state) = main
    BY <1>9 DEF top
  <2>2. cur_state.pc = <<Main, 1>> /\ 1 \in 1 .. Len(Body(Main))
    BY <1>4, <1>7 DEF Begin
  <2> QED BY <1>5, <1>13, <2>1, <2>2 DEF AtPc, In
<1> QED BY <1>3, <1>14, <1>15 DEF SymexInv

(* A step leaves the program as it is.                                     *)
LEMMA Unchanged ==
  ASSUME Facts, UNCHANGED <<program, goto_functions>>, NEW c, NEW sides
  PROVE  /\ Facts' /\ (Inv(c, sides) => Inv(c, sides)') /\ (AtPc(c) => AtPc(c)')
PROOF
<1>1. Facts'
  BY DEF Facts
<1>2. \A steps : CutBy(steps)' = CutBy(steps)
  BY DEF CutBy
<1>3. \A f : Body(f)' = Body(f)
  BY DEF Body
<1>4. \A f : FrameOK(f, sides) => FrameOK(f, sides)'
  BY DEF FrameOK, Body
<1>5. \A s : StackOK(s, sides) => StackOK(s, sides)'
  <2>1. ASSUME NEW s, StackOK(s, sides) PROVE StackOK(s, sides)'
    <3>1. \A n \in 1 .. Len(s) : FrameOK(s[n], sides)'
      BY <1>4, <2>1 DEF StackOK
    <3> QED BY <2>1, <3>1 DEF StackOK, Body
  <2> QED BY <2>1
<1>6. Inv(c, sides) => Inv(c, sides)'
  BY <1>2, <1>5 DEF Inv, ControlInv
<1>7. AtPc(c) => AtPc(c)'
  BY DEF AtPc, In, Body
<1> QED BY <1>1, <1>6, <1>7

(* What a handler made of the state.                                       *)
LEMMA BecomeKept ==
  ASSUME Facts, NEW c, Become(c), NEW sides, Inv(c, sides), c.state.pc # Ended => AtPc(c)
  PROVE  SymexInv'
PROOF
<1> DEFINE d == [state |-> c.state, steps |-> c.steps]
<1>1. d.state = c.state /\ d.steps = c.steps /\ DOMAIN d = {"state", "steps"}
  OBVIOUS
<1>2. UNCHANGED <<program, goto_functions>> /\ Now' = d /\ pc' = c.state.pc
  BY DEF Become, Now, pc
<1> HIDE DEF d
<1>3. Inv(d, sides)
  BY <1>1 DEF Inv, IsConfig, NamesInv, ControlInv
<1>4. AtPc(c) => AtPc(d)
  BY <1>1 DEF AtPc, In
<1>5. Facts' /\ Inv(d, sides)' /\ (AtPc(d) => AtPc(d)')
  BY <1>2, <1>3, Unchanged
<1>6. (\E b : Inv(Now, b) /\ (pc # Ended => AtPc(Now)))'
  <2>1. Inv(Now, sides)'
    BY <1>2, <1>5
  <2>2. (pc # Ended => AtPc(Now))'
    BY <1>2, <1>4, <1>5
  <2> QED BY <2>1, <2>2
<1> QED BY <1>5, <1>6 DEF SymexInv

(* A handler that keeps the invariant of its configuration keeps that of   *)
(* the state.                                                              *)
LEMMA KeptBecome ==
  ASSUME Facts, NEW c, Become(c), Kept(c)
  PROVE  SymexInv'
BY BecomeKept DEF Kept

(* Every step preserves the invariant.                                     *)
LEMMA NextInv == SymexInv /\ [Next]_vars => SymexInv'
PROOF
<1> SUFFICES ASSUME SymexInv, [Next]_vars PROVE SymexInv'
  OBVIOUS
<1>1. Facts
  BY DEF SymexInv
<1>2. PICK sides : Inv(Now, sides) /\ (pc # Ended => AtPc(Now))
  BY DEF SymexInv
<1> DEFINE c == Entered
           m == merge_gotos(Now)
           cond == Meaning(c.state, instruction.guard)
<1>3. ASSUME pc # Ended PROVE Ready(m, sides) /\ Ready(c, sides)
  BY <1>2, <1>3, EnteredReady
<1>4. ASSUME pc # Ended PROVE IsConfig(c)
  BY <1>3, <1>4 DEF Ready, Inv
<1>5. ASSUME NEW d, Become(d), Kept(d) PROVE SymexInv'
  BY <1>1, <1>5, KeptBecome
<1> HIDE DEF c, m, cond
<1>6. CASE SkipInductive
  <2>1. pc # Ended /\ Inductive /\ Become(NextPc(m))
    BY <1>6 DEF SkipInductive, m
  <2>2. Ready(m, sides)
    BY <1>3, <2>1
  <2>3. instruction.type # "END_FUNCTION"
    <3>1. pc \in Location(goto_functions)
      BY <1>1, <2>2, HereFacts
    <3> QED BY <1>1, <2>1, <3>1 DEF Facts, Inductive, instruction
  <2>4. Kept(NextPc(m))
    BY <1>1, <2>2, <2>3, NextKept
  <2> QED BY <1>5, <2>1, <2>4
<1>7. CASE Unreachable
  <2>1. pc # Ended /\ instruction.type # "END_FUNCTION" /\ Become(NextPc(c))
    BY <1>7 DEF Unreachable, Step, c
  <2>2. Kept(NextPc(c))
    BY <1>1, <1>3, <2>1, NextKept
  <2> QED BY <1>5, <2>1, <2>2
<1>8. CASE GotoStep
  <2>1. pc # Ended /\ instruction.type = "GOTO" /\ Become(symex_goto(c))
    BY <1>8 DEF GotoStep, Step, c
  <2>2. Kept(symex_goto(c))
    BY <1>1, <1>3, <2>1, GotoKept
  <2> QED BY <1>5, <2>1, <2>2
<1>9. CASE AssumeStep
  <2>1. pc # Ended /\ instruction.type = "ASSUME" /\ Become(NextPc(assume(c, cond)))
    BY <1>9 DEF AssumeStep, Live, Step, c, cond
  <2>2. Ready(assume(c, cond), sides)
    BY <1>3, <1>4, <2>1, AssumeRecords, RecordsReady
  <2>3. Kept(NextPc(assume(c, cond)))
    BY <1>1, <2>1, <2>2, NextKept
  <2> QED BY <1>5, <2>1, <2>3
<1>10. CASE AssertStep
  <2> DEFINE e == IF no_assertions THEN c ELSE claim(c, cond, instruction.id)
  <2>1. pc # Ended /\ instruction.type = "ASSERT" /\ Become(NextPc(e))
    BY <1>10 DEF AssertStep, Live, Step, c, cond
  <2>2. Ready(claim(c, cond, instruction.id), sides)
    BY <1>3, <1>4, <2>1, ClaimFacts, RecordsReady
  <2>3. Ready(e, sides)
    BY <1>3, <2>1, <2>2
  <2> HIDE DEF e
  <2>4. Kept(NextPc(e))
    BY <1>1, <2>1, <2>3, NextKept
  <2> QED BY <1>5, <2>1, <2>4
<1>11. CASE AssignStep
  <2> DEFINE e == symex_assign(c, instruction.x, instruction.e)
  <2>1. pc # Ended /\ instruction.type = "ASSIGN" /\ Become(NextPc(e))
    BY <1>11 DEF AssignStep, Live, Step, c
  <2>2. instruction.x \in Vars /\ "guard" \notin Vars
    BY <1>1, <1>3, <2>1, HereFacts, ProgramAssumption
  <2>3. Records(c, e)
    BY <1>4, <2>1, <2>2, SymexAssignRecords
  <2> HIDE DEF e
  <2>4. Ready(e, sides)
    BY <1>3, <2>1, <2>3, RecordsReady
  <2>5. Kept(NextPc(e))
    BY <1>1, <2>1, <2>4, NextKept
  <2> QED BY <1>5, <2>1, <2>5
<1>12. CASE CallStep
  <2>1. pc # Ended /\ instruction.type = "FUNCTION_CALL" /\ Become(symex_function_call(c))
    BY <1>12 DEF CallStep, Live, Step, c
  <2>2. Kept(symex_function_call(c))
    BY <1>1, <1>3, <2>1, FunctionCallKept
  <2> QED BY <1>5, <2>1, <2>2
<1>13. CASE ReturnStep
  <2>1. pc # Ended /\ instruction.type = "RETURN" /\ Become(NextPc(symex_return(c)))
    BY <1>13 DEF ReturnStep, Live, Step, c
  <2>2. Kept(NextPc(symex_return(c)))
    BY <1>1, <1>3, <2>1, ReturnReady, NextKept
  <2> QED BY <1>5, <2>1, <2>2
<1>14. CASE EndOfFunction
  <2>1. /\ pc # Ended /\ instruction.type = "END_FUNCTION" /\ pc[1] # Main
        /\ Become(NextPc(pop_frame(c)))
    BY <1>14 DEF EndOfFunction, Step, c
  <2>2. Kept(NextPc(pop_frame(c)))
    BY <1>1, <1>3, <2>1, PopKept
  <2> QED BY <1>5, <2>1, <2>2
<1>15. CASE EndOfMain
  <2> DEFINE a == assume_false(c)
             d == Goto(a, Ended)
  <2>1. pc # Ended /\ Become(d)
    BY <1>15 DEF EndOfMain, Step, c
  <2>2. Inv(a, sides)
    BY <1>3, <2>1, AssumeFalseKeeps DEF Ready
  <2> HIDE DEF a
  <2>3. Inv(d, sides) /\ d.state.pc = Ended
    BY <2>2, GotoKeeps
  <2> HIDE DEF d
  <2> QED BY <1>1, <2>1, <2>3, BecomeKept
<1>16. CASE UNCHANGED vars
  <2>1. /\ UNCHANGED <<program, goto_functions>>
        /\ Now' = Now /\ pc' = pc
    BY <1>16 DEF vars, Now, pc
  <2>2. PICK d : d = Now
    OBVIOUS
  <2>3. Facts' /\ Inv(d, sides)' /\ (AtPc(d) => AtPc(d)')
    BY <1>1, <1>2, <2>1, <2>2, Unchanged
  <2>4. Inv(Now, sides)' /\ (pc # Ended => AtPc(Now))'
    BY <1>2, <2>1, <2>2, <2>3
  <2> QED BY <2>3, <2>4 DEF SymexInv
<1>17. CASE Terminating
  BY <1>16, <1>17 DEF Terminating
<1> QED BY <1>6, <1>7, <1>8, <1>9, <1>10, <1>11, <1>12, <1>13, <1>14, <1>15, <1>16, <1>17 DEF Next

(* The inductive invariant: names below the counters, what was put aside   *)
(* ahead of control, and in every frame each input on one path             *)
(* (execution_state.cpp, symex_goto.cpp, symex_function.cpp).              *)
THEOREM SymexInvariant == Spec => []SymexInv
PROOF
<1> QED BY InitInv, NextInv, PTL DEF Spec

(* Every symbol of the equation has one assignment, whatever is merged,    *)
(* havocked or returned on the way (renaming.cpp:293-317,                  *)
(* symex_goto.cpp:311-403).                                                *)
THEOREM SymbolsAssignedOnceTheorem == Spec => []SymbolsAssignedOnce
PROOF
<1>1. SymexInv => SymbolsAssignedOnce
  BY DEF SymexInv, Inv, NamesInv, AssignedOnce, SymbolsAssignedOnce, Now
<1> QED BY <1>1, SymexInvariant, PTL

(* In each active function an input takes exactly one path, unless an      *)
(* assumption or the unwinding bound has cut it off                        *)
(* (symex_goto.cpp:15-286, guard.cpp:120-199).                             *)
THEOREM OnePathPerInputTheorem == Spec => []OnePathPerInput
PROOF
<1>1. SymexInv => OnePathPerInput
  <2> SUFFICES ASSUME SymexInv PROVE OnePathPerInput
    OBVIOUS
  <2> DEFINE stack == cur_state.call_stack
  <2>1. PICK sides : Inv(Now, sides)
    BY DEF SymexInv
  <2>2. StackOK(stack, sides) /\ PathsOK(stack, cur_state.guard, CutBy(SSA_steps))
    BY <2>1 DEF Inv, ControlInv, Now
  <2>3. DOMAIN stack = 1 .. Len(stack)
    BY <2>2, LenProperties DEF StackOK, IsSeq
  <2>4. Cut = CutBy(SSA_steps)
    BY DEF Cut, CutBy
  <2> QED
    <3> SUFFICES ASSUME NEW n \in DOMAIN stack
                 PROVE  LET f == stack[n]
                            here == Here(stack, cur_state.guard, n)
                        IN  /\ \A q \in Queued(f) : DenOf(f, q) \cap Den(here) = {}
                            /\ \A q, r \in Queued(f) : q # r => DenOf(f, q) \cap DenOf(f, r) = {}
                            /\ Den(f.entry_guard) \ Cut
                                 \subseteq Den(here) \cup UNION {DenOf(f, q) : q \in Queued(f)}
      BY DEF OnePathPerInput, Here, Queued, DenOf
    <3>1. Split(stack[n], Den(Here(stack, cur_state.guard, n)), CutBy(SSA_steps))
      BY <2>2, <2>3 DEF PathsOK
    <3> QED BY <2>4, <3>1 DEF Split
<1> QED BY <1>1, SymexInvariant, PTL

-----------------------------------------------------------------------------
(* What names were given out stays given out.                              *)

(* In every guard, state put aside and frame.                              *)
LEMMA NamedStays ==
  ASSUME NEW a, NEW b, NoFewer(a, b)
  PROVE  /\ \A s : Named(a, s) => Named(b, s)
         /\ \A g : GuardNamed(a, g) => GuardNamed(b, g)
         /\ \A q : QueuedNamed(a, q) => QueuedNamed(b, q)
         /\ \A f : FrameNamed(a, f) => FrameNamed(b, f)
         /\ \A s : StackNamed(a, s) => StackNamed(b, s)
         /\ \A s : StepsNamed(a, s) => StepsNamed(b, s)
PROOF
<1>1. ASSUME NEW s, Named(a, s) PROVE Named(b, s)
  <2>1. CASE \E x \in Vars, k \in Nat : s = <<x, k>> /\ k <= a.level2[x].num
    BY <2>1 DEF Named, Taken, NoFewer
  <2>2. CASE \E k \in Nat : s = <<"guard", k>> /\ k <= a.guards
    BY <2>2 DEF Named, Taken, NoFewer
  <2>3. CASE s[1] = "nondet"
    BY <2>3 DEF Named
  <2> QED BY <1>1, <2>1, <2>2, <2>3 DEF Named, Taken
<1>2. ASSUME NEW g, GuardNamed(a, g) PROVE GuardNamed(b, g)
  BY <1>1, <1>2 DEF GuardNamed
<1>3. ASSUME NEW q, QueuedNamed(a, q) PROVE QueuedNamed(b, q)
  <2>1. GuardNamed(b, q.guard)
    BY <1>2, <1>3 DEF QueuedNamed
  <2>2. \A x \in Vars : q.level2[x].num \in Nat /\ q.level2[x].num <= b.level2[x].num
    BY <1>3 DEF QueuedNamed, NoFewer
  <2> QED BY <2>1, <2>2 DEF QueuedNamed
<1>4. ASSUME NEW f, FrameNamed(a, f) PROVE FrameNamed(b, f)
  BY <1>2, <1>3, <1>4 DEF FrameNamed
<1>5. ASSUME NEW s, StackNamed(a, s) PROVE StackNamed(b, s)
  BY <1>4, <1>5 DEF StackNamed
<1>6. ASSUME NEW s, StepsNamed(a, s) PROVE StepsNamed(b, s)
  BY <1>1, <1>6 DEF StepsNamed
<1> QED BY <1>1, <1>2, <1>3, <1>4, <1>5, <1>6

(* Counters that stay as they are, and one after the other.                *)
LEMMA NoFewerReflexive ==
  ASSUME NEW c, NamesInv(c), NEW d, d.state.level2 = c.state.level2, d.state.guards = c.state.guards
  PROVE  NoFewer(c.state, d.state)
BY DEF NoFewer, NamesInv

LEMMA NoFewerTransitive ==
  ASSUME NEW a, NEW b, NEW c, NoFewer(a, b), NoFewer(b, c)
  PROVE  NoFewer(a, c)
BY DEF NoFewer

(* No step and no name.                                                    *)
LEMMA SilentSyms ==
  ASSUME NEW c, SymsInv(c), NEW d, IsConfig(d),
         d.state.level2 = c.state.level2, d.state.guards = c.state.guards, d.steps = c.steps,
         GuardNamed(c.state, d.state.guard), StackNamed(c.state, d.state.call_stack)
  PROVE  SymsInv(d) /\ NoFewer(c.state, d.state)
PROOF
<1>1. NoFewer(c.state, d.state)
  BY NoFewerReflexive DEF SymsInv
<1>2. NamesInv(d)
  BY GrowsReflexive DEF Grows, SymsInv
<1>3. /\ StepsOK(d.steps) /\ StepsNamed(d.state, d.steps) /\ GuardNamed(d.state, d.state.guard)
      /\ StackNamed(d.state, d.state.call_stack)
  BY <1>1, NamedStays DEF SymsInv
<1> QED BY <1>1, <1>2, <1>3 DEF SymsInv

(* A step that names what may be named, and assigns what may not.          *)
LEMMA StepSyms ==
  ASSUME NEW c, SymsInv(c), NEW d, IsConfig(d), NamesInv(d), NoFewer(c.state, d.state),
         NEW step, StepOK(step), d.steps = Append(c.steps, step),
         \A s \in step.syms : Named(c.state, s),
         step.type = "ASSIGNMENT" => ~Named(c.state, step.lhs),
         GuardNamed(d.state, d.state.guard), StackNamed(d.state, d.state.call_stack)
  PROVE  SymsInv(d)
PROOF
<1> DEFINE s == c.steps
           t == d.steps
<1>1. /\ Len(s) \in Nat /\ DOMAIN s = 1 .. Len(s) /\ DOMAIN t = 1 .. Len(s) + 1
      /\ t[Len(s) + 1] = step /\ \A n \in 1 .. Len(s) : t[n] = s[n]
  BY AppendStep DEF SymsInv, NamesInv
<1>2. StepsOK(s) /\ StepsNamed(c.state, s) /\ AssignedFirst(s)
  BY DEF SymsInv
<1> HIDE DEF s, t
<1>3. ASSUME NEW n \in DOMAIN t, NEW x \in t[n].syms PROVE Named(c.state, x)
  <2>1. CASE n = Len(s) + 1
    BY <1>1, <1>3, <2>1
  <2>2. CASE n # Len(s) + 1
    <3>1. n \in DOMAIN s /\ t[n] = s[n]
      BY <1>1, <2>2
    <3> QED BY <1>2, <1>3, <3>1 DEF StepsNamed
  <2> QED BY <2>1, <2>2
<1>4. StepsNamed(d.state, t)
  BY <1>3, NamedStays DEF StepsNamed
<1>5. AssignedFirst(t)
  <2> SUFFICES ASSUME NEW m \in DOMAIN t, NEW n \in DOMAIN t, n <= m, t[m].type = "ASSIGNMENT",
                      t[m].lhs \in t[n].syms
               PROVE  FALSE
    BY DEF AssignedFirst
  <2>1. CASE m = Len(s) + 1
    BY <1>1, <1>3, <2>1
  <2>2. CASE m # Len(s) + 1
    <3>1. m \in DOMAIN s /\ t[m] = s[m] /\ n \in DOMAIN s /\ t[n] = s[n]
      BY <1>1, <2>2
    <3> QED BY <1>2, <3>1 DEF AssignedFirst
  <2> QED BY <2>1, <2>2
<1>6. StepsOK(t)
  <2> SUFFICES ASSUME NEW n \in DOMAIN t PROVE StepOK(t[n])
    BY DEF StepsOK
  <2>1. CASE n = Len(s) + 1
    BY <1>1, <2>1
  <2>2. CASE n # Len(s) + 1
    <3>1. n \in DOMAIN s /\ t[n] = s[n]
      BY <1>1, <2>2
    <3> QED BY <1>2, <3>1 DEF StepsOK
  <2> QED BY <2>1, <2>2
<1> QED BY <1>4, <1>5, <1>6 DEF SymsInv, t

-----------------------------------------------------------------------------
(* What guards, conditions and values name.                                *)

(* The operators on guards name nothing new.                               *)
LEMMA GuardSyms ==
  ASSUME NEW g, NEW h, NEW e
  PROVE  /\ Syms(add(g, e)) \subseteq Syms(g) \cup e.syms
         /\ Syms(make_false(g)) = {}
         /\ Syms(Or(g, h)) \subseteq Syms(g) \cup Syms(h)
         /\ Syms(Minus(g, h)) \subseteq Syms(g)
         /\ Syms(TrueGuard) = {}
PROOF
<1>1. Syms(FalseGuard) = {}
  BY DEF Syms, FalseGuard, False
<1>2. Syms(g \cup {e}) \subseteq Syms(g) \cup e.syms
  BY DEF Syms
<1>3. Syms(add(g, e)) \subseteq Syms(g) \cup e.syms
  BY <1>1, <1>2 DEF add
<1>4. make_false(g) = FalseGuard
  BY DEF make_false, add, is_false, FalseGuard, False
<1>5. ASSUME NEW a, NEW b PROVE Syms(Either(a, b)) \subseteq Syms(a) \cup Syms(b)
  <2>1. Either(a, b) = {} \/ Either(a, b) = {Condition(Den(a) \cup Den(b), Syms(a) \cup Syms(b))}
    BY Zenon DEF Either
  <2>2. Condition(Den(a) \cup Den(b), Syms(a) \cup Syms(b)).syms = Syms(a) \cup Syms(b)
    BY DEF Condition
  <2>3. Syms({}) = {}
    BY DEF Syms
  <2>4. \A x : Syms({x}) = x.syms
    BY DEF Syms
  <2> QED BY <2>1, <2>2, <2>3, <2>4
<1>6. Syms(Or(g, h)) \subseteq Syms(g) \cup Syms(h)
  <2>1. \/ Or(g, h) = g \/ Or(g, h) = h
        \/ Or(g, h) = (g \cap h) \cup Either(g \ h, h \ g)
    BY DEF Or
  <2>2. Syms(g \ h) \subseteq Syms(g) /\ Syms(h \ g) \subseteq Syms(h) /\ Syms(g \cap h) \subseteq Syms(g)
    BY DEF Syms
  <2>3. \A a, b : Syms(a \cup b) = Syms(a) \cup Syms(b)
    BY DEF Syms
  <2>4. Syms(Either(g \ h, h \ g)) \subseteq Syms(g \ h) \cup Syms(h \ g)
    BY <1>5
  <2>5. Syms((g \cap h) \cup Either(g \ h, h \ g)) \subseteq Syms(g) \cup Syms(h)
    <3>1. Syms((g \cap h) \cup Either(g \ h, h \ g)) = Syms(g \cap h) \cup Syms(Either(g \ h, h \ g))
      BY <2>3
    <3> QED BY ONLY <2>2, <2>4, <3>1
  <2> QED BY <2>1, <2>5
<1>7. Syms(Minus(g, h)) \subseteq Syms(g) /\ Syms(TrueGuard) = {}
  BY DEF Syms, Minus, TrueGuard
<1> QED BY <1>1, <1>3, <1>4, <1>6, <1>7

(* The name of a variable, now or when a state was put aside.              *)
LEMMA SymbolNamed ==
  ASSUME NEW state, NEW level2, NEW x \in Vars,
         level2[x].num \in Nat, level2[x].num <= state.level2[x].num
  PROVE  \A s \in Symbol(level2, x).syms : Named(state, s)
BY DEF Symbol, Named, Taken

(* The value of an expression.                                             *)
LEMMA RenameNamed ==
  ASSUME NEW c, NamesInv(c), NEW e, ExprOK(e)
  PROVE  \A s \in rename(c.state, e).syms : Named(c.state, s)
PROOF
<1>1. ASSUME NEW x \in Vars PROVE \A s \in Symbol(c.state.level2, x).syms : Named(c.state, s)
  <2>1. c.state.level2[x].num \in Nat /\ c.state.level2[x].num <= c.state.level2[x].num
    BY DEF NamesInv
  <2> QED BY <2>1, SymbolNamed
<1>2. CASE e.op = "const"
  BY <1>2 DEF rename, Constant
<1>3. CASE e.op = "var"
  <2>1. e.x \in Vars
    BY <1>3 DEF ExprOK, ExprVars
  <2>2. rename(c.state, e) = Symbol(c.state.level2, e.x)
    BY <1>3 DEF rename
  <2> QED BY <1>1, <2>1, <2>2
<1>4. CASE e.op = "plus"
  <2> DEFINE v == Symbol(c.state.level2, e.x)
  <2>1. e.x \in Vars
    BY <1>4 DEF ExprOK, ExprVars
  <2>2. rename(c.state, e) = [v EXCEPT !.val = [w \in World |-> Wrap(@[w] + e.c)]]
    BY <1>4 DEF rename
  <2>3. rename(c.state, e).syms = v.syms
    BY <2>2 DEF Symbol
  <2> QED BY <1>1, <2>1, <2>3
<1>5. CASE e.op = "nondet"
  <2>1. rename(c.state, e).syms = {<<"nondet", c.state.nondets>>}
    BY <1>5 DEF rename, Input
  <2> QED BY <2>1 DEF Named
<1> QED BY <1>2, <1>3, <1>4, <1>5 DEF ExprOK

(* A condition.                                                            *)
LEMMA MeaningNamed ==
  ASSUME NEW c, NamesInv(c), NEW g, GuardVars(g) \subseteq Vars
  PROVE  \A s \in Meaning(c.state, g).syms : Named(c.state, s)
PROOF
<1>1. ASSUME NEW x \in Vars PROVE \A s \in Symbol(c.state.level2, x).syms : Named(c.state, s)
  <2>1. c.state.level2[x].num \in Nat /\ c.state.level2[x].num <= c.state.level2[x].num
    BY DEF NamesInv
  <2> QED BY <2>1, SymbolNamed
<1>2. Meaning(c.state, g).syms = UNION {y.syms : y \in {Symbol(c.state.level2, x) : x \in GuardVars(g)}}
  BY DEF Meaning
<1> QED BY <1>1, <1>2

(* A value that depends on a condition.                                    *)
LEMMA IfSyms ==
  ASSUME NEW g, NEW a, NEW b
  PROVE  If(g, a, b).syms \subseteq Syms(g) \cup a.syms \cup b.syms
BY DEF If

-----------------------------------------------------------------------------
(* The handlers that append to the equation.                               *)

LEMMA CarriedReflexive ==
  ASSUME NEW c, SymsInv(c)
  PROVE  Carried(c, c)
BY NoFewerReflexive DEF Carried, SymsInv

LEMMA CarriedTransitive ==
  ASSUME NEW a, NEW b, NEW c, Carried(a, b), Carried(b, c)
  PROVE  Carried(a, c)
BY NoFewerTransitive DEF Carried

(* Another guard, of symbols that have names.                              *)
LEMMA SetGuardCarried ==
  ASSUME NEW c, SymsInv(c), NEW g, GuardNamed(c.state, g)
  PROVE  Carried(c, [c EXCEPT !.state.guard = g])
PROOF
<1> DEFINE d == [c EXCEPT !.state.guard = g]
<1>1. /\ IsConfig(d) /\ d.state.guard = g
      /\ d.state.call_stack = c.state.call_stack
      /\ d.state.guards = c.state.guards /\ d.state.level2 = c.state.level2
      /\ d.steps = c.steps
  BY DEF SymsInv, IsConfig, StateFields
<1> HIDE DEF d
<1>2. StackNamed(c.state, c.state.call_stack)
  BY DEF SymsInv
<1>3. SymsInv(d) /\ NoFewer(c.state, d.state)
  BY <1>1, <1>2, SilentSyms
<1> QED BY <1>1, <1>3 DEF Carried, d

(* An assumption or an assertion.                                          *)
LEMMA EmitCarried ==
  ASSUME NEW c, SymsInv(c), NEW step, StepOK(step), step.type # "ASSIGNMENT",
         \A s \in step.syms : Named(c.state, s)
  PROVE  Carried(c, Emit(c, step))
PROOF
<1> DEFINE d == Emit(c, step)
<1>1. IsConfig(d) /\ d.state = c.state /\ d.steps = Append(c.steps, step)
  BY DEF Emit, IsConfig, SymsInv
<1>2. NamesInv(d)
  BY EmitRecords DEF SymsInv, Records, Grows
<1> HIDE DEF d
<1>3. NoFewer(c.state, d.state)
  BY <1>1, NoFewerReflexive DEF SymsInv
<1>4. GuardNamed(d.state, d.state.guard) /\ StackNamed(d.state, d.state.call_stack)
  BY <1>1 DEF SymsInv
<1>5. SymsInv(d)
  BY <1>1, <1>2, <1>3, <1>4, StepSyms
<1> QED BY <1>1, <1>3, <1>5 DEF Carried, d

(* An assignment gives out the next name of the variable, which no step    *)
(* has named.                                                              *)
LEMMA AssignmentCarried ==
  ASSUME NEW c, SymsInv(c), NEW x \in Vars, NEW rhs, \A s \in rhs.syms : Named(c.state, s)
  PROVE  Carried(c, assignment(c, x, rhs))
PROOF
<1> DEFINE num == c.state.level2[x].num + 1
           step == Assignment(<<x, num>>, rhs.syms)
           value == [num |-> num, const |-> rhs.const, val |-> rhs.val]
           d == assignment(c, x, rhs)
<1>0. x # "guard" /\ x # "nondet"
  BY ProgramAssumption
<1>1. /\ IsConfig(d) /\ d.state.guard = c.state.guard /\ d.state.guards = c.state.guards
      /\ d.state.call_stack = c.state.call_stack
      /\ d.steps = Append(c.steps, step)
      /\ d.state.level2 = [c.state.level2 EXCEPT ![x] = value]
  <2> DEFINE e == Emit(c, step)
  <2>1. IsConfig(e) /\ e.state = c.state /\ e.steps = Append(c.steps, step)
    BY DEF Emit, IsConfig, SymsInv
  <2>2. d = [e EXCEPT !.state.level2[x] = value]
    BY DEF assignment
  <2> HIDE DEF e, d, step, value
  <2> QED BY <2>1, <2>2 DEF IsConfig, StateFields
<1>2. step.type = "ASSIGNMENT" /\ step.lhs = <<x, num>> /\ step.syms = rhs.syms /\ StepOK(step)
  BY DEF Assignment, StepOK
<1>3. value.num = num
  OBVIOUS
<1>4. NamesInv(d)
  <2>1. "guard" \notin Vars
    BY ProgramAssumption
  <2> QED BY <2>1, AssignmentRecords DEF SymsInv, Records, Grows
<1> HIDE DEF d, step, value
<1>5. /\ DOMAIN c.state.level2 = Vars /\ \A y \in Vars : c.state.level2[y].num \in Nat
      /\ c.state.guards \in Nat
  BY DEF SymsInv, NamesInv
<1>6. NoFewer(c.state, d.state)
  BY <1>1, <1>3, <1>5 DEF NoFewer
<1>7. ~Named(c.state, <<x, num>>)
  BY <1>0, <1>5 DEF Named, Taken
<1>8. GuardNamed(d.state, d.state.guard) /\ StackNamed(d.state, d.state.call_stack)
  BY <1>1, <1>6, NamedStays DEF SymsInv
<1>9. SymsInv(d)
  <2> HIDE DEF num
  <2> QED BY <1>1, <1>2, <1>4, <1>6, <1>7, <1>8, StepSyms
<1> QED BY <1>1, <1>6, <1>9 DEF Carried, d

(* An assignment of the program, of a new input too.                       *)
LEMMA SymexAssignCarried ==
  ASSUME NEW c, SymsInv(c), NEW x \in Vars, NEW e, ExprOK(e)
  PROVE  Carried(c, symex_assign(c, x, e))
PROOF
<1> DEFINE a == assignment(c, x, rename(c.state, e))
           b == [a EXCEPT !.state.nondets = c.state.nondets + 1]
<1>1. Carried(c, a)
  <2>1. \A s \in rename(c.state, e).syms : Named(c.state, s)
    BY RenameNamed DEF SymsInv
  <2> QED BY <2>1, AssignmentCarried
<1>2. symex_assign(c, x, e) = a \/ symex_assign(c, x, e) = b
  BY DEF symex_assign
<1> HIDE DEF a
<1>3. /\ IsConfig(b) /\ b.state.guard = a.state.guard /\ b.state.guards = a.state.guards
      /\ b.state.call_stack = a.state.call_stack /\ b.steps = a.steps
      /\ b.state.level2 = a.state.level2
  BY <1>1 DEF Carried, SymsInv, IsConfig, StateFields
<1> HIDE DEF b
<1>4. SymsInv(b) /\ NoFewer(a.state, b.state)
  <2>1. SymsInv(a) /\ GuardNamed(a.state, a.state.guard) /\ StackNamed(a.state, a.state.call_stack)
    BY <1>1 DEF Carried, SymsInv
  <2> QED BY <1>3, <2>1, SilentSyms
<1>5. Carried(a, b)
  BY <1>3, <1>4 DEF Carried
<1> QED BY <1>1, <1>2, <1>5, CarriedTransitive

(* An assumption under the guard of the path.                              *)
LEMMA AssumedCarried ==
  ASSUME NEW c, SymsInv(c), NEW cond, \A s \in cond.syms : Named(c.state, s)
  PROVE  Carried(c, Assumed(c, cond)) /\ Carried(c, assume(c, cond))
PROOF
<1> DEFINE step == Assumption(guard_expr(Guard(c), cond.den), Syms(Guard(c)) \cup cond.syms)
<1>1. step.type = "ASSUME" /\ step.syms = Syms(c.state.guard) \cup cond.syms /\ StepOK(step)
  BY DEF Assumption, Guard, StepOK
<1>2. Assumed(c, cond) = Emit(c, step)
  BY DEF Assumed
<1> HIDE DEF step
<1>3. \A s \in step.syms : Named(c.state, s)
  BY <1>1 DEF SymsInv, GuardNamed
<1>4. Carried(c, Emit(c, step))
  BY <1>1, <1>3, EmitCarried
<1> QED BY <1>2, <1>4, CarriedReflexive DEF assume

(* A claim.                                                                *)
LEMMA ClaimCarried ==
  ASSUME NEW c, SymsInv(c), NEW cond, \A s \in cond.syms : Named(c.state, s), NEW msg
  PROVE  Carried(c, claim(c, cond, msg))
PROOF
<1> DEFINE step == Assertion(guard_expr(Guard(c), cond.den), Syms(Guard(c)) \cup cond.syms, msg)
<1>1. step.type = "ASSERT" /\ step.syms = Syms(c.state.guard) \cup cond.syms /\ StepOK(step)
  BY DEF Assertion, Guard, StepOK
<1>2. \/ claim(c, cond, msg) = c
      \/ claim(c, cond, msg) = assume(c, cond)
      \/ claim(c, cond, msg) = Emit(c, step)
  BY DEF claim
<1> HIDE DEF step
<1>3. \A s \in step.syms : Named(c.state, s)
  BY <1>1 DEF SymsInv, GuardNamed
<1>4. Carried(c, Emit(c, step))
  BY <1>1, <1>3, EmitCarried
<1> QED BY <1>2, <1>4, CarriedReflexive, AssumedCarried

(* assume_false.                                                           *)
LEMMA AssumeFalseCarried ==
  ASSUME NEW c, SymsInv(c)
  PROVE  Carried(c, assume_false(c))
PROOF
<1> DEFINE a == Assumed(c, False_)
           g == make_false(Guard(c))
<1>1. assume_false(c) = [a EXCEPT !.state.guard = g]
  BY DEF assume_false
<1>2. Carried(c, a)
  <2>1. False_.syms = {}
    BY DEF False_, True_, Not
  <2> QED BY <2>1, AssumedCarried
<1>3. GuardNamed(a.state, g)
  BY GuardSyms DEF GuardNamed
<1> HIDE DEF a, g
<1>4. Carried(a, [a EXCEPT !.state.guard = g])
  BY <1>2, <1>3, SetGuardCarried DEF Carried
<1> QED BY <1>1, <1>2, <1>4, CarriedTransitive

(* A value returned into the variables of a call.                          *)
LEMMA AssignEachCarried ==
  ASSUME NEW c, SymsInv(c), NEW xs \in SUBSET Vars, NEW e, ExprOK(e)
  PROVE  Carried(c, assign_each(c, xs, e))
PROOF
<1> DEFINE tag == [fold |-> "assign", e |-> e]
           goal == [kind |-> "names", from |-> c]
<1>1. IsFiniteSet(xs)
  BY ProgramAssumption, FS_Subset
<1>2. PICK it : IsFold(tag, c, xs, it) /\ assign_each(c, xs, e) = it[xs]
  BY <1>1, AssignEachIsFold
<1>3. /\ \A s : Fold_pick(tag, s) = CHOOSE x \in s : TRUE
      /\ \A x, d : Fold_op(tag, x, d) = symex_assign(d, x, e)
      /\ \A s, d : Fold_keeps(goal, s, d) <=> Carried(c, d)
  BY DEF Fold_pick, Fold_op, Fold_keeps
<1> HIDE DEF tag, goal
<1>4. \A s \in SUBSET xs : s # {} => Fold_pick(tag, s) \in s
  BY <1>3
<1>5. Fold_keeps(goal, {}, c)
  BY <1>3, CarriedReflexive
<1>6. ASSUME NEW s \in SUBSET xs, NEW d,
             s # {}, Fold_keeps(goal, s \ {Fold_pick(tag, s)}, d)
      PROVE  Fold_keeps(goal, s, Fold_op(tag, Fold_pick(tag, s), d))
  <2> DEFINE x == Fold_pick(tag, s)
  <2>1. x \in Vars
    BY <1>4, <1>6
  <2> HIDE DEF x
  <2>2. Carried(c, d) /\ SymsInv(d)
    BY <1>3, <1>6 DEF Carried
  <2>3. Carried(d, symex_assign(d, x, e))
    BY <2>1, <2>2, SymexAssignCarried
  <2>4. Carried(c, symex_assign(d, x, e))
    BY <2>2, <2>3, CarriedTransitive
  <2> QED BY <1>3, <2>4 DEF x
<1>7. Fold_keeps(goal, xs, it[xs])
  BY <1>1, <1>2, <1>4, <1>5, <1>6, FoldInduction
<1> QED BY <1>2, <1>3, <1>7

(* The variables of a state put aside merged.                              *)
LEMMA PhiFunctionCarried ==
  ASSUME NEW c, SymsInv(c), NEW goto_state, QueuedNamed(c.state, goto_state), NEW merged
  PROVE  Carried(c, phi_function(c, goto_state, merged))
PROOF
<1> DEFINE guard == Minus(goto_state.guard, merged)
           tag == [fold |-> "phi", goto_state |-> goto_state, guard |-> guard]
           goal == [kind |-> "names", from |-> c]
           xs == Changed(c, goto_state)
<1>1. xs \in SUBSET Vars /\ IsFiniteSet(xs) /\ IsFiniteSet(Vars)
  BY ProgramAssumption, FS_Subset DEF Changed
<1>2. PICK it : IsFold(tag, c, xs, it) /\ phi_function(c, goto_state, merged) = it[xs]
  BY <1>1, PhiFunctionIsFold
<1>0. Syms(guard) \subseteq Syms(goto_state.guard)
  BY GuardSyms
<1> HIDE DEF guard, xs
<1>3. /\ \A s : Fold_pick(tag, s) = CHOOSE x \in s : TRUE
      /\ \A x, d : Fold_op(tag, x, d) = phi(goto_state, guard, x, d)
      /\ \A s, d : Fold_keeps(goal, s, d) <=> Carried(c, d)
  BY DEF Fold_pick, Fold_op, Fold_keeps
<1> HIDE DEF tag, goal
<1>4. \A s \in SUBSET xs : s # {} => Fold_pick(tag, s) \in s
  BY <1>3
<1>5. Fold_keeps(goal, {}, c)
  BY <1>3, CarriedReflexive
<1>6. ASSUME NEW s \in SUBSET xs, NEW d,
             s # {}, Fold_keeps(goal, s \ {Fold_pick(tag, s)}, d)
      PROVE  Fold_keeps(goal, s, Fold_op(tag, Fold_pick(tag, s), d))
  <2> DEFINE x == Fold_pick(tag, s)
             rhs == If(guard, Symbol(goto_state.level2, x), Symbol(d.state.level2, x))
  <2>1. x \in Vars
    BY <1>1, <1>4, <1>6
  <2> HIDE DEF x
  <2>2. Carried(c, d) /\ SymsInv(d) /\ NamesInv(d) /\ NoFewer(c.state, d.state)
    BY <1>3, <1>6 DEF Carried, SymsInv
  <2>3. QueuedNamed(d.state, goto_state)
    BY <2>2, NamedStays
  <2>4. \A y \in Syms(guard) : Named(d.state, y)
    BY <1>0, <2>3 DEF QueuedNamed, GuardNamed
  <2>5. \A y \in Symbol(goto_state.level2, x).syms : Named(d.state, y)
    BY <2>1, <2>3, SymbolNamed DEF QueuedNamed
  <2>6. \A y \in Symbol(d.state.level2, x).syms : Named(d.state, y)
    <3>1. d.state.level2[x].num \in Nat /\ d.state.level2[x].num <= d.state.level2[x].num
      BY <2>1, <2>2 DEF NamesInv
    <3> QED BY <2>1, <3>1, SymbolNamed
  <2>7. rhs.syms \subseteq Syms(guard) \cup Symbol(goto_state.level2, x).syms \cup Symbol(d.state.level2, x).syms
    BY IfSyms
  <2>8. phi(goto_state, guard, x, d) = assignment(d, x, rhs)
    BY DEF phi
  <2> HIDE DEF rhs
  <2>9. \A y \in rhs.syms : Named(d.state, y)
    BY <2>4, <2>5, <2>6, <2>7
  <2>10. Carried(d, assignment(d, x, rhs))
    BY <2>1, <2>2, <2>9, AssignmentCarried
  <2>11. Carried(c, phi(goto_state, guard, x, d))
    BY <2>2, <2>8, <2>10, CarriedTransitive
  <2> QED BY <1>3, <2>11 DEF x
<1>7. Fold_keeps(goal, xs, it[xs])
  BY <1>1, <1>2, <1>4, <1>5, <1>6, FoldInduction
<1> QED BY <1>2, <1>3, <1>7

(* One state merged.                                                       *)
LEMMA MergeGotoCarried ==
  ASSUME NEW c, SymsInv(c), NEW goto_state, QueuedNamed(c.state, goto_state)
  PROVE  Carried(c, merge_goto(goto_state, c))
PROOF
<1> DEFINE new_guard == Or(c.state.guard, goto_state.guard)
           after == IF is_false(goto_state.guard) THEN c ELSE phi_function(c, goto_state, new_guard)
<1>1. merge_goto(goto_state, c) = [after EXCEPT !.state.guard = new_guard]
  BY DEF merge_goto, merge_state_guards, Guard
<1>2. Carried(c, after)
  BY CarriedReflexive, PhiFunctionCarried
<1>3. GuardNamed(c.state, new_guard)
  BY GuardSyms DEF GuardNamed, SymsInv, QueuedNamed
<1> HIDE DEF after, new_guard
<1>4. GuardNamed(after.state, new_guard)
  BY <1>2, <1>3, NamedStays DEF Carried
<1>5. Carried(after, [after EXCEPT !.state.guard = new_guard])
  BY <1>2, <1>4, SetGuardCarried DEF Carried
<1> QED BY <1>1, <1>2, <1>5, CarriedTransitive

(* All states of a list merged.                                            *)
LEMMA MergeAllCarried ==
  ASSUME NEW c, SymsInv(c), NEW list, NEW n \in Nat, DOMAIN list = 1 .. n,
         \A i \in 1 .. n : QueuedNamed(c.state, list[i])
  PROVE  Carried(c, FoldRight(merge_goto, list, c))
PROOF
<1> DEFINE tag == [fold |-> "merge", list |-> list]
           goal == [kind |-> "names", from |-> c]
           S == 1 .. n
<1>1. IsFiniteSet(S)
  BY FS_Interval
<1>2. PICK it : IsFold(tag, c, S, it) /\ FoldRight(merge_goto, list, c) = it[S]
  BY MergesAreFold
<1>3. /\ \A s : Fold_pick(tag, s) = Min(s)
      /\ \A x, d : Fold_op(tag, x, d) = merge_goto(list[x], d)
      /\ \A s, d : Fold_keeps(goal, s, d) <=> Carried(c, d)
  BY DEF Fold_pick, Fold_op, Fold_keeps
<1> HIDE DEF tag, goal
<1>4. \A s \in SUBSET S : s # {} => Fold_pick(tag, s) \in s
  BY <1>3, MinProperties
<1>5. Fold_keeps(goal, {}, c)
  BY <1>3, CarriedReflexive
<1>6. ASSUME NEW s \in SUBSET S, NEW d,
             s # {}, Fold_keeps(goal, s \ {Fold_pick(tag, s)}, d)
      PROVE  Fold_keeps(goal, s, Fold_op(tag, Fold_pick(tag, s), d))
  <2> DEFINE x == Fold_pick(tag, s)
  <2>1. x \in S
    BY <1>4, <1>6
  <2> HIDE DEF x
  <2>2. Carried(c, d) /\ SymsInv(d) /\ NoFewer(c.state, d.state)
    BY <1>3, <1>6 DEF Carried
  <2>3. QueuedNamed(d.state, list[x])
    BY <2>1, <2>2, NamedStays
  <2>4. Carried(d, merge_goto(list[x], d))
    BY <2>2, <2>3, MergeGotoCarried
  <2>5. Carried(c, merge_goto(list[x], d))
    BY <2>2, <2>4, CarriedTransitive
  <2> QED BY <1>3, <2>5 DEF x
<1>7. Fold_keeps(goal, S, it[S])
  BY <1>1, <1>2, <1>4, <1>5, <1>6, FoldInduction
<1> QED BY <1>2, <1>3, <1>7

-----------------------------------------------------------------------------
(* The handlers that change the call stack.                                *)

(* A frame with one more state put aside.                                  *)
LEMMA WithStateNamed ==
  ASSUME NEW state, NEW f, NEW sides, FrameOK(f, sides), FrameNamed(state, f),
         NEW l, NEW q, QueuedNamed(state, q)
  PROVE  FrameNamed(state, WithState(f, l, q))
PROOF
<1> DEFINE map == f.goto_state_map
           list == IF l \in DOMAIN map THEN map[l] ELSE <<>>
           longer == Append(list, q)
           more == [m \in DOMAIN map \cup {l} |-> IF m = l THEN longer ELSE map[m]]
           g == WithState(f, l, q)
<1>1. IsSeq(list) /\ \A i \in DOMAIN list : QueuedNamed(state, list[i])
  <2>1. CASE l \in DOMAIN map
    BY <2>1 DEF FrameOK, FrameNamed
  <2>2. CASE l \notin DOMAIN map
    <3>1. IsSeq(<<>>) /\ DOMAIN <<>> = {}
      BY DEF IsSeq
    <3> QED BY <2>2, <3>1
  <2> QED BY <2>1, <2>2
<1>2. g = [f EXCEPT !.goto_state_map = more]
  BY DEF WithState
<1> HIDE DEF list
<1>3. /\ Len(list) \in Nat /\ DOMAIN list = 1 .. Len(list)
      /\ DOMAIN longer = 1 .. Len(list) + 1
      /\ longer[Len(list) + 1] = q
      /\ \A i \in 1 .. Len(list) : longer[i] = list[i]
  BY <1>1, AppendStep
<1> HIDE DEF longer
<1>4. /\ DOMAIN more = DOMAIN map \cup {l} /\ more[l] = longer
      /\ \A m \in DOMAIN map : m # l => more[m] = map[m]
  OBVIOUS
<1> HIDE DEF more
<1>5. g.goto_state_map = more /\ g.entry_guard = f.entry_guard
  BY <1>2 DEF FrameOK, FrameFields
<1> HIDE DEF g
<1>6. \A i \in DOMAIN longer : QueuedNamed(state, longer[i])
  BY <1>1, <1>3
<1>7. ASSUME NEW m \in DOMAIN more, NEW i \in DOMAIN more[m] PROVE QueuedNamed(state, more[m][i])
  <2>1. CASE m = l
    BY <1>4, <1>6, <1>7, <2>1
  <2>2. CASE m # l
    BY <1>4, <1>7, <2>2 DEF FrameNamed
  <2> QED BY <2>1, <2>2
<1> QED BY <1>5, <1>7 DEF FrameNamed, g

(* A stack with another frame on top.                                      *)
LEMMA TopNamed ==
  ASSUME NEW state, NEW stack, NEW sides, StackOK(stack, sides), StackNamed(state, stack),
         NEW f, FrameNamed(state, f)
  PROVE  StackNamed(state, [stack EXCEPT ![Len(stack)] = f])
BY DEF StackNamed

(* The stack after a state was put aside.                                  *)
LEMMA StackWithNamed ==
  ASSUME NEW state, NEW c, NEW sides, StackOK(c.state.call_stack, sides),
         StackNamed(state, c.state.call_stack), NEW l, NEW guard, GuardNamed(state, guard),
         \A x \in Vars : /\ c.state.level2[x].num \in Nat
                        /\ c.state.level2[x].num <= state.level2[x].num
  PROVE  StackNamed(state, StackWith(c, l, guard))
PROOF
<1> DEFINE q == [guard |-> guard, level2 |-> c.state.level2]
           f == top(c.state)
<1>1. QueuedNamed(state, q)
  BY DEF QueuedNamed
<1>2. FrameOK(f, sides) /\ FrameNamed(state, f)
  BY TopFrame DEF StackNamed, top
<1> HIDE DEF f, q
<1>3. FrameNamed(state, WithState(f, l, q))
  BY <1>1, <1>2, WithStateNamed
<1>4. StackWith(c, l, guard) = [c.state.call_stack EXCEPT ![Len(c.state.call_stack)] = WithState(f, l, q)]
  BY DEF StackWith, f, q
<1> QED BY <1>3, <1>4, TopNamed

(* A state put aside.                                                      *)
LEMMA QueueSyms ==
  ASSUME NEW c, SymsInv(c), NEW sides, StackOK(c.state.call_stack, sides),
         NEW l, NEW guard, GuardNamed(c.state, guard)
  PROVE  SymsInv(Queue(c, l, guard)) /\ NoFewer(c.state, Queue(c, l, guard).state)
PROOF
<1> DEFINE d == Queue(c, l, guard)
<1>1. /\ IsConfig(d) /\ d.state.guard = c.state.guard
      /\ d.state.level2 = c.state.level2 /\ d.state.guards = c.state.guards
      /\ d.steps = c.steps /\ d.state.call_stack = StackWith(c, l, guard)
  BY QueueFacts DEF SymsInv
<1> HIDE DEF d
<1>2. StackNamed(c.state, c.state.call_stack) /\ GuardNamed(c.state, c.state.guard)
  BY DEF SymsInv
<1>3. \A x \in Vars : /\ c.state.level2[x].num \in Nat
                     /\ c.state.level2[x].num <= c.state.level2[x].num
  BY DEF SymsInv, NamesInv
<1>4. StackNamed(c.state, d.state.call_stack)
  BY <1>1, <1>2, <1>3, StackWithNamed
<1> QED BY <1>1, <1>2, <1>4, SilentSyms DEF d

(* Control goes elsewhere.                                                 *)
LEMMA GotoSyms ==
  ASSUME NEW c, SymsInv(c), NEW l
  PROVE  SymsInv(Goto(c, l)) /\ SymsInv(NextPc(c))
PROOF
<1>1. ASSUME NEW m PROVE SymsInv(Goto(c, m))
  <2> DEFINE d == Goto(c, m)
  <2>1. /\ IsConfig(d) /\ d.state.guard = c.state.guard
        /\ d.state.level2 = c.state.level2 /\ d.state.guards = c.state.guards
        /\ d.steps = c.steps /\ d.state.call_stack = c.state.call_stack
    BY DEF Goto, SymsInv, IsConfig, StateFields
  <2> HIDE DEF d
  <2>2. StackNamed(c.state, c.state.call_stack) /\ GuardNamed(c.state, c.state.guard)
    BY DEF SymsInv
  <2> QED BY <2>1, <2>2, SilentSyms DEF d
<1> QED BY <1>1 DEF NextPc

(* merge_gotos.                                                            *)
LEMMA MergeGotosSyms ==
  ASSUME NEW c, SymsInv(c), NEW sides, StackOK(c.state.call_stack, sides)
  PROVE  SymsInv(merge_gotos(c))
PROOF
<1> DEFINE stack == c.state.call_stack
           n == Len(stack)
           f == top(c.state)
           pc_ == c.state.pc
           map == f.goto_state_map
           d == merge_gotos(c)
<1>1. FrameOK(f, sides) /\ n \in DOMAIN stack /\ f = stack[n]
  BY TopFrame DEF top
<1>2. FrameNamed(c.state, f)
  BY <1>1 DEF SymsInv, StackNamed
<1>3. CASE pc_ \notin DOMAIN map
  BY <1>3 DEF merge_gotos
<1>4. CASE pc_ \in DOMAIN map
  <2> DEFINE list == map[pc_]
             merged == FoldRight(merge_goto, list, c)
             less == [l \in DOMAIN map \ {pc_} |-> map[l]]
             g == WithoutStates(f, pc_)
             s == [stack EXCEPT ![n] = g]
  <2>1. /\ Len(list) \in Nat /\ DOMAIN list = 1 .. Len(list)
        /\ \A i \in 1 .. Len(list) : QueuedNamed(c.state, list[i])
    <3>1. list \in Seq(Range(list))
      BY <1>1, <1>4 DEF FrameOK, IsSeq
    <3>2. Len(list) \in Nat /\ DOMAIN list = 1 .. Len(list)
      BY <3>1, LenProperties
    <3> QED BY <1>2, <1>4, <3>2 DEF FrameNamed
  <2>2. Carried(c, merged)
    <3> HIDE DEF list
    <3> QED BY <2>1, MergeAllCarried
  <2>3. d = [merged EXCEPT !.state.call_stack[n].goto_state_map = less]
    BY <1>4, Zenon DEF merge_gotos
  <2>4. g = [f EXCEPT !.goto_state_map = less]
    BY DEF WithoutStates
  <2>5. FrameNamed(c.state, g)
    <3>1. /\ g.entry_guard = f.entry_guard
          /\ DOMAIN g.goto_state_map = DOMAIN map \ {pc_}
          /\ \A m \in DOMAIN g.goto_state_map : g.goto_state_map[m] = map[m]
      BY <1>1, WithoutStatesFacts
    <3> HIDE DEF g
    <3> QED BY <1>2, <3>1 DEF FrameNamed
  <2> HIDE DEF g, less, merged, d, list
  <2>6. /\ SymsInv(merged) /\ IsConfig(merged) /\ merged.state.call_stack = stack
        /\ NoFewer(c.state, merged.state)
    BY <2>2 DEF Carried, SymsInv
  <2>7. FrameNamed(merged.state, g) /\ StackNamed(merged.state, stack)
    BY <2>5, <2>6, NamedStays DEF SymsInv
  <2> HIDE DEF f, stack, n
  <2>8. /\ IsConfig(d) /\ d.state.guards = merged.state.guards
        /\ d.state.level2 = merged.state.level2
        /\ d.state.guard = merged.state.guard /\ d.steps = merged.steps
        /\ d.state.call_stack = [stack EXCEPT ![n].goto_state_map = less]
    BY <2>3, <2>6 DEF IsConfig, StateFields
  <2>9. d.state.call_stack = s
    BY <1>1, <2>4, <2>8
  <2>10. StackNamed(merged.state, s)
    <3>1. StackOK(stack, sides)
      BY DEF stack
    <3> QED BY <2>7, <3>1, TopNamed DEF n
  <2>11. GuardNamed(merged.state, merged.state.guard)
    BY <2>6 DEF SymsInv
  <2> QED BY <2>6, <2>8, <2>9, <2>10, <2>11, SilentSyms DEF d
<1> QED BY <1>3, <1>4

(* What every instruction begins with.                                     *)
LEMMA EnteredSyms ==
  ASSUME SymsInv(Now), NEW sides, StackOK(Now.state.call_stack, sides)
  PROVE  SymsInv(merge_gotos(Now)) /\ SymsInv(Entered)
PROOF
<1> DEFINE c == merge_gotos(Now)
           d == [c EXCEPT !.state.first_loop = loop_number(goto_functions, pc)]
<1>1. SymsInv(c)
  BY MergeGotosSyms
<1> HIDE DEF c
<1>2. Entered = c \/ Entered = d
  BY DEF Entered, c
<1>3. /\ IsConfig(d)
      /\ d.state.level2 = c.state.level2 /\ d.state.guards = c.state.guards
      /\ d.state.guard = c.state.guard /\ d.state.call_stack = c.state.call_stack
      /\ d.steps = c.steps
  BY <1>1 DEF SymsInv, IsConfig, StateFields
<1> HIDE DEF d
<1>4. StackNamed(c.state, c.state.call_stack) /\ GuardNamed(c.state, c.state.guard)
  BY <1>1 DEF SymsInv
<1>5. SymsInv(d)
  BY <1>1, <1>3, <1>4, SilentSyms
<1> QED BY <1>1, <1>2, <1>5 DEF c

(* A branch gives out the next guard symbol, and both sides name it.       *)
LEMMA BranchSyms ==
  ASSUME NEW c, SymsInv(c), NEW sides, NEW l, NEW taken_aside, MayBranch(c, sides, l, taken_aside),
         NEW cond, \A s \in cond.syms : Named(c.state, s)
  PROVE  SymsInv(Branch(c, cond, l, taken_aside))
PROOF
<1> DEFINE n == c.state.guards + 1
           symbol == <<"guard", n>>
           taken == Literal(symbol, TRUE, cond.den)
           not_taken == Literal(symbol, FALSE, World \ cond.den)
           aside == add(Guard(c), IF taken_aside THEN taken ELSE not_taken)
           here == add(Guard(c), IF taken_aside THEN not_taken ELSE taken)
           queued == Queue(c, l, aside)
           step == Assignment(symbol, cond.syms)
           emitted == Emit(queued, step)
           d == Branch(c, cond, l, taken_aside)
<1>1. d = [emitted EXCEPT !.state.guards = n, !.state.guard = here]
  BY DEF Branch
<1>2. NamesInv(d)
  BY BranchKeeps DEF Branched, Inv
<1>3. /\ Syms(aside) \subseteq Syms(c.state.guard) \cup {symbol}
      /\ Syms(here) \subseteq Syms(c.state.guard) \cup {symbol}
  <2>1. taken.syms = {symbol} /\ not_taken.syms = {symbol}
    BY DEF Literal
  <2> HIDE DEF taken, not_taken, symbol
  <2> QED BY <2>1, GuardSyms DEF Guard
<1>4. step.type = "ASSIGNMENT" /\ step.lhs = symbol /\ step.syms = cond.syms /\ StepOK(step)
  BY DEF Assignment, StepOK
<1> HIDE DEF step, aside, here
<1>5. /\ IsConfig(c) /\ NamesInv(c) /\ c.state.guards \in Nat
      /\ \A x \in Vars : c.state.level2[x].num \in Nat
      /\ StackNamed(c.state, c.state.call_stack) /\ GuardNamed(c.state, c.state.guard)
  BY DEF SymsInv, NamesInv
<1>6. StackOK(c.state.call_stack, sides)
  BY DEF MayBranch, Inv, ControlInv
<1>7. /\ IsConfig(queued) /\ queued.state.level2 = c.state.level2
      /\ queued.steps = c.steps /\ queued.state.call_stack = StackWith(c, l, aside)
  BY <1>5, QueueFacts
<1> HIDE DEF queued
<1>8. emitted.state = queued.state /\ emitted.steps = Append(c.steps, step) /\ IsConfig(emitted)
  BY <1>7 DEF Emit, IsConfig
<1> HIDE DEF emitted, d
<1>9. /\ IsConfig(d) /\ d.state.guards = n /\ d.state.guard = here
      /\ d.state.level2 = c.state.level2
      /\ d.state.call_stack = StackWith(c, l, aside)
      /\ d.steps = Append(c.steps, step)
  BY <1>1, <1>7, <1>8 DEF IsConfig, StateFields
<1>10. NoFewer(c.state, d.state)
  BY <1>5, <1>9 DEF NoFewer
<1>11. Named(d.state, symbol)
  <2>1. n \in Nat /\ n <= d.state.guards
    BY <1>5, <1>9
  <2>2. Taken(d.state, <<"guard", n>>)
    <3> HIDE DEF n
    <3> QED BY ONLY <2>1, Zenon DEF Taken
  <2> QED BY <2>2 DEF Named
<1>12. GuardNamed(d.state, c.state.guard) /\ StackNamed(d.state, c.state.call_stack)
  BY <1>5, <1>10, NamedStays
<1>13. GuardNamed(d.state, aside) /\ GuardNamed(d.state, here)
  <2> HIDE DEF symbol
  <2> QED BY <1>3, <1>11, <1>12 DEF GuardNamed
<1>14. StackNamed(d.state, StackWith(c, l, aside))
  <2>1. \A x \in Vars : /\ c.state.level2[x].num \in Nat
                       /\ c.state.level2[x].num <= d.state.level2[x].num
    BY <1>5, <1>9
  <2> QED BY <1>6, <1>12, <1>13, <2>1, StackWithNamed
<1>15. ~Named(c.state, symbol)
  BY <1>5, ProgramAssumption DEF Named, Taken
<1> HIDE DEF symbol, n
<1> QED BY <1>2, <1>4, <1>9, <1>10, <1>13, <1>14, <1>15, StepSyms DEF d

-----------------------------------------------------------------------------
(* Jumps, calls and returns.                                               *)

(* Beyond the bound.                                                       *)
LEMMA LoopBoundSyms ==
  ASSUME NEW c, SymsInv(c), NEW cond, \A s \in Not(cond).syms : Named(c.state, s)
  PROVE  SymsInv(loop_bound_exceeded(c, cond))
PROOF
<1> DEFINE checked == IF no_unwinding_assertions THEN Assumed(c, Not(cond)) ELSE claim(c, Not(cond), pc)
           e == Conjunct(Not(cond))
           g == add(Guard(c), e)
           d == [checked EXCEPT !.state.guard = g]
<1>1. loop_bound_exceeded(c, cond) = IF partial_loops THEN c ELSE d
  BY DEF loop_bound_exceeded
<1>2. Carried(c, checked)
  BY AssumedCarried, ClaimCarried
<1>3. e.syms \subseteq Not(cond).syms
  BY DEF Conjunct, False, Condition
<1> HIDE DEF e
<1>4. Syms(g) \subseteq Syms(c.state.guard) \cup e.syms
  BY GuardSyms DEF Guard
<1> HIDE DEF checked, g
<1>5. GuardNamed(c.state, g)
  BY <1>3, <1>4 DEF SymsInv, GuardNamed
<1>6. GuardNamed(checked.state, g)
  BY <1>2, <1>5, NamedStays DEF Carried
<1>7. Carried(checked, d)
  BY <1>2, <1>6, SetGuardCarried DEF Carried
<1> HIDE DEF d
<1> QED BY <1>1, <1>7 DEF Carried

(* The counters of a loop reset.                                           *)
LEMMA LeaveLoopSyms ==
  ASSUME NEW c, SymsInv(c)
  PROVE  SymsInv(LeaveLoop(c))
PROOF
<1> DEFINE d == LeaveLoop(c)
<1>1. /\ IsConfig(d)
      /\ d.state.level2 = c.state.level2 /\ d.state.guards = c.state.guards
      /\ d.state.guard = c.state.guard /\ d.state.call_stack = c.state.call_stack
      /\ d.steps = c.steps
  BY DEF LeaveLoop, SymsInv, IsConfig, StateFields
<1> HIDE DEF d
<1>2. StackNamed(c.state, c.state.call_stack) /\ GuardNamed(c.state, c.state.guard)
  BY DEF SymsInv
<1> QED BY <1>1, <1>2, SilentSyms DEF d

(* A jump forward.                                                         *)
LEMMA JumpForwardSyms ==
  ASSUME Facts, NEW c, NEW sides, Ready(c, sides), SymsInv(c), instruction.type = "GOTO",
         NEW cond, \A s \in cond.syms : Named(c.state, s)
  PROVE  SymsInv(JumpForward(c, cond))
PROOF
<1> DEFINE f == top(c.state).function
           l == Target(goto_functions, pc)
<1>1. l = <<f, l[2]>> /\ l[2] \in 1 .. Len(Body(f))
  <2>1. pc[1] = f /\ instruction.target \in 1 .. Len(Body(f))
    BY HereFacts
  <2> QED BY <2>1 DEF Target, instruction
<1>2. Inv(c, sides) /\ StackOK(c.state.call_stack, sides) /\ GuardNamed(c.state, c.state.guard)
  BY DEF Ready, Inv, ControlInv, SymsInv
<1> HIDE DEF l, f
<1>3. CASE IsTrue(cond)
  <2> DEFINE q == Queue(c, l, Guard(c))
             e == NextPc(q)
             g == make_false(Guard(c))
  <2>1. JumpForward(c, cond) = [e EXCEPT !.state.guard = g]
    BY <1>3 DEF JumpForward, l
  <2>2. SymsInv(q)
    BY <1>2, QueueSyms DEF Guard
  <2> HIDE DEF q
  <2>3. SymsInv(e)
    BY <2>2, GotoSyms
  <2>4. GuardNamed(e.state, g)
    BY GuardSyms DEF GuardNamed
  <2> HIDE DEF e, g
  <2>5. Carried(e, [e EXCEPT !.state.guard = g])
    BY ONLY <2>3, <2>4, SetGuardCarried
  <2> QED BY ONLY <2>1, <2>5 DEF Carried
<1>4. CASE ~IsTrue(cond)
  <2> DEFINE side == TRUE
             b == Branch(c, cond, l, side)
  <2>1. JumpForward(c, cond) = NextPc(b)
    BY <1>4 DEF JumpForward, l
  <2>2. MayBranch(c, sides, l, side)
    BY <1>1, <1>2 DEF MayBranch, f
  <2> HIDE DEF side
  <2>3. SymsInv(b)
    BY <2>2, BranchSyms
  <2> HIDE DEF b
  <2> QED BY <2>1, <2>3, GotoSyms
<1> QED BY <1>3, <1>4

(* A goto to itself.                                                       *)
LEMMA JumpToItselfSyms ==
  ASSUME NEW c, SymsInv(c), NEW cond, \A s \in Not(cond).syms : Named(c.state, s)
  PROVE  SymsInv(JumpToItself(c, cond))
PROOF
<1>1. SymsInv(assume_false(c)) /\ SymsInv(assume(c, Not(cond)))
  BY AssumeFalseCarried, AssumedCarried DEF Carried
<1>2. JumpToItself(c, cond) = NextPc(assume_false(c)) \/ JumpToItself(c, cond) = NextPc(assume(c, Not(cond)))
  BY DEF JumpToItself
<1> QED BY <1>1, <1>2, GotoSyms

(* A jump back.                                                            *)
LEMMA JumpBackSyms ==
  ASSUME Facts, NEW c, NEW sides, Ready(c, sides), SymsInv(c), instruction.type = "GOTO",
         NEW cond, \A s \in cond.syms : Named(c.state, s),
         \A s \in Not(cond).syms : Named(c.state, s)
  PROVE  SymsInv(JumpBack(c, cond))
PROOF
<1> DEFINE f == top(c.state).function
           loop == loop_number(goto_functions, pc)
           unwind == c.state.loop_iterations[loop] + 1
           counted == [c EXCEPT !.state.loop_iterations[loop] = unwind]
           back == Goto(counted, Target(goto_functions, pc))
           aside == Following(pc)
           side == FALSE
<1>1. aside = <<f, aside[2]>> /\ aside[2] \in 1 .. Len(Body(f))
  <2>1. /\ pc[1] = f /\ pc[2] \in 1 .. Len(Body(f)) /\ pc[2] # Len(Body(f))
        /\ Len(Body(f)) \in Nat
    BY HereFacts
  <2> QED BY <2>1 DEF Following
<1>2. \/ JumpBack(c, cond) = NextPc(LeaveLoop(loop_bound_exceeded(counted, cond)))
      \/ JumpBack(c, cond) = back
      \/ JumpBack(c, cond) = Branch(back, cond, aside, side)
  BY DEF JumpBack
<1>3. side \in BOOLEAN
  OBVIOUS
<1> HIDE DEF side, f, unwind, loop, aside
<1>4. /\ IsConfig(counted) /\ counted.state.pc = c.state.pc
      /\ counted.state.level2 = c.state.level2 /\ counted.state.guards = c.state.guards
      /\ counted.state.guard = c.state.guard /\ counted.state.call_stack = c.state.call_stack
      /\ counted.steps = c.steps
  BY DEF SymsInv, IsConfig, StateFields
<1> HIDE DEF counted
<1>5. Ready(counted, sides) /\ top(counted.state) = top(c.state)
  BY <1>4, SilentReady
<1>6. SymsInv(counted) /\ NoFewer(c.state, counted.state)
  <2>1. StackNamed(c.state, c.state.call_stack) /\ GuardNamed(c.state, c.state.guard)
    BY DEF SymsInv
  <2> QED BY <1>4, <2>1, SilentSyms
<1>7. /\ \A s \in cond.syms : Named(counted.state, s)
      /\ \A s \in Not(cond).syms : Named(counted.state, s)
  BY <1>6, NamedStays
<1>8. Inv(back, sides) /\ top(back.state) = top(c.state) /\ SymsInv(back)
  BY <1>5, <1>6, GotoKeeps, GotoSyms DEF Ready
<1>9. \A s \in cond.syms : Named(back.state, s)
  <2>1. NoFewer(counted.state, back.state)
    <3>1. back.state.level2 = counted.state.level2 /\ back.state.guards = counted.state.guards
      BY <1>4 DEF Goto, IsConfig, StateFields
    <3> QED BY <1>6, <3>1, NoFewerReflexive DEF SymsInv
  <2> QED BY <1>7, <2>1, NamedStays
<1> HIDE DEF back
<1>10. SymsInv(NextPc(LeaveLoop(loop_bound_exceeded(counted, cond))))
  BY <1>6, <1>7, LoopBoundSyms, LeaveLoopSyms, GotoSyms
<1>11. SymsInv(Branch(back, cond, aside, side))
  <2>1. MayBranch(back, sides, aside, side)
    BY <1>1, <1>3, <1>8 DEF MayBranch, f
  <2> QED BY <1>8, <1>9, <2>1, BranchSyms
<1> QED BY <1>2, <1>8, <1>10, <1>11

(* A goto of any kind.                                                     *)
LEMMA SymexGotoSyms ==
  ASSUME Facts, NEW c, NEW sides, Ready(c, sides), SymsInv(c), instruction.type = "GOTO"
  PROVE  SymsInv(symex_goto(c))
PROOF
<1> DEFINE cond == Meaning(c.state, instruction.guard)
<1>1. \/ symex_goto(c) = NextPc(LeaveLoop(c))
      \/ symex_goto(c) = NextPc(c)
      \/ symex_goto(c) = JumpForward(c, cond)
      \/ symex_goto(c) = JumpToItself(c, cond)
      \/ symex_goto(c) = JumpBack(c, cond)
  BY DEF symex_goto
<1>2. \A s \in cond.syms : Named(c.state, s)
  <2>1. GuardVars(instruction.guard) \subseteq Vars
    BY HereFacts
  <2> QED BY <2>1, MeaningNamed DEF SymsInv
<1>3. Not(cond).syms = cond.syms
  BY DEF Not, Meaning
<1> HIDE DEF cond
<1>4. SymsInv(NextPc(LeaveLoop(c))) /\ SymsInv(NextPc(c))
  BY LeaveLoopSyms, GotoSyms
<1>5. SymsInv(JumpForward(c, cond)) /\ SymsInv(JumpBack(c, cond))
  BY <1>2, <1>3, JumpForwardSyms, JumpBackSyms
<1>6. SymsInv(JumpToItself(c, cond))
  BY <1>2, <1>3, JumpToItselfSyms
<1> QED BY <1>1, <1>4, <1>5, <1>6

(* A frame is entered with the guard of the path.                          *)
LEMMA CallSyms ==
  ASSUME NEW c, NEW sides, Ready(c, sides), SymsInv(c), NEW f
  PROVE  SymsInv(Call(c, f))
PROOF
<1> DEFINE stack == c.state.call_stack
           new == frame(f, Guard(c), pc, instruction.ret)
           d == Call(c, f)
<1>1. /\ IsConfig(d)
      /\ d.state.level2 = c.state.level2 /\ d.state.guards = c.state.guards
      /\ d.state.guard = c.state.guard
      /\ d.state.call_stack = Append(stack, new)
      /\ d.steps = c.steps
  <2> HIDE DEF stack, new
  <2>1. d = [c EXCEPT !.state.call_stack = Append(stack, new),
                      !.state.function_unwind[f] = c.state.function_unwind[f] + 1,
                      !.state.pc = Begin(f)]
    BY DEF Call, stack, new
  <2> HIDE DEF d
  <2> QED BY <2>1 DEF SymsInv, IsConfig, StateFields
<1>2. new.entry_guard = c.state.guard /\ DOMAIN new.goto_state_map = {}
  BY DEF frame, Guard
<1> HIDE DEF new, d
<1>3. StackNamed(c.state, stack) /\ GuardNamed(c.state, c.state.guard)
  BY DEF SymsInv
<1>4. FrameNamed(c.state, new)
  BY <1>2, <1>3 DEF FrameNamed
<1>5. IsSeq(stack)
  BY DEF Ready, Inv, ControlInv, StackOK
<1> HIDE DEF stack
<1>6. LET s == Append(stack, new)
      IN  /\ Len(stack) \in Nat /\ DOMAIN stack = 1 .. Len(stack) /\ DOMAIN s = 1 .. Len(stack) + 1
          /\ s[Len(stack) + 1] = new /\ \A n \in 1 .. Len(stack) : s[n] = stack[n]
  BY <1>5, AppendStep
<1>7. StackNamed(c.state, Append(stack, new))
  <2> SUFFICES ASSUME NEW n \in DOMAIN Append(stack, new)
               PROVE  FrameNamed(c.state, Append(stack, new)[n])
    BY DEF StackNamed
  <2>1. CASE n = Len(stack) + 1
    BY <1>4, <1>6, <2>1
  <2>2. CASE n # Len(stack) + 1
    <3>1. n \in DOMAIN stack /\ Append(stack, new)[n] = stack[n]
      BY <1>6, <2>2
    <3> QED BY <1>3, <3>1 DEF StackNamed
  <2> QED BY <2>1, <2>2
<1> QED BY <1>1, <1>3, <1>7, SilentSyms DEF d

(* A call of any function.                                                 *)
LEMMA FunctionCallSyms ==
  ASSUME Facts, NEW c, NEW sides, Ready(c, sides), SymsInv(c), instruction.type = "FUNCTION_CALL"
  PROVE  SymsInv(symex_function_call(c))
PROOF
<1> DEFINE f == instruction.function
           e == [op |-> "nondet"]
           assigned == assign_each(c, instruction.ret, e)
<1>1. \/ symex_function_call(c) = NextPc(assigned)
      \/ symex_function_call(c) = Call(c, f)
      \/ symex_function_call(c) = NextPc(Assumed(c, False_))
      \/ symex_function_call(c) = NextPc(claim(c, False_, pc))
  BY DEF symex_function_call
<1>2. instruction.ret \in SUBSET Vars
  BY HereFacts
<1>3. ExprOK(e)
  BY DEF ExprOK, ExprVars
<1> HIDE DEF e
<1>4. SymsInv(assigned)
  BY <1>2, <1>3, AssignEachCarried DEF Carried
<1>5. SymsInv(Assumed(c, False_)) /\ SymsInv(claim(c, False_, pc))
  <2>1. False_.syms = {}
    BY DEF False_, True_, Not
  <2> QED BY <2>1, AssumedCarried, ClaimCarried DEF Carried
<1> HIDE DEF assigned
<1> QED BY <1>1, <1>4, <1>5, GotoSyms, CallSyms

(* A return.                                                               *)
LEMMA ReturnSyms ==
  ASSUME Facts, NEW c, NEW sides, Ready(c, sides), SymsInv(c), instruction.type = "RETURN"
  PROVE  SymsInv(symex_return(c))
PROOF
<1> DEFINE a == assign_each(c, top(c.state).return_value, instruction.e)
           l == EndOf(goto_functions, pc[1])
           q == Queue(a, l, Guard(a))
           g == make_false(Guard(a))
<1>1. symex_return(c) = [q EXCEPT !.state.guard = g]
  BY DEF symex_return
<1>2. top(c.state).return_value \in SUBSET Vars /\ StackOK(c.state.call_stack, sides)
  BY TopFrame DEF Ready, Inv, ControlInv, FrameOK
<1>3. ExprOK(instruction.e)
  BY HereFacts
<1>4. Carried(c, a)
  BY <1>2, <1>3, AssignEachCarried
<1> HIDE DEF a, l
<1>5. SymsInv(a) /\ StackOK(a.state.call_stack, sides) /\ GuardNamed(a.state, Guard(a))
  BY <1>2, <1>4 DEF Carried, SymsInv, Guard
<1>6. SymsInv(q)
  BY <1>5, QueueSyms
<1>7. GuardNamed(q.state, g)
  BY GuardSyms DEF GuardNamed
<1> HIDE DEF q, g
<1>8. Carried(q, [q EXCEPT !.state.guard = g])
  BY ONLY <1>6, <1>7, SetGuardCarried
<1> QED BY ONLY <1>1, <1>8 DEF Carried

(* The end of a function: the guard is what it was at the call.            *)
LEMMA PopSyms ==
  ASSUME NEW c, NEW sides, Ready(c, sides), SymsInv(c)
  PROVE  SymsInv(pop_frame(c))
PROOF
<1> DEFINE stack == c.state.call_stack
           n == Len(stack)
           f == top(c.state)
           s == SubSeq(stack, 1, n - 1)
           l == f.calling_location
           guard == IF is_false(c.state.guard) THEN c.state.guard ELSE f.entry_guard
           d == pop_frame(c)
<1>1. /\ StackOK(stack, sides) /\ StackNamed(c.state, stack) /\ GuardNamed(c.state, c.state.guard)
  BY DEF Ready, Inv, ControlInv, SymsInv
<1>2. n \in DOMAIN stack /\ n \in Nat \ {0} /\ DOMAIN stack = 1 .. n /\ f = stack[n]
  BY <1>1, TopFrame DEF top
<1>3. /\ IsConfig(d)
      /\ d.state.level2 = c.state.level2 /\ d.state.guards = c.state.guards
      /\ d.state.guard = guard
      /\ d.state.call_stack = s
      /\ d.steps = c.steps
  <2> DEFINE e == Goto(c, l)
             m == f.function
             k == c.state.function_unwind[f.function] - 1
  <2>1. /\ IsConfig(e)
        /\ e.state.level2 = c.state.level2 /\ e.state.guards = c.state.guards
        /\ e.steps = c.steps
    BY DEF Goto, SymsInv, IsConfig, StateFields
  <2>2. d = [e EXCEPT !.state.guard = guard,
                      !.state.function_unwind[m] = k,
                      !.state.call_stack = s]
    BY DEF pop_frame, Guard
  <2> HIDE DEF e, d, guard, s, k, m
  <2> QED BY <2>1, <2>2 DEF IsConfig, StateFields
<1>4. GuardNamed(c.state, guard)
  BY <1>1, <1>2 DEF StackNamed, FrameNamed
<1>5. StackNamed(c.state, s)
  <2>1. stack \in Seq(Range(stack))
    BY <1>1 DEF StackOK, IsSeq
  <2> HIDE DEF stack
  <2>2. \A m \in 1 .. n - 1 : stack[m] \in Range(stack)
    BY <1>2 DEF Range
  <2>3. /\ s \in Seq(Range(stack)) /\ Len(s) = n - 1
        /\ \A m \in 1 .. n - 1 : s[m] = stack[m]
    BY <1>2, <2>1, <2>2, SubSeqProperties
  <2>4. DOMAIN s = 1 .. n - 1
    BY <2>3, LenProperties
  <2> HIDE DEF s, n
  <2>5. ASSUME NEW m \in DOMAIN s PROVE FrameNamed(c.state, s[m])
    <3>1. m \in DOMAIN stack /\ s[m] = stack[m]
      BY <1>2, <2>3, <2>4
    <3> QED BY <1>1, <3>1 DEF StackNamed
  <2> QED BY <2>5 DEF StackNamed
<1> HIDE DEF d, s, guard, stack, n, f
<1> QED BY <1>3, <1>4, <1>5, SilentSyms DEF d

-----------------------------------------------------------------------------
(* The specification.                                                      *)

(* The invariant holds at the start.                                       *)
LEMMA InitSyms == Init => SymsInv(Now)
PROOF
<1> SUFFICES ASSUME Init PROVE SymsInv(Now)
  OBVIOUS
<1>1. PICK sides : Inv(Now, sides)
  BY InitInv DEF SymexInv
<1> DEFINE main == frame(Main, TrueGuard, Ended, {})
<1>2. Now.state = cur_state /\ Now.steps = <<>>
  BY DEF Now, Init
<1>3. cur_state.guard = TrueGuard /\ cur_state.call_stack = <<main>>
  BY DEF Init
<1>4. main.entry_guard = TrueGuard /\ DOMAIN main.goto_state_map = {}
  BY DEF frame
<1> HIDE DEF main
<1>5. GuardNamed(cur_state, TrueGuard)
  BY GuardSyms DEF GuardNamed
<1>6. FrameNamed(cur_state, main)
  BY <1>4, <1>5 DEF FrameNamed
<1>7. StackNamed(cur_state, <<main>>)
  BY <1>6 DEF StackNamed
<1>8. StepsOK(<<>>) /\ StepsNamed(cur_state, <<>>) /\ AssignedFirst(<<>>)
  BY DEF StepsOK, StepsNamed, AssignedFirst
<1> QED BY <1>1, <1>2, <1>3, <1>5, <1>7, <1>8 DEF SymsInv, Inv

(* What a handler made of the state.                                       *)
LEMMA BecomeSyms ==
  ASSUME NEW c, Become(c), SymsInv(c)
  PROVE  SymsInv(Now)'
PROOF
<1> DEFINE d == [state |-> c.state, steps |-> c.steps]
<1>1. d.state = c.state /\ d.steps = c.steps /\ DOMAIN d = {"state", "steps"}
  OBVIOUS
<1>2. Now' = d
  BY DEF Become, Now
<1> HIDE DEF d
<1>3. SymsInv(d)
  BY <1>1 DEF SymsInv, IsConfig, NamesInv
<1>4. \A e : SymsInv(e)' <=> SymsInv(e)
  OBVIOUS
<1> QED BY <1>2, <1>3, <1>4

(* Every step preserves the invariant.                                     *)
LEMMA NextSyms == SymexInv /\ SymsInv(Now) /\ [Next]_vars => SymsInv(Now)'
PROOF
<1> SUFFICES ASSUME SymexInv, SymsInv(Now), [Next]_vars PROVE SymsInv(Now)'
  OBVIOUS
<1>1. Facts
  BY DEF SymexInv
<1>2. PICK sides : Inv(Now, sides) /\ (pc # Ended => AtPc(Now))
  BY DEF SymexInv
<1> DEFINE c == Entered
           m == merge_gotos(Now)
           cond == Meaning(c.state, instruction.guard)
<1>3. ASSUME pc # Ended PROVE Ready(c, sides)
  BY <1>2, <1>3, EnteredReady
<1>4. SymsInv(m) /\ SymsInv(c)
  BY <1>2, EnteredSyms DEF Inv, ControlInv
<1>5. ASSUME NEW d, Become(d), SymsInv(d) PROVE SymsInv(Now)'
  BY <1>5, BecomeSyms
<1>0. ASSUME pc # Ended, instruction.type \in {"ASSUME", "ASSERT"}
      PROVE  \A s \in cond.syms : Named(c.state, s)
  <2>1. GuardVars(instruction.guard) \subseteq Vars
    BY <1>0, <1>1, <1>3, HereFacts
  <2> HIDE DEF c
  <2> QED BY <1>4, <2>1, MeaningNamed DEF SymsInv
<1> HIDE DEF c, m, cond
<1>6. CASE SkipInductive
  BY <1>4, <1>5, <1>6, GotoSyms DEF SkipInductive, m
<1>7. CASE Unreachable
  BY <1>4, <1>5, <1>7, GotoSyms DEF Unreachable, c
<1>8. CASE GotoStep
  <2>1. pc # Ended /\ instruction.type = "GOTO" /\ Become(symex_goto(c))
    BY <1>8 DEF GotoStep, Step, c
  <2>2. SymsInv(symex_goto(c))
    BY <1>1, <1>3, <1>4, <2>1, SymexGotoSyms
  <2> QED BY <1>5, <2>1, <2>2
<1>9. CASE AssumeStep
  <2>1. pc # Ended /\ instruction.type = "ASSUME" /\ Become(NextPc(assume(c, cond)))
    BY <1>9 DEF AssumeStep, Live, Step, c, cond
  <2>2. SymsInv(assume(c, cond))
    BY <1>0, <1>4, <2>1, AssumedCarried DEF Carried
  <2> QED BY <1>5, <2>1, <2>2, GotoSyms
<1>10. CASE AssertStep
  <2> DEFINE e == IF no_assertions THEN c ELSE claim(c, cond, instruction.id)
  <2>1. pc # Ended /\ instruction.type = "ASSERT" /\ Become(NextPc(e))
    BY <1>10 DEF AssertStep, Live, Step, c, cond
  <2>2. SymsInv(e)
    BY <1>0, <1>4, <2>1, ClaimCarried DEF Carried
  <2> HIDE DEF e
  <2> QED BY <1>5, <2>1, <2>2, GotoSyms
<1>11. CASE AssignStep
  <2> DEFINE e == symex_assign(c, instruction.x, instruction.e)
  <2>1. pc # Ended /\ instruction.type = "ASSIGN" /\ Become(NextPc(e))
    BY <1>11 DEF AssignStep, Live, Step, c
  <2>2. instruction.x \in Vars /\ ExprOK(instruction.e)
    BY <1>1, <1>3, <2>1, HereFacts
  <2>3. SymsInv(e)
    BY <1>4, <2>2, SymexAssignCarried DEF Carried
  <2> HIDE DEF e
  <2> QED BY <1>5, <2>1, <2>3, GotoSyms
<1>12. CASE CallStep
  <2>1. pc # Ended /\ instruction.type = "FUNCTION_CALL" /\ Become(symex_function_call(c))
    BY <1>12 DEF CallStep, Live, Step, c
  <2>2. SymsInv(symex_function_call(c))
    BY <1>1, <1>3, <1>4, <2>1, FunctionCallSyms
  <2> QED BY <1>5, <2>1, <2>2
<1>13. CASE ReturnStep
  <2>1. pc # Ended /\ instruction.type = "RETURN" /\ Become(NextPc(symex_return(c)))
    BY <1>13 DEF ReturnStep, Live, Step, c
  <2>2. SymsInv(symex_return(c))
    BY <1>1, <1>3, <1>4, <2>1, ReturnSyms
  <2> QED BY <1>5, <2>1, <2>2, GotoSyms
<1>14. CASE EndOfFunction
  <2>1. pc # Ended /\ Become(NextPc(pop_frame(c)))
    BY <1>14 DEF EndOfFunction, Step, c
  <2>2. SymsInv(pop_frame(c))
    BY <1>3, <1>4, <2>1, PopSyms
  <2> QED BY <1>5, <2>1, <2>2, GotoSyms
<1>15. CASE EndOfMain
  <2>1. Become(Goto(assume_false(c), Ended))
    BY <1>15 DEF EndOfMain, c
  <2>2. SymsInv(assume_false(c))
    BY <1>4, AssumeFalseCarried DEF Carried
  <2> QED BY <1>5, <2>1, <2>2, GotoSyms
<1>16. CASE UNCHANGED vars
  <2>1. Now' = Now
    BY <1>16 DEF vars, Now
  <2>2. PICK d : d = Now
    OBVIOUS
  <2>3. SymsInv(d)'
    BY <2>2
  <2> QED BY <2>1, <2>2, <2>3
<1>17. CASE Terminating
  BY <1>16, <1>17 DEF Terminating
<1> QED BY <1>6, <1>7, <1>8, <1>9, <1>10, <1>11, <1>12, <1>13, <1>14, <1>15, <1>16, <1>17 DEF Next

(* No step of the equation names a symbol that it or a later one assigns,  *)
(* whatever is merged, returned or counted on the way                      *)
(* (symex_goto.cpp:311-403, renaming.cpp:293-317).                         *)
THEOREM SymsInvariant == Spec => [](SymexInv /\ SymsInv(Now))
PROOF
<1>1. Init => SymexInv /\ SymsInv(Now)
  BY InitInv, InitSyms
<1>2. SymexInv /\ SymsInv(Now) /\ [Next]_vars => (SymexInv /\ SymsInv(Now))'
  BY NextInv, NextSyms
<1> QED BY <1>1, <1>2, PTL DEF Spec

-----------------------------------------------------------------------------
(* Slicing.                                                                *)

(* A step before a sequence.                                               *)
LEMMA PrependStep ==
  ASSUME NEW t, IsSeq(t), NEW x
  PROVE  /\ IsSeq(<<x>> \o t) /\ Len(<<x>> \o t) = Len(t) + 1
         /\ (<<x>> \o t)[1] = x
         /\ \A k \in 1 .. Len(t) : (<<x>> \o t)[k + 1] = t[k]
PROOF
<1> DEFINE S == Range(t) \cup {x}
           u == <<x>> \o t
<1>1. t \in Seq(S)
  <2>1. t \in Seq(Range(t))
    BY DEF IsSeq
  <2> HIDE DEF S
  <2>2. Range(t) \subseteq S
    BY DEF S
  <2> QED BY <2>1, <2>2
<1>2. <<x>> \in Seq(S) /\ Len(<<x>>) = 1 /\ <<x>>[1] = x
  OBVIOUS
<1> HIDE DEF S
<1>3. /\ u \in Seq(S) /\ Len(u) = Len(<<x>>) + Len(t)
      /\ \A k \in 1 .. Len(<<x>>) + Len(t) :
           u[k] = IF k <= Len(<<x>>) THEN <<x>>[k] ELSE t[k - Len(<<x>>)]
  BY <1>1, <1>2, ConcatProperties
<1>4. Len(t) \in Nat
  BY <1>1, LenProperties
<1> HIDE DEF u
<1>5. u[1] = x /\ \A k \in 1 .. Len(t) : u[k + 1] = t[k]
  BY <1>2, <1>3, <1>4
<1>6. IsSeq(u)
  BY <1>3 DEF IsSeq, Range
<1> QED BY <1>2, <1>3, <1>4, <1>5, <1>6 DEF u

(* One step of the pass.  What an assignment assigns no other one assigns, *)
(* and no step up to it names.                                             *)
LEMMA SliceStepKeeps ==
  ASSUME NEW list, NEW n \in Nat, DOMAIN list = 1 .. n, AssignedOnce(list), AssignedFirst(list),
         NEW i \in 1 .. n, NEW used, NEW d, SlicedFrom(list, n, i + 1, used, d)
  PROVE  \E u : SlicedFrom(list, n, i, u, SliceStep(list[i], d))
PROOF
<1> DEFINE step == list[i]
           ignored == [step EXCEPT !.ignore = TRUE]
           e == SliceStep(step, d)
           Assigns(m, s) == list[m].type = "ASSIGNMENT" /\ list[m].lhs = s
<1>1. /\ DOMAIN d = {"depends", "steps"} /\ IsSeq(d.steps) /\ Len(d.steps) = n - i
      /\ used \in SUBSET (i + 1 .. n)
      /\ \A j \in i + 1 .. n :
           /\ list[j].type # "ASSIGNMENT" => j \in used
           /\ d.steps[j - i] = IF j \in used THEN list[j] ELSE [list[j] EXCEPT !.ignore = TRUE]
      /\ \A j \in used : \A s \in list[j].syms :
           /\ \A m \in i + 1 .. n : Assigns(m, s) => m \in used
           /\ s \in d.depends \/ \E m \in i + 1 .. n : Assigns(m, s)
  <2>1. n - (i + 1) + 1 = n - i /\ \A j \in i + 1 .. n : j - (i + 1) + 1 = j - i
    OBVIOUS
  <2> QED BY <2>1 DEF SlicedFrom
<1>2. \A m \in i .. n : \A s \in step.syms : ~Assigns(m, s)
  BY DEF AssignedFirst
<1>3. \A m \in i + 1 .. n : ~(step.type = "ASSIGNMENT" /\ Assigns(m, step.lhs))
  BY DEF AssignedOnce
<1>0. ASSUME NEW u, used \subseteq u, NEW j \in used, NEW s \in list[j].syms,
             \A m \in i .. n : Assigns(m, s) => m \in i + 1 .. n
      PROVE  /\ \A m \in i .. n : Assigns(m, s) => m \in u
             /\ s \in d.depends \/ \E m \in i .. n : Assigns(m, s)
  <2>1. /\ \A m \in i + 1 .. n : Assigns(m, s) => m \in used
        /\ s \in d.depends \/ \E m \in i + 1 .. n : Assigns(m, s)
    BY <1>1
  <2> HIDE DEF Assigns
  <2> QED BY <1>0, <2>1
<1>4. ASSUME NEW x, NEW u \in {used, used \cup {i}},
             e.steps = <<x>> \o d.steps,
             x = IF i \in u THEN step ELSE ignored,
             step.type # "ASSIGNMENT" => i \in u
      PROVE  /\ IsSeq(e.steps) /\ Len(e.steps) = n - i + 1
             /\ u \in SUBSET (i .. n)
             /\ \A j \in i .. n :
                  /\ list[j].type # "ASSIGNMENT" => j \in u
                  /\ e.steps[j - i + 1] = IF j \in u THEN list[j] ELSE [list[j] EXCEPT !.ignore = TRUE]
  <2> HIDE DEF e, ignored
  <2>1. /\ IsSeq(e.steps) /\ Len(e.steps) = n - i + 1
        /\ e.steps[1] = x /\ \A k \in 1 .. n - i : e.steps[k + 1] = d.steps[k]
    <3> DEFINE t == d.steps
    <3>1. IsSeq(t) /\ Len(t) = n - i
      BY <1>1
    <3>2. e.steps = <<x>> \o t
      BY <1>4
    <3> HIDE DEF t
    <3>3. /\ IsSeq(<<x>> \o t) /\ Len(<<x>> \o t) = n - i + 1
          /\ (<<x>> \o t)[1] = x /\ \A k \in 1 .. n - i : (<<x>> \o t)[k + 1] = t[k]
      BY ONLY <3>1, PrependStep
    <3> QED BY ONLY <3>2, <3>3 DEF t
  <2>2. u \in SUBSET (i .. n)
    BY <1>1
  <2>3. ASSUME NEW j \in i .. n
        PROVE  /\ list[j].type # "ASSIGNMENT" => j \in u
               /\ e.steps[j - i + 1] = IF j \in u THEN list[j] ELSE [list[j] EXCEPT !.ignore = TRUE]
    <3>1. CASE j = i
      <4>1. j - i + 1 = 1
        BY <3>1
      <4> QED BY <1>4, <2>1, <3>1, <4>1 DEF ignored
    <3>2. CASE j # i
      <4>1. j \in i + 1 .. n /\ j - i \in 1 .. n - i /\ (j \in u <=> j \in used)
        BY <3>2
      <4>2. e.steps[j - i + 1] = d.steps[j - i]
        BY <2>1, <4>1
      <4> QED BY <1>1, <4>1, <4>2
    <3> QED BY <3>1, <3>2
  <2> QED BY <2>1, <2>2, <2>3
<1>5. CASE step.type # "ASSIGNMENT"
  <2> DEFINE u == used \cup {i}
  <2>1. /\ DOMAIN e = {"depends", "steps"} /\ e.depends = d.depends \cup step.syms
        /\ e.steps = <<step>> \o d.steps
    BY <1>5 DEF SliceStep
  <2> HIDE DEF e
  <2>2. \A j \in u : \A s \in list[j].syms :
          /\ \A m \in i .. n : Assigns(m, s) => m \in u
          /\ s \in e.depends \/ \E m \in i .. n : Assigns(m, s)
    <3> TAKE j \in u
    <3> TAKE s \in list[j].syms
    <3>1. CASE j = i
      BY <1>2, <2>1, <3>1
    <3>2. CASE j # i
      <4>1. j \in used /\ \A m \in i .. n : Assigns(m, s) => m \in i + 1 .. n
        BY <1>5, <3>2
      <4>2. /\ \A m \in i .. n : Assigns(m, s) => m \in u
            /\ s \in d.depends \/ \E m \in i .. n : Assigns(m, s)
        BY <1>0, <4>1
      <4> HIDE DEF Assigns
      <4> QED BY <2>1, <4>2
    <3> QED BY <3>1, <3>2
  <2>3. SlicedFrom(list, n, i, u, e)
    BY <1>4, <2>1, <2>2 DEF SlicedFrom
  <2> QED BY <2>3 DEF e
<1>6. CASE step.type = "ASSIGNMENT" /\ step.lhs \notin d.depends
  <2>1. /\ DOMAIN e = {"depends", "steps"} /\ e.depends = d.depends
        /\ e.steps = <<ignored>> \o d.steps
    BY <1>1, <1>6 DEF SliceStep
  <2> HIDE DEF e
  <2>2. \A j \in used : \A s \in list[j].syms :
          /\ \A m \in i .. n : Assigns(m, s) => m \in used
          /\ s \in e.depends \/ \E m \in i .. n : Assigns(m, s)
    <3> TAKE j \in used
    <3> TAKE s \in list[j].syms
    <3>1. step.lhs # s
      BY <1>1, <1>3, <1>6
    <3>2. \A m \in i .. n : Assigns(m, s) => m \in i + 1 .. n
      BY <3>1
    <3>3. /\ \A m \in i .. n : Assigns(m, s) => m \in used
          /\ s \in d.depends \/ \E m \in i .. n : Assigns(m, s)
      BY <1>0, <3>2
    <3> HIDE DEF Assigns
    <3> QED BY <2>1, <3>3
  <2>3. i \notin used
    BY <1>1
  <2>4. /\ IsSeq(e.steps) /\ Len(e.steps) = n - i + 1
        /\ used \in SUBSET (i .. n)
        /\ \A j \in i .. n :
             /\ list[j].type # "ASSIGNMENT" => j \in used
             /\ e.steps[j - i + 1] = IF j \in used THEN list[j] ELSE [list[j] EXCEPT !.ignore = TRUE]
    <3>1. ignored = IF i \in used THEN step ELSE ignored
      BY <2>3
    <3> HIDE DEF ignored, step
    <3> QED BY <1>4, <1>6, <2>1, <3>1
  <2>5. SlicedFrom(list, n, i, used, e)
    BY <2>1, <2>2, <2>4 DEF SlicedFrom
  <2> QED BY <2>5 DEF e
<1>7. CASE step.type = "ASSIGNMENT" /\ step.lhs \in d.depends
  <2> DEFINE u == used \cup {i}
  <2>1. /\ DOMAIN e = {"depends", "steps"} /\ e.depends = (d.depends \cup step.syms) \ {step.lhs}
        /\ e.steps = <<step>> \o d.steps
    BY <1>7 DEF SliceStep, run_on_assignment
  <2> HIDE DEF e
  <2>2. \A j \in u : \A s \in list[j].syms :
          /\ \A m \in i .. n : Assigns(m, s) => m \in u
          /\ s \in e.depends \/ \E m \in i .. n : Assigns(m, s)
    <3> TAKE j \in u
    <3> TAKE s \in list[j].syms
    <3>1. CASE j = i
      <4>1. s # step.lhs
        BY <1>2, <1>7, <3>1
      <4> QED BY <1>2, <2>1, <3>1, <4>1
    <3>2. CASE j # i /\ s = step.lhs
      <4>1. Assigns(i, s) /\ \A m \in i .. n : Assigns(m, s) => m = i
        BY <1>3, <1>7, <3>2
      <4> QED BY <4>1
    <3>3. CASE j # i /\ s # step.lhs
      <4>1. j \in used /\ \A m \in i .. n : Assigns(m, s) => m \in i + 1 .. n
        BY <3>3
      <4>2. /\ \A m \in i .. n : Assigns(m, s) => m \in u
            /\ s \in d.depends \/ \E m \in i .. n : Assigns(m, s)
        BY <1>0, <4>1
      <4> HIDE DEF Assigns
      <4> QED BY <2>1, <3>3, <4>2
    <3> QED BY <3>1, <3>2, <3>3
  <2>3. SlicedFrom(list, n, i, u, e)
    BY <1>4, <2>1, <2>2 DEF SlicedFrom
  <2> QED BY <2>3 DEF e
<1> QED BY <1>5, <1>6, <1>7

(* What symex_slice keeps of the steps: every assumption and assertion,    *)
(* and with a step all assignments to what it names.                       *)
IsSlice(list, used, t) ==
  /\ used \subseteq DOMAIN list /\ DOMAIN t = DOMAIN list
  /\ \A j \in DOMAIN list :
       /\ list[j].type # "ASSIGNMENT" => j \in used
       /\ t[j] = IF j \in used THEN list[j] ELSE [list[j] EXCEPT !.ignore = TRUE]
  /\ \A j \in used : \A m \in DOMAIN list :
       list[m].type = "ASSIGNMENT" /\ list[m].lhs \in list[j].syms => m \in used

LEMMA SliceKeeps ==
  ASSUME NEW list, NEW n \in Nat, DOMAIN list = 1 .. n, AssignedOnce(list), AssignedFirst(list)
  PROVE  \E used : IsSlice(list, used, symex_slice(list))
PROOF
<1> DEFINE tag == [fold |-> "slice", list |-> list]
           goal == [kind |-> "slice", list |-> list]
           c == [depends |-> {}, steps |-> <<>>]
           S == 1 .. n
<1>1. IsFiniteSet(S)
  BY FS_Interval
<1>2. PICK it : IsFold(tag, c, S, it) /\ symex_slice(list) = it[S].steps
  BY SliceIsFold
<1>3. /\ \A s : Fold_pick(tag, s) = Min(s)
      /\ \A x, d : Fold_op(tag, x, d) = SliceStep(list[x], d)
      /\ \A s, d : Fold_keeps(goal, s, d) <=> SlicedThrough(list, s, d)
  BY DEF Fold_pick, Fold_op, Fold_keeps
<1> HIDE DEF tag, goal
<1>4. \A s \in SUBSET S : s # {} => Fold_pick(tag, s) \in s
  BY <1>3, MinProperties
<1>5. Fold_keeps(goal, {}, c)
  <2> SUFFICES ASSUME NEW m \in Nat, NEW i \in 1 .. m + 1, DOMAIN list = 1 .. m, {} = i .. m
               PROVE  SlicedFrom(list, m, i, {}, c)
    BY <1>3 DEF SlicedThrough
  <2>1. i = m + 1
    OBVIOUS
  <2>2. IsSeq(<<>>) /\ Len(<<>>) = 0
    BY DEF IsSeq
  <2>3. DOMAIN c = {"depends", "steps"} /\ c.steps = <<>>
    OBVIOUS
  <2> HIDE DEF c
  <2> QED BY <2>1, <2>2, <2>3 DEF SlicedFrom
<1>6. ASSUME NEW s \in SUBSET S, NEW d,
             s # {}, Fold_keeps(goal, s \ {Fold_pick(tag, s)}, d)
      PROVE  Fold_keeps(goal, s, Fold_op(tag, Fold_pick(tag, s), d))
  <2> SUFFICES ASSUME NEW m \in Nat, NEW i \in 1 .. m + 1, DOMAIN list = 1 .. m, s = i .. m
               PROVE  \E u : SlicedFrom(list, m, i, u, SliceStep(list[Min(s)], d))
    BY <1>3 DEF SlicedThrough
  <2>1. i \in 1 .. m /\ i \in s /\ s \in SUBSET Nat
    BY <1>6
  <2>2. Min(s) = i
    <3>1. Min(s) \in s /\ Min(s) <= i
      BY <1>6, <2>1, MinProperties
    <3> QED BY <2>1, <3>1
  <2>3. s \ {i} = i + 1 .. m /\ i + 1 \in 1 .. m + 1
    BY <2>1
  <2>4. PICK used : SlicedFrom(list, m, i + 1, used, d)
    <3>1. SlicedThrough(list, s \ {i}, d)
      BY <1>3, <1>6, <2>2
    <3> QED BY <2>3, <3>1 DEF SlicedThrough
  <2> QED BY <2>1, <2>2, <2>4, SliceStepKeeps
<1>7. SlicedThrough(list, S, it[S])
  BY <1>1, <1>2, <1>3, <1>4, <1>5, <1>6, FoldInduction
<1> DEFINE t == symex_slice(list)
<1>8. PICK used : SlicedFrom(list, n, 1, used, it[S])
  BY <1>7 DEF SlicedThrough
<1>9. /\ IsSeq(t) /\ Len(t) = n /\ used \in SUBSET (1 .. n)
      /\ \A j \in 1 .. n :
           /\ list[j].type # "ASSIGNMENT" => j \in used
           /\ t[j] = IF j \in used THEN list[j] ELSE [list[j] EXCEPT !.ignore = TRUE]
      /\ \A j \in used : \A s \in list[j].syms :
           \A m \in 1 .. n : list[m].type = "ASSIGNMENT" /\ list[m].lhs = s => m \in used
  <2>1. n - 1 + 1 = n /\ \A j \in 1 .. n : j - 1 + 1 = j
    OBVIOUS
  <2> HIDE DEF S
  <2> QED BY <1>2, <1>8, <2>1 DEF SlicedFrom
<1> HIDE DEF t
<1>10. DOMAIN t = 1 .. n
  BY <1>9, LenProperties DEF IsSeq
<1>11. IsSlice(list, used, t)
  BY <1>9, <1>10 DEF IsSlice
<1> QED BY <1>11 DEF t

(* Steps that may be ignored, and others that differ in that only.         *)
StepForm(step) ==
  /\ {"type", "syms", "ignore"} \subseteq DOMAIN step
  /\ step.type = "ASSIGNMENT" => "lhs" \in DOMAIN step

Alike(s, t) ==
  /\ DOMAIN t = DOMAIN s
  /\ \A n \in DOMAIN s :
       /\ StepForm(t[n]) /\ t[n].type = s[n].type /\ t[n].syms = s[n].syms
       /\ s[n].type = "ASSIGNMENT" => t[n].lhs = s[n].lhs

LEMMA AlikeAssigned ==
  ASSUME NEW s, NEW t, Alike(s, t), AssignedOnce(s), AssignedFirst(s)
  PROVE  AssignedOnce(t) /\ AssignedFirst(t) /\ \A n \in DOMAIN t : StepForm(t[n])
BY DEF Alike, AssignedOnce, AssignedFirst

(* Ignoring or not changes nothing else.                                   *)
LEMMA IgnoreForm ==
  ASSUME NEW step, StepForm(step), NEW b
  PROVE  LET e == [step EXCEPT !.ignore = b]
         IN  /\ StepForm(e) /\ e.type = step.type /\ e.syms = step.syms /\ e.ignore = b
             /\ step.type = "ASSIGNMENT" => e.lhs = step.lhs
BY DEF StepForm

(* A slice of a closed equation is closed.                                 *)
LEMMA SliceClosed ==
  ASSUME NEW list, \A j \in DOMAIN list : StepForm(list[j]), Closed(list),
         NEW used, NEW t, IsSlice(list, used, t)
  PROVE  Closed(t) /\ Alike(list, t)
PROOF
<1>1. DOMAIN t = DOMAIN list
  BY DEF IsSlice
<1>2. ASSUME NEW j \in DOMAIN list
      PROVE  /\ StepForm(t[j]) /\ t[j].type = list[j].type /\ t[j].syms = list[j].syms
             /\ list[j].type = "ASSIGNMENT" => t[j].lhs = list[j].lhs
             /\ j \in used => t[j] = list[j]
             /\ j \notin used => t[j].ignore
  <2>1. CASE j \in used
    BY <2>1 DEF IsSlice
  <2>2. CASE j \notin used
    <3>1. t[j] = [list[j] EXCEPT !.ignore = TRUE]
      BY <2>2 DEF IsSlice
    <3> QED BY <2>2, <3>1, IgnoreForm
  <2> QED BY <2>1, <2>2
<1>3. Alike(list, t)
  BY <1>1, <1>2 DEF Alike
<1>4. ASSUME NEW j \in DOMAIN t, ~t[j].ignore, NEW m \in DOMAIN t,
             t[m].type = "ASSIGNMENT", t[m].ignore, t[m].lhs \in t[j].syms
      PROVE  FALSE
  <2>1. j \in used /\ t[j] = list[j] /\ list[m].type = "ASSIGNMENT" /\ t[m].lhs = list[m].lhs
    BY <1>1, <1>2, <1>4
  <2>2. m \in used
    BY <1>1, <1>4, <2>1 DEF IsSlice
  <2>3. t[m] = list[m]
    BY <1>1, <1>2, <2>2
  <2> QED BY <1>1, <1>4, <2>1, <2>3 DEF Closed
<1>5. Closed(t)
  BY <1>4 DEF Closed
<1> QED BY <1>3, <1>5

(* Every slice of the equation for one claim and for all claims.           *)
LEMMA SymexSliceClosed ==
  ASSUME NEW list, NEW n \in Nat, DOMAIN list = 1 .. n,
         AssignedOnce(list), AssignedFirst(list), StepsOK(list)
  PROVE  LET sliced == symex_slice(list)
         IN  /\ Closed(sliced)
             /\ \A k \in Asserts(sliced) : Closed(symex_slice(claim_slicer(sliced, k)))
PROOF
<1> DEFINE sliced == symex_slice(list)
<1>1. \A j \in DOMAIN list : StepForm(list[j]) /\ ~list[j].ignore
  BY DEF StepsOK, StepOK, StepForm
<1>2. Closed(list)
  BY <1>1 DEF Closed
<1>3. PICK used : IsSlice(list, used, sliced)
  BY SliceKeeps
<1> HIDE DEF sliced
<1>4. Closed(sliced) /\ Alike(list, sliced)
  BY <1>1, <1>2, <1>3, SliceClosed
<1>5. /\ AssignedOnce(sliced) /\ AssignedFirst(sliced) /\ DOMAIN sliced = 1 .. n
      /\ \A j \in 1 .. n : StepForm(sliced[j])
  BY <1>4, AlikeAssigned DEF Alike
<1>6. \A j \in 1 .. n : sliced[j].type # "ASSIGNMENT" => ~sliced[j].ignore
  BY <1>1, <1>3, <1>4 DEF IsSlice, Alike
<1>7. ASSUME NEW k \in Asserts(sliced) PROVE Closed(symex_slice(claim_slicer(sliced, k)))
  <2> DEFINE alone == claim_slicer(sliced, k)
  <2>1. /\ DOMAIN alone = 1 .. n
        /\ \A j \in 1 .. n :
             alone[j] = [sliced[j] EXCEPT !.ignore = IF j \in Asserts(sliced) THEN j # k ELSE @]
    BY <1>5 DEF claim_slicer
  <2> HIDE DEF alone
  <2>2. ASSUME NEW j \in 1 .. n
        PROVE  /\ StepForm(alone[j]) /\ alone[j].type = sliced[j].type /\ alone[j].syms = sliced[j].syms
               /\ sliced[j].type = "ASSIGNMENT" => alone[j].lhs = sliced[j].lhs
               /\ sliced[j].type = "ASSIGNMENT" => (alone[j].ignore <=> sliced[j].ignore)
               /\ sliced[j].ignore => alone[j].ignore
    <3> DEFINE b == IF j \in Asserts(sliced) THEN j # k ELSE sliced[j].ignore
    <3>1. alone[j] = [sliced[j] EXCEPT !.ignore = b]
      BY <2>1
    <3>2. sliced[j].type = "ASSIGNMENT" => j \notin Asserts(sliced)
      BY DEF Asserts
    <3>3. sliced[j].ignore => sliced[j].type = "ASSIGNMENT"
      BY <1>6
    <3>4. /\ sliced[j].type = "ASSIGNMENT" => (b <=> sliced[j].ignore)
          /\ sliced[j].ignore => b
      BY <3>2, <3>3
    <3>5. StepForm(sliced[j])
      BY <1>5
    <3> DEFINE step == sliced[j]
               e == [step EXCEPT !.ignore = b]
    <3> HIDE DEF b
    <3>6. /\ StepForm(e) /\ e.type = step.type /\ e.syms = step.syms /\ e.ignore = b
          /\ step.type = "ASSIGNMENT" => e.lhs = step.lhs
      BY <3>5, IgnoreForm
    <3> HIDE DEF e
    <3>7. /\ StepForm(alone[j]) /\ alone[j].type = sliced[j].type /\ alone[j].syms = sliced[j].syms
          /\ sliced[j].type = "ASSIGNMENT" => alone[j].lhs = sliced[j].lhs
          /\ alone[j].ignore = b
      BY <3>1, <3>6 DEF e
    <3> QED BY <3>4, <3>7
  <2>3. Alike(sliced, alone)
    BY <1>5, <2>1, <2>2 DEF Alike
  <2>4. AssignedOnce(alone) /\ AssignedFirst(alone) /\ \A j \in DOMAIN alone : StepForm(alone[j])
    BY <1>5, <2>3, AlikeAssigned
  <2>5. Closed(alone)
    BY <1>4, <1>5, <2>1, <2>2 DEF Closed
  <2>6. PICK again : IsSlice(alone, again, symex_slice(alone))
    BY <2>1, <2>4, SliceKeeps
  <2> QED BY <2>4, <2>5, <2>6, SliceClosed DEF alone
<1> QED BY <1>4, <1>7 DEF sliced

(* What comes after the last assertion is named by nothing before it.      *)
LEMMA SimpleSliceClosed ==
  ASSUME NEW list, NEW n \in Nat, DOMAIN list = 1 .. n, AssignedFirst(list), StepsOK(list)
  PROVE  Closed(simple_slice(list))
PROOF
<1> DEFINE t == simple_slice(list)
           After(j) == Asserts(list) # {} /\ \A m \in Asserts(list) : m < j
<1>1. \A j \in 1 .. n : StepForm(list[j]) /\ ~list[j].ignore
  BY DEF StepsOK, StepOK, StepForm
<1>2. DOMAIN t = 1 .. n /\ \A j \in 1 .. n : t[j] = [list[j] EXCEPT !.ignore = @ \/ After(j)]
  BY DEF simple_slice
<1> HIDE DEF t
<1>3. ASSUME NEW j \in 1 .. n
      PROVE  /\ t[j].type = list[j].type /\ t[j].syms = list[j].syms
             /\ list[j].type = "ASSIGNMENT" => t[j].lhs = list[j].lhs
             /\ t[j].ignore <=> After(j)
  <2> DEFINE b == list[j].ignore \/ After(j)
  <2>1. t[j] = [list[j] EXCEPT !.ignore = b]
    BY <1>2
  <2>2. b <=> After(j)
    BY <1>1
  <2> HIDE DEF b, After
  <2> QED BY <1>1, <2>1, <2>2, IgnoreForm
<1>4. Asserts(list) \subseteq 1 .. n
  BY DEF Asserts
<1>5. ASSUME NEW j \in 1 .. n, NEW m \in 1 .. n, After(m), ~After(j) PROVE j < m
  <2>1. PICK k \in Asserts(list) : ~(k < j)
    BY <1>5
  <2> QED BY <1>4, <1>5, <2>1
<1> HIDE DEF After
<1>6. ASSUME NEW j \in DOMAIN t, ~t[j].ignore, NEW m \in DOMAIN t,
             t[m].type = "ASSIGNMENT", t[m].ignore, t[m].lhs \in t[j].syms
      PROVE  FALSE
  <2>1. j < m /\ list[m].type = "ASSIGNMENT" /\ list[m].lhs \in list[j].syms
    BY <1>2, <1>3, <1>5, <1>6
  <2> QED BY <1>2, <1>6, <2>1 DEF AssignedFirst
<1>7. Closed(t)
  BY <1>6 DEF Closed
<1> QED BY <1>7 DEF t

(* However the equation is sliced, behind the last claim, for all claims,  *)
(* and for each alone, no step that stays names a symbol whose assignment  *)
(* went: what it names is assigned once, before it, and the pass keeps the *)
(* assignment with the step (slice.cpp:10-190, bmc.cpp:755-761).           *)
THEOREM SlicedEquationClosedTheorem == Spec => []SlicedEquationClosed
PROOF
<1>1. SymexInv /\ SymsInv(Now) => SlicedEquationClosed
  <2> SUFFICES ASSUME SymsInv(Now) PROVE SlicedEquationClosed
    OBVIOUS
  <2> DEFINE list == SSA_steps
             n == Len(list)
  <2>1. Now.steps = list
    BY DEF Now
  <2>2. IsSeq(list) /\ AssignedOnce(list) /\ AssignedFirst(list) /\ StepsOK(list)
    BY <2>1 DEF SymsInv, NamesInv
  <2>3. n \in Nat /\ DOMAIN list = 1 .. n
    BY <2>2, LenProperties DEF IsSeq
  <2>4. Closed(simple_slice(list))
    BY <2>2, <2>3, SimpleSliceClosed
  <2>5. /\ Closed(symex_slice(list))
        /\ \A k \in Asserts(symex_slice(list)) : Closed(symex_slice(claim_slicer(symex_slice(list), k)))
    BY <2>2, <2>3, SymexSliceClosed
  <2> QED BY <2>4, <2>5 DEF SlicedEquationClosed
<1> QED BY <1>1, SymsInvariant, PTL
=============================================================================
