-------------------------- MODULE MCIntervalAnalysis --------------------------
(* Small programs over the integers x and y and the float z: branches,     *)
(* loops with and without a bound, calls of one function from two places   *)
(* and of another one inside it, and, apart from these, recursion.         *)
EXTENDS IntervalAnalysis

MCIntVars == {"x", "y"}
MCFloatVars == {"z"}
MCNondet == {-1, 1, 3}

C(c) == [op |-> "const", c |-> c]
V(x) == [op |-> "var", x |-> x]
PlusC(x, c) == [op |-> "plus", x |-> x, c |-> c]
Input == [op |-> "nondet"]

True_ == [op |-> "true"]
Cmp(op, a, b) == [op |-> op, a |-> a, b |-> b]

Decl(x) == [type |-> "DECL", x |-> x]
Let(x, e) == [type |-> "ASSIGN", x |-> x, e |-> e]
Goto(g, t) == [type |-> "GOTO", guard |-> g, target |-> t]
Require(g) == [type |-> "ASSUME", guard |-> g]
Call(f, ret) == [type |-> "FUNCTION_CALL", function |-> f, ret |-> ret]
Result(e) == [type |-> "RETURN", e |-> e]
End == [type |-> "END_FUNCTION"]

Only(main) == [body |-> [f \in {Main} |-> main]]

Guards == {
  Cmp("lt", V("x"), C(2)),
  Cmp("eq", V("x"), C(1)),
  Cmp("ge", V("x"), V("y")),
  [op |-> "and", parts |-> <<Cmp("gt", V("x"), C(0)), Cmp("ne", V("y"), C(1))>>],
  [op |-> "or", parts |-> <<Cmp("le", V("x"), V("y")), Cmp("eq", V("y"), C(3))>>]}

Effects == {
  Let("x", C(2)), Let("y", V("x")), Let("x", PlusC("y", 1)), Let("x", Input), Decl("y")}

(* if (g) a; else b;  with another branch after it.                        *)
Branches ==
  {Only(<<Let("x", Input), Let("y", C(1)), Goto(g, 6), b, Goto(True_, 7), a,
          Goto(h, 9), Let("y", PlusC("x", -1)), End>>) :
     a, b \in Effects, g, h \in Guards}

(* The same with floats; 0 is not a normal number.                         *)
FloatGuards == {Cmp(op, V("z"), C(c)) : op \in {"le", "gt", "eq"}, c \in {0, 3, 9}}

FloatBranches ==
  {Only(<<Decl("z"), Goto(g, 4), Let("z", C(9)), Goto(h, 6), Let("z", C(5)), End>>) :
     g, h \in FloatGuards}

(* while (x < bound) { body; x = x + 1 or, sometimes, a reset }, and loops *)
(* whose exit nobody knows.                                                *)
Loop(exit, a, b) ==
  Only(<<Let("x", C(0)), Let("y", Input), Goto(exit, 8), Goto(Cmp("gt", V("y"), C(0)), 6),
         a, b, Goto(True_, 3), Let("y", V("x")), End>>)

BoundedLoops ==
  {Loop(Cmp("ge", V("x"), C(2)), a, PlusX) :
     a \in {Decl("y"), Let("y", PlusC("x", 1)), Let("x", C(-1))}, PlusX \in {Let("x", PlusC("x", 1))}}

OpenLoops ==
  {Loop(exit, a, b) :
     exit \in {Cmp("eq", V("x"), C(7)), Cmp("lt", V("x"), V("y")), Cmp("ge", V("x"), C(3))},
     a \in {Decl("y"), Let("x", C(0)), Let("x", PlusC("x", -1))},
     b \in {Let("x", PlusC("x", 1)), Let("x", PlusC("y", 1))}}

(* f, called twice, calls g for some arguments; the library function h has *)
(* no body.                                                                *)
CallsWith(rets, guards) ==
  {[body |-> (Main :> <<Let("x", C(1)), Let("y", C(5)), Call("f", ret), Let("x", e), Call("f", {}),
                        Goto(Cmp("gt", V("x"), C(2)), 8), Call("h", {"y"}), End>>)
          @@ ("f" :> <<Goto(guard, 4), Call("g", {}), Let("x", C(3)), Result(V("x")), End>>)
          @@ ("g" :> <<Let("x", PlusC("x", 1)), End>>)] :
     ret \in rets, e \in {C(0), Input, V("y")}, guard \in guards}

LayeredCalls ==
  CallsWith({{}, {"y"}}, {Cmp("le", V("x"), C(1))}) \cup CallsWith({{}}, {Cmp("eq", V("x"), V("y"))})

(* y = f() of an f that reads y.                                           *)
CallsIntoRead == CallsWith({{"y"}}, {Cmp("eq", V("x"), V("y"))})

Calls == LayeredCalls \cup CallsIntoRead

Options(arithmetic, extrapolate, under_approximate) ==
  [arithmetic |-> arithmetic, extrapolate |-> extrapolate,
   under_approximate |-> under_approximate, narrowing |-> FALSE, limit |-> 1]

Default == Options(FALSE, FALSE, FALSE)
Arithmetic == Options(TRUE, FALSE, FALSE)
Widening == {Options(TRUE, TRUE, FALSE), Options(TRUE, TRUE, TRUE)}

With(programs, settings) == [program : programs, options : settings]

MCCases ==
  With(Branches, {Default}) \cup With(FloatBranches, {Arithmetic})
    \cup With(BoundedLoops, {Default, Arithmetic} \cup Widening)
    \cup With(OpenLoops, {Default} \cup Widening)
    \cup With(Calls, {Default, Arithmetic})

(* What NothingForgotten is proved from holds of these cases, and what     *)
(* IntervalsSound is proved from of all but some of the calls.             *)
ASSUME PlainCases ==
  \A c \in MCCases :
    /\ ~c.options.narrowing /\ OneKind(c.program)
    /\ Layered(c.program) \/ c.program \in CallsIntoRead

(* A function that calls itself until x is used up, and counts in y.       *)
Recursive ==
  {[body |-> (Main :> <<Let("x", e), Let("y", C(0)), Call("f", {}), End>>)
          @@ ("f" :> <<Goto(Cmp("le", V("x"), C(0)), 5), Let("x", PlusC("x", -1)),
                       Call("f", {}), Let("y", C(1)), Goto(Cmp("le", V("x"), C(3)), 6), End>>)] :
     e \in {C(1), Input}}

RecursiveCases == With(Recursive, {Default})

(* x = f() of an f that knows x when it returns something else.            *)
Overwriting ==
  {[body |-> (Main :> <<Call("f", {"x"}), Goto(Cmp("gt", V("x"), C(5)), 4), Let("y", C(1)), End>>)
          @@ ("f" :> <<Let("x", C(3)), Result(e), End>>)] :
     e \in {C(7), PlusC("x", 4), Input}}

OverwritingCases == With(Overwriting, {Default})

(* The arms of a branch differ in an integer and in a float.               *)
MixedCases ==
  With({Only(<<Goto(Cmp("eq", V("x"), V("y")), 5), Let("x", C(1)), Let("z", C(5)),
               Goto(True_, 7), Let("x", C(2)), Let("z", C(9)), Goto(True_, 8), End>>)}, {Default})
=============================================================================
