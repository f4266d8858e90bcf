-------------------------------- MODULE MCSymex --------------------------------
(* Programs over two unsigned variables of two bits: branches, loops of    *)
(* every shape, calls.                                                     *)
EXTENDS Symex

MCVars == {"x", "y"}
MCWorld == 0 .. 2^(Width * Inputs) - 1

C(c) == [op |-> "const", c |-> c]
V(x) == [op |-> "var", x |-> x]
PlusC(x, c) == [op |-> "plus", x |-> x, c |-> c]
Unknown == [op |-> "nondet"]

Always == [op |-> "true"]
Cmp(op, a, b) == [op |-> op, a |-> a, b |-> b]

Let(x, e) == [type |-> "ASSIGN", x |-> x, e |-> e]
Jump(g, t) == [type |-> "GOTO", guard |-> g, target |-> t]
Require(g) == [type |-> "ASSUME", guard |-> g]
Check(id, g) == [type |-> "ASSERT", id |-> id, guard |-> g]
CallTo(f, ret) == [type |-> "FUNCTION_CALL", function |-> f, ret |-> ret]
Result(e) == [type |-> "RETURN", e |-> e]
End == [type |-> "END_FUNCTION"]

Only(main) == [body |-> [f \in {Main} |-> main]]

Effects == {Let("x", C(1)), Let("y", PlusC("x", 1)), Let("x", V("y"))}
Guards_ == {Cmp("lt", V("x"), C(2)), Cmp("eq", V("x"), V("y"))}
Claims == {Cmp("ne", V("x"), C(3)), Cmp("le", V("y"), V("x"))}

(* Nested branches, the inner one without an else, and a jump out of both. *)
Branches ==
  {Only(<<Let("x", Unknown), Let("y", Unknown), Jump(g, 8), a, Jump(h, 7), b,
          Jump(Always, 9), Let("y", C(2)), Check("c", c), Require(h), Check("d", Cmp("ne", V("y"), C(2))), End>>) :
     g, h \in Guards_, a, b \in Effects, c \in Claims}

(* while (!exit) { a; if (x == y) b; assert(c); }  assert(d)               *)
While(init, exit, a, b, c, d) ==
  Only(<<Let("x", init), Jump(exit, 8), a, Jump(Cmp("ne", V("x"), V("y")), 6), b, Check("c", c),
         Jump(Always, 2), Check("d", d), End>>)

Whiles ==
  {While(init, exit, a, b, c, d) :
     init \in {C(0), Unknown}, exit \in {Cmp("ge", V("x"), C(2)), Cmp("eq", V("x"), C(3))},
     a \in {Let("x", PlusC("x", 1)), Let("x", PlusC("x", 2))},
     b \in {Let("y", PlusC("y", 1)), Let("y", C(1))}, c \in Claims,
     d \in {Cmp("ne", V("y"), C(3)), Cmp("ge", V("x"), C(2))}}

(* while (1) { a; if (exit) break; b; assert(c); }  assert(d)              *)
Break(exit, a, b, c, d) ==
  Only(<<a, Jump(exit, 5), b, Jump(Always, 1), Check("d", d), Check("c", c), End>>)

Breaks ==
  {Break(exit, a, b, c, Cmp("ne", V("x"), C(3))) :
     exit \in {Cmp("eq", V("x"), C(3)), Cmp("ge", V("y"), V("x"))},
     a \in {Let("x", PlusC("x", 1))},
     b \in {Let("y", PlusC("y", 1)), Let("y", Unknown), Jump(Cmp("eq", V("x"), C(1)), 1)}, c \in Claims}

(* Two loops, the inner one with its test at the end, and a jump from the  *)
(* inner one out of both.                                                  *)
Nested ==
  {Only(<<Jump(Cmp("ge", V("x"), C(2)), 9), first, Jump(out, 9), Let("y", PlusC("y", 1)),
          Check("c", c), Jump(Cmp("lt", V("y"), C(3)), 3), Let("x", PlusC("x", 1)), Jump(Always, 1),
          Check("d", Cmp("ne", V("y"), C(3))), End>>) :
     first \in {Let("y", C(1)), Let("y", Unknown)},
     out \in {Cmp("eq", V("y"), V("x")), Cmp("gt", V("y"), C(2))}, c \in Claims}

(* One loop after the other, the second one perhaps not entered.           *)
Sequential ==
  {Only(<<Let("x", C(2)), Jump(Cmp("le", V("x"), C(0)), 5), Let("x", PlusC("x", -1)), Jump(Always, 2),
          a, Jump(Cmp("ge", V("y"), V("x")), 10), Check("c", Cmp("lt", V("y"), C(1))),
          Let("y", PlusC("y", 1)), Jump(Always, 6), Check("d", d), End>>) :
     a \in {Let("y", C(3)), Let("x", PlusC("x", 2)), Let("y", Unknown)},
     d \in {Cmp("ne", V("x"), C(0)), Cmp("ge", V("y"), V("x"))}}

(* f returns early or late, is called twice, once in a loop, and stops the *)
(* execution for some x; g has no body.                                    *)
Calls(es) ==
  {[body |-> (Main :> <<Let("x", eg[1]), CallTo("f", {"y"}), Jump(Cmp("ge", V("x"), C(2)), 7),
                        CallTo("f", ret), Let("x", PlusC("x", 1)), Jump(Always, 3),
                        Check("d", Cmp("ne", V("y"), C(3))), End>>)
          @@ ("f" :> <<Jump(Cmp("lt", V("x"), C(1)), 4), CallTo("g", eg[2]), Require(Cmp("ne", V("y"), C(2))),
                       Jump(Cmp("eq", V("x"), C(2)), 6), Result(PlusC("x", 1)),
                       Check("c", Cmp("le", V("y"), V("x"))), Result(r), End>>)] :
     eg \in es, ret \in {{}, {"y"}}, r \in {C(3), V("y")}}

(* A loop that has its effect in a function.                               *)
Stepping ==
  {[body |-> (Main :> <<Jump(Cmp("ge", V("x"), C(3)), 5), CallTo("step", {}), Check("c", c), Jump(Always, 1),
                        Check("d", d), End>>)
          @@ ("step" :> <<Let("x", PlusC("x", 1)), CallTo("more", {}), End>>)
          @@ ("more" :> <<Jump(Cmp("eq", V("x"), C(1)), 3), Let("y", e), End>>)] :
     c \in Claims, d \in {Cmp("ge", V("x"), C(2)), Cmp("ne", V("y"), C(1))},
     e \in {C(1), PlusC("y", 2)}}

Known == {<<C(0), {}>>, <<Unknown, {}>>}
External == {<<C(1), {"x"}>>}

(* f calls itself until x is used up; the loop in front is a goto to       *)
(* itself.                                                                 *)
Recursive ==
  {[body |-> (Main :> <<Let("x", Unknown), Jump(Cmp("eq", V("x"), C(3)), 2), CallTo("f", {}),
                        Check("d", d), End>>)
          @@ ("f" :> <<Jump(Cmp("le", V("x"), C(0)), 5), Let("x", PlusC("x", -1)), CallTo("f", {}),
                       Let("y", PlusC("y", 1)), Check("c", Cmp("lt", V("y"), C(2))), End>>)] :
     d \in {Cmp("eq", V("x"), C(0)), Cmp("eq", V("y"), C(1))}}

All(programs, modes, ks) == [program : programs, mode : modes, k : ks]

Bounded == {"base_case", "forward_condition"}
Inductive_ == {"inductive_step"}

MCCases ==
  All(Branches, {"base_case"}, {2})
    \cup All(Whiles \cup Stepping, Bounded \cup Inductive_, {2, 3})
    \cup All(Breaks \cup Nested \cup Sequential, Bounded, {2, 3})
    \cup All(Calls(Known), Bounded, {1, 3})
    \cup All(Calls(External), Bounded, {2})
    \cup All(Calls(Known), Inductive_, {2})
    \cup All(Recursive, Bounded, {2, 3})

BreakCases == All(Breaks, Inductive_, {2})
NestedCases == All(Nested, Inductive_, {2})
SequentialCases == All(Sequential, Inductive_, {2})
=============================================================================
