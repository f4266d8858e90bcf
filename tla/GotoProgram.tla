----------------------------- MODULE GotoProgram -----------------------------
(***************************************************************************)
(* A sequential goto program, goto-programs/goto_program.h, and what it    *)
(* does when it runs: the reference by which the interval analysis, the    *)
(* loop transformation and symbolic execution are judged.  program.body    *)
(* maps each function that has a body to its instructions, a location is a *)
(* pair <<function, index>>, and main is where the program starts.         *)
(***************************************************************************)
EXTENDS Integers, Sequences, FiniteSets

CONSTANT Width     \* the bits of an unsigned variable; 0: values never overflow

ASSUME WidthAssumption == Width \in Nat

Wrap(v) == IF Width = 0 THEN v ELSE v % 2^Width

Main == "main"

Instr(program, l) == program.body[l[1]][l[2]]

Location(program) ==
  UNION {{<<f, i>> : i \in DOMAIN program.body[f]} : f \in DOMAIN program.body}

Begin(f) == <<f, 1>>
EndOf(program, f) == <<f, Len(program.body[f])>>
Following(l) == <<l[1], l[2] + 1>>
Target(program, l) == <<l[1], Instr(program, l).target>>

IsTarget(program, l) ==
  \E i \in DOMAIN program.body[l[1]] :
    LET instr == program.body[l[1]][i]
    IN  instr.type = "GOTO" /\ instr.target = l[2]

(* is_backwards_goto.                                                      *)
IsBackwards(program, l) ==
  LET i == Instr(program, l) IN i.type = "GOTO" /\ i.target <= l[2]

(* compute_loop_numbers: a loop is named after its backwards goto, and the *)
(* instruction it goes back to has its number too (the last one's, if two  *)
(* go back there).                                                         *)
LoopsAt(program, l) ==
  {b \in {<<l[1], n>> : n \in DOMAIN program.body[l[1]]} :
     IsBackwards(program, b) /\ (b = l \/ Target(program, b) = l)}

NoLoop == <<>>

loop_number(program, l) ==
  LET loops == LoopsAt(program, l)
  IN  IF loops = {} THEN NoLoop
      ELSE CHOOSE b \in loops : \A other \in loops : other[2] <= b[2]

(* goto_programt::get_successors: the target before the next instruction.  *)
get_successors(program, l) ==
  LET i == Instr(program, l)
  IN  CASE i.type = "GOTO" ->
             <<Target(program, l)>> \o (IF i.guard.op = "true" THEN <<>> ELSE <<Following(l)>>)
        [] i.type = "RETURN" -> <<EndOf(program, l[1])>>
        [] i.type = "END_FUNCTION" -> <<>>
        [] OTHER -> <<Following(l)>>

ExprVars(e) ==
  IF e.op = "var" THEN {e.x} ELSE IF e.op = "plus" THEN {e.x} ELSE {}

GuardVars(g) ==
  CASE g.op = "true" -> {}
    [] g.op \in {"and", "or"} ->
         UNION {ExprVars(g.parts[n].a) \cup ExprVars(g.parts[n].b) : n \in DOMAIN g.parts}
    [] OTHER -> ExprVars(g.a) \cup ExprVars(g.b)

(* The variables the code and the guards of a function name.               *)
Symbols(program, f) ==
  UNION {LET i == program.body[f][n]
         IN  CASE i.type \in {"GOTO", "ASSUME", "ASSERT"} -> GuardVars(i.guard)
               [] i.type = "DECL" -> {i.x}
               [] i.type = "ASSIGN" -> {i.x} \cup ExprVars(i.e)
               [] i.type = "FUNCTION_CALL" -> i.ret
               [] i.type = "RETURN" -> ExprVars(i.e)
               [] OTHER -> {} : n \in DOMAIN program.body[f]}

-----------------------------------------------------------------------------
(* Running a program.  A configuration is where control is, the calls to   *)
(* return to (innermost first), the value being returned and the values of *)
(* the variables.                                                          *)

Values(e, val, nondet) ==
  CASE e.op = "const" -> {e.c}
    [] e.op = "var" -> {val[e.x]}
    [] e.op = "plus" -> {Wrap(val[e.x] + e.c)}
    [] e.op = "nondet" -> nondet

Eval(e, val) == CHOOSE v \in Values(e, val, {}) : TRUE

HoldsCmp(g, val) ==
  LET a == Eval(g.a, val)
      b == Eval(g.b, val)
  IN  CASE g.op = "eq" -> a = b
        [] g.op = "ne" -> a # b
        [] g.op = "lt" -> a < b
        [] g.op = "le" -> a <= b
        [] g.op = "gt" -> a > b
        [] g.op = "ge" -> a >= b

Holds(g, val) ==
  CASE g.op = "true" -> TRUE
    [] g.op = "and" -> \A n \in DOMAIN g.parts : HoldsCmp(g.parts[n], val)
    [] g.op = "or" -> \E n \in DOMAIN g.parts : HoldsCmp(g.parts[n], val)
    [] OTHER -> HoldsCmp(g, val)

Start(vars) == [at |-> Begin(Main), calls |-> <<>>, ret |-> 0, val |-> [x \in vars |-> 0]]

Assigned(cfg, xs, values) ==
  {[cfg.val EXCEPT ![x] = v] : x \in xs, v \in values}

(* The executions of one instruction; jumped tells a taken GOTO, which     *)
(* skips whatever is inserted in front of its target.                      *)
Moves(program, nondet, cfg) ==
  LET i == Instr(program, cfg.at)
      go(l, val, jumped) == [to |-> [cfg EXCEPT !.at = l, !.val = val], jumped |-> jumped]
  IN  CASE i.type = "GOTO" ->
             {IF Holds(i.guard, cfg.val)
                THEN go(Target(program, cfg.at), cfg.val, TRUE)
                ELSE go(Following(cfg.at), cfg.val, FALSE)}
        [] i.type = "ASSUME" ->
             IF Holds(i.guard, cfg.val) THEN {go(Following(cfg.at), cfg.val, FALSE)} ELSE {}
        [] i.type = "ASSERT" -> {go(Following(cfg.at), cfg.val, FALSE)}
        [] i.type = "DECL" ->
             {go(Following(cfg.at), val, FALSE) : val \in Assigned(cfg, {i.x}, nondet)}
        [] i.type = "ASSIGN" ->
             {go(Following(cfg.at), val, FALSE) :
                val \in Assigned(cfg, {i.x}, Values(i.e, cfg.val, nondet))}
        [] i.type = "FUNCTION_CALL" /\ i.function \in DOMAIN program.body ->
             {[to |-> [cfg EXCEPT !.at = Begin(i.function), !.calls = <<cfg.at>> \o @],
               jumped |-> FALSE]}
        [] i.type = "FUNCTION_CALL" /\ i.function \notin DOMAIN program.body ->
             IF i.ret = {} THEN {go(Following(cfg.at), cfg.val, FALSE)}
             ELSE {go(Following(cfg.at), val, FALSE) : val \in Assigned(cfg, i.ret, nondet)}
        [] i.type = "RETURN" ->
             {[to |-> [cfg EXCEPT !.at = EndOf(program, cfg.at[1]), !.ret = v],
               jumped |-> TRUE] : v \in Values(i.e, cfg.val, nondet)}
        [] i.type = "END_FUNCTION" ->
             IF cfg.calls = <<>> THEN {}
             ELSE LET l == Head(cfg.calls)
                      xs == Instr(program, l).ret
                  IN  {[to |-> [at |-> Following(l), calls |-> Tail(cfg.calls), ret |-> 0,
                                val |-> [x \in DOMAIN cfg.val |->
                                           IF x \in xs THEN cfg.ret ELSE cfg.val[x]]],
                        jumped |-> FALSE]}

(* Every step an execution of at most `depth' steps takes.                 *)
Steps(program, vars, nondet, depth) ==
  LET start == {[to |-> Start(vars), jumped |-> FALSE]}
      found[n \in 0 .. depth] ==
        IF n = 0 THEN [all |-> start, last |-> start]
        ELSE LET before == found[n - 1]
                 new == UNION {Moves(program, nondet, step.to) : step \in before.last}
                          \ before.all
             IN  [all |-> before.all \cup new, last |-> new]
  IN  found[depth].all
=============================================================================
