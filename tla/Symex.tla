--------------------------------- MODULE Symex ---------------------------------
(***************************************************************************)
(* Symbolic execution of a sequential goto program up to an unwinding      *)
(* bound: execution_statet::symex_step and goto_symext (goto-symex), in    *)
(* the three ways k-induction uses it.                                     *)
(*                                                                         *)
(* One pass over the program turns it into a list of SSA steps.  At a      *)
(* branch one side is put aside until control comes to where the sides     *)
(* meet; there its variables are merged.  World stands for the unknown     *)
(* inputs of the program: an expression is its value in each world, with   *)
(* the symbols it names and whether it is, after simplification, a         *)
(* constant.  Conditions are comparisons, all variables are globals.       *)
(***************************************************************************)
EXTENDS Guards, KInduction, Slice

CONSTANTS
  Cases,      \* [program, mode, k]: what is executed, for which step, how far
  Vars,       \* the variables of the programs
  Inputs,     \* how many unknown inputs a world fixes
  Depth       \* how long an execution the reference follows

ASSUME WorldAssumption == World = 0 .. 2^(Width * Inputs) - 1

(* A body ends with its only END_FUNCTION, and what it jumps to and the    *)
(* variables it names are there.                                           *)
WellFormed(p) ==
  /\ Main \in DOMAIN p.body
  /\ \A f \in DOMAIN p.body :
       LET body == p.body[f]
       IN  /\ Len(body) \in Nat \ {0} /\ DOMAIN body = 1 .. Len(body)
           /\ Symbols(p, f) \subseteq Vars
           /\ \A n \in 1 .. Len(body) :
                /\ body[n].type = "END_FUNCTION" <=> n = Len(body)
                /\ body[n].type = "GOTO" => body[n].target \in 1 .. Len(body)
                /\ body[n].type \in {"ASSIGN", "RETURN"} =>
                     body[n].e.op \in {"const", "var", "plus", "nondet"}

(* So it is before and after the loop transformation, which inserts        *)
(* nothing behind the end of a function; and no variable has the name that *)
(* the conditions of branches or the inputs get.                           *)
ASSUME ProgramAssumption ==
  /\ IsFiniteSet(Vars) /\ "guard" \notin Vars /\ "nondet" \notin Vars
  /\ \A c \in Cases :
       LET converted == goto_k_induction(c.program)
       IN  /\ WellFormed(c.program) /\ WellFormed(converted)
           /\ \A l \in converted.inductive \cap Location(converted) :
                Instr(converted, l).type # "END_FUNCTION"

VARIABLES
  program, options,
  goto_functions, \* the program after the loop transformation
  cur_state,    \* goto_symex_statet, first_loop and the counters for names
  SSA_steps     \* the equation

vars == <<program, options, goto_functions, cur_state, SSA_steps>>

-----------------------------------------------------------------------------
(* The option table of the three steps.                                    *)

inductive_step == options.mode = "inductive_step"
no_unwinding_assertions == options.mode # "forward_condition"
partial_loops == options.mode = "inductive_step"
no_assertions == options.mode = "forward_condition"
max_unwind == options.k

pc == cur_state.pc
instruction == Instr(goto_functions, pc)

Ended == <<>>

frame(function, entry_guard, calling_location, return_value) ==
  [function |-> function, entry_guard |-> entry_guard, calling_location |-> calling_location,
   return_value |-> return_value, goto_state_map |-> [l \in {} |-> <<>>]]

Constant(c) == [const |-> TRUE, val |-> [w \in World |-> c], syms |-> {}]

Init ==
  /\ \E c \in Cases : program = c.program /\ options = [mode |-> c.mode, k |-> c.k]
  /\ goto_functions = goto_k_induction(program)
  /\ cur_state =
       [pc |-> Begin(Main),
        guard |-> TrueGuard,
        level2 |-> [x \in Vars |-> [num |-> 1, const |-> TRUE, val |-> [w \in World |-> 0]]],
        call_stack |-> <<frame(Main, TrueGuard, Ended, {})>>,
        loop_iterations |-> [b \in {l \in Location(goto_functions) : IsBackwards(goto_functions, l)} |-> 0],
        function_unwind |-> [f \in DOMAIN program.body |-> IF f = Main THEN 1 ELSE 0],
        first_loop |-> NoLoop, guards |-> 0, nondets |-> 0]
  /\ SSA_steps = <<>>

-----------------------------------------------------------------------------
(* Expressions                                                             *)

(* rename: a variable that holds a constant is replaced by it.             *)
Symbol(level2, x) ==
  [const |-> level2[x].const, val |-> level2[x].val,
   syms |-> IF level2[x].const THEN {} ELSE {<<x, level2[x].num>>}]

Input(n) ==
  [const |-> FALSE, val |-> [w \in World |-> Wrap(w \div 2^(Width * n))], syms |-> {<<"nondet", n>>}]

(* The value of an expression that is assigned; an unknown one is a new    *)
(* input (replace_nondet).                                                 *)
rename(state, e) ==
  CASE e.op = "const" -> Constant(e.c)
    [] e.op = "var" -> Symbol(state.level2, e.x)
    [] e.op = "plus" ->
         [Symbol(state.level2, e.x) EXCEPT !.val = [w \in World |-> Wrap(@[w] + e.c)]]
    [] e.op = "nondet" -> Input(state.nondets)

(* A condition: where it holds, and whether the simplifier knows it to.    *)
Meaning(state, g) ==
  LET value(w) == [x \in Vars |-> state.level2[x].val[w]]
      symbols == {Symbol(state.level2, x) : x \in GuardVars(g)}
  IN  [const |-> \A s \in symbols : s.const,
       den |-> {w \in World : Holds(g, value(w))},
       syms |-> UNION {s.syms : s \in symbols}]

Not(c) == [c EXCEPT !.den = World \ @]

True_ == [const |-> TRUE, den |-> World, syms |-> {}]
False_ == Not(True_)

IsTrue(c) == c.const /\ c.den = World
IsFalse(c) == c.const /\ c.den = {}

(* if2t, simplified.                                                       *)
If(g, a, b) ==
  IF is_true(g) THEN a
  ELSE IF a.const /\ b.const /\ a.val = b.val THEN a
  ELSE LET den == Den(g)
       IN  [const |-> FALSE, val |-> [w \in World |-> IF w \in den THEN a.val[w] ELSE b.val[w]],
            syms |-> Syms(g) \cup a.syms \cup b.syms]

-----------------------------------------------------------------------------
(* What the handlers are made of.  Each takes and returns a configuration: *)
(* the state and the steps so far.                                         *)

Now == [state |-> cur_state, steps |-> SSA_steps]

top(state) == state.call_stack[Len(state.call_stack)]

Goto(c, l) == [c EXCEPT !.state.pc = l]
NextPc(c) == Goto(c, Following(c.state.pc))
Emit(c, step) == [c EXCEPT !.steps = Append(@, step)]
Guard(c) == c.state.guard

assignment(c, x, rhs) ==
  LET num == c.state.level2[x].num + 1
  IN  [Emit(c, Assignment(<<x, num>>, rhs.syms)) EXCEPT
         !.state.level2[x] = [num |-> num, const |-> rhs.const, val |-> rhs.val]]

symex_assign(c, x, e) ==
  LET assigned == assignment(c, x, rename(c.state, e))
  IN  IF e.op = "nondet" THEN [assigned EXCEPT !.state.nondets = c.state.nondets + 1]
      ELSE assigned

(* A call returns into one variable or none.                               *)
assign_each(c, xs, e) ==
  LET assign(x, d) == symex_assign(d, x, e)
  IN  FoldSet(assign, c, xs)

Assumed(c, cond) ==
  Emit(c, Assumption(guard_expr(Guard(c), cond.den), Syms(Guard(c)) \cup cond.syms))

(* Assuming the constant false, literally, kills the path.                 *)
assume(c, cond) == IF IsTrue(cond) THEN c ELSE Assumed(c, cond)

assume_false(c) == [Assumed(c, False_) EXCEPT !.state.guard = make_false(Guard(c))]

(* claim: in all but the last iteration of the inductive step a claim is   *)
(* the induction hypothesis.                                               *)
claim(c, cond, msg) ==
  IF /\ inductive_step
     /\ c.state.first_loop # NoLoop
     /\ c.state.loop_iterations[c.state.first_loop] < max_unwind - 1
    THEN assume(c, cond)
  ELSE IF is_false(Guard(c)) \/ IsTrue(cond) THEN c
  ELSE Emit(c, Assertion(guard_expr(Guard(c), cond.den), Syms(Guard(c)) \cup cond.syms, msg))

(* A goto_statet, put aside until control comes to l.                      *)
Queue(c, l, guard) ==
  LET top_frame == Len(c.state.call_stack)
      map == top(c.state).goto_state_map
      list == IF l \in DOMAIN map THEN map[l] ELSE <<>>
      goto_state == [guard |-> guard, level2 |-> c.state.level2]
  IN  [c EXCEPT !.state.call_stack[top_frame].goto_state_map =
         [m \in DOMAIN map \cup {l} |-> IF m = l THEN Append(list, goto_state) ELSE map[m]]]

-----------------------------------------------------------------------------
(* merge_gotos                                                             *)

Changed(c, goto_state) == {x \in Vars : goto_state.level2[x].num # c.state.level2[x].num}

phi(goto_state, guard, x, c) ==
  assignment(c, x, If(guard, Symbol(goto_state.level2, x), Symbol(c.state.level2, x)))

phi_function_WrongGuard(c, goto_state, merged) ==
  LET merge(x, d) == phi(goto_state, Minus(Guard(c), merged), x, d)
  IN  FoldSet(merge, c, Changed(c, goto_state))

phi_function_NamesRestored(c, goto_state, merged) ==
  LET merge(x, d) == phi(goto_state, Minus(goto_state.guard, merged), x, d)
  IN  IF is_false(Guard(c)) THEN [c EXCEPT !.state.level2 = goto_state.level2]
      ELSE FoldSet(merge, c, Changed(c, goto_state))

(* A variable that differs is what it was in the queued state where that   *)
(* state's guard holds; what the merged guard says anyway is not asked.    *)
phi_function(c, goto_state, merged) ==
  LET merge(x, d) == phi(goto_state, Minus(goto_state.guard, merged), x, d)
  IN  FoldSet(merge, c, Changed(c, goto_state))

merge_state_guards(goto_state, c) == Or(Guard(c), goto_state.guard)

merge_goto(goto_state, c) ==
  LET new_guard == merge_state_guards(goto_state, c)
      after == IF is_false(goto_state.guard) THEN c ELSE phi_function(c, goto_state, new_guard)
  IN  [after EXCEPT !.state.guard = new_guard]

(* The states put aside for this location, the last one first.             *)
merge_gotos(c) ==
  LET map == top(c.state).goto_state_map
      merged == FoldRight(merge_goto, map[c.state.pc], c)
  IN  IF c.state.pc \notin DOMAIN map THEN c
      ELSE [merged EXCEPT
              !.state.call_stack[Len(c.state.call_stack)].goto_state_map =
                [l \in DOMAIN map \ {c.state.pc} |-> map[l]]]

-----------------------------------------------------------------------------
(* symex_goto                                                              *)

Conjunct(cond) == IF IsFalse(cond) THEN False ELSE Condition(cond.den, cond.syms)

(* Beyond the bound: an unwinding assertion, an assumption, or nothing.    *)
loop_bound_exceeded(c, cond) ==
  LET checked == IF no_unwinding_assertions THEN Assumed(c, Not(cond)) ELSE claim(c, Not(cond), pc)
  IN  IF partial_loops THEN c
      ELSE [checked EXCEPT !.state.guard = add(Guard(c), Conjunct(Not(cond)))]

get_unwind_OneMore(unwind) == unwind > max_unwind

get_unwind(unwind) == unwind >= max_unwind

LeaveLoop_CountKept(c) ==
  [c EXCEPT !.state.first_loop = IF @ = loop_number(goto_functions, pc) THEN NoLoop ELSE @]

LeaveLoop(c) ==
  LET loop == loop_number(goto_functions, pc)
      first == c.state.first_loop
  IN  [c EXCEPT !.state.loop_iterations[loop] = 0,
                !.state.first_loop = IF first = loop THEN NoLoop ELSE first]

(* One side goes on, the other one is put aside; both guards get the new   *)
(* guard symbol, which stands for the jump not being taken.                *)
Branch(c, cond, aside, taken_aside) ==
  LET n == c.state.guards + 1
      symbol == <<"guard", n>>
      taken == Literal(symbol, TRUE, cond.den)
      not_taken == Literal(symbol, FALSE, World \ cond.den)
      queued == Queue(c, aside, add(Guard(c), IF taken_aside THEN taken ELSE not_taken))
  IN  [Emit(queued, Assignment(symbol, cond.syms)) EXCEPT
         !.state.guards = n,
         !.state.guard = add(Guard(c), IF taken_aside THEN not_taken ELSE taken)]

JumpForward(c, cond) ==
  LET target == Target(goto_functions, pc)
  IN  IF IsTrue(cond)
        THEN [NextPc(Queue(c, target, Guard(c))) EXCEPT !.state.guard = make_false(Guard(c))]
        ELSE NextPc(Branch(c, cond, target, TRUE))

JumpToItself(c, cond) ==
  NextPc(IF IsTrue(cond) THEN assume_false(c) ELSE assume(c, Not(cond)))

JumpBack(c, cond) ==
  LET loop == loop_number(goto_functions, pc)
      unwind == c.state.loop_iterations[loop] + 1
      counted == [c EXCEPT !.state.loop_iterations[loop] = unwind]
      back == Goto(counted, Target(goto_functions, pc))
  IN  IF get_unwind(unwind) THEN NextPc(LeaveLoop(loop_bound_exceeded(counted, cond)))
      ELSE IF IsTrue(cond) THEN back
      ELSE Branch(back, cond, Following(pc), FALSE)

symex_goto(c) ==
  LET cond == Meaning(c.state, instruction.guard)
      backwards == IsBackwards(goto_functions, pc)
  IN  IF IsFalse(cond) \/ is_false(Guard(c))
        THEN NextPc(IF backwards THEN LeaveLoop(c) ELSE c)
      ELSE IF ~backwards THEN JumpForward(c, cond)
      ELSE IF instruction.target = pc[2] THEN JumpToItself(c, cond)
      ELSE JumpBack(c, cond)

-----------------------------------------------------------------------------
(* symex_function.cpp                                                      *)

Call(c, f) ==
  [c EXCEPT
     !.state.call_stack = Append(c.state.call_stack, frame(f, Guard(c), pc, instruction.ret)),
     !.state.function_unwind[f] = c.state.function_unwind[f] + 1,
     !.state.pc = Begin(f)]

get_unwind_recursion(c, f) == c.state.function_unwind[f] >= max_unwind

(* symex_function_call_code: no deeper than the bound.                     *)
symex_function_call(c) ==
  LET f == instruction.function
  IN  IF f \notin DOMAIN program.body THEN NextPc(assign_each(c, instruction.ret, [op |-> "nondet"]))
      ELSE IF ~get_unwind_recursion(c, f) THEN Call(c, f)
      ELSE NextPc(IF no_unwinding_assertions THEN Assumed(c, False_) ELSE claim(c, False_, pc))

(* pop_frame: the guard is what it was at the call.                        *)
pop_frame(c) ==
  LET f == top(c.state)
  IN  [Goto(c, f.calling_location) EXCEPT
         !.state.guard = IF is_false(Guard(c)) THEN Guard(c) ELSE f.entry_guard,
         !.state.function_unwind[f.function] = c.state.function_unwind[f.function] - 1,
         !.state.call_stack = SubSeq(c.state.call_stack, 1, Len(c.state.call_stack) - 1)]

(* make_return_assignment, symex_return.                                   *)
symex_return(c) ==
  LET assigned == assign_each(c, top(c.state).return_value, instruction.e)
  IN  [Queue(assigned, EndOf(goto_functions, pc[1]), Guard(assigned)) EXCEPT
         !.state.guard = make_false(Guard(assigned))]

-----------------------------------------------------------------------------
(* symex_step, by the type of the instruction.                             *)

Inductive == pc \in goto_functions.inductive

Step(type) == pc # Ended /\ instruction.type = type /\ (Inductive => inductive_step)

Entered ==
  LET c == merge_gotos(Now)
      loop == loop_number(goto_functions, pc)
  IN  IF inductive_step /\ c.state.first_loop = NoLoop
        THEN [c EXCEPT !.state.first_loop = loop] ELSE c

Become(c) ==
  /\ cur_state' = c.state
  /\ SSA_steps' = c.steps
  /\ UNCHANGED <<program, options, goto_functions>>

(* Base case and forward condition pass over what was inserted for the     *)
(* inductive step.                                                         *)
SkipInductive ==
  /\ pc # Ended
  /\ Inductive
  /\ ~inductive_step
  /\ Become(NextPc(merge_gotos(Now)))

(* With a false guard an instruction other than a goto, or the end of a    *)
(* function, does nothing.                                                 *)
Unreachable ==
  /\ \E type \in {"ASSUME", "ASSERT", "ASSIGN", "RETURN", "FUNCTION_CALL"} : Step(type)
  /\ is_false(Guard(Entered))
  /\ Become(NextPc(Entered))

GotoStep == Step("GOTO") /\ Become(symex_goto(Entered))

Live(type) == Step(type) /\ ~is_false(Guard(Entered))

AssumeStep ==
  /\ Live("ASSUME")
  /\ Become(NextPc(assume(Entered, Meaning(Entered.state, instruction.guard))))

AssertStep ==
  /\ Live("ASSERT")
  /\ Become(NextPc(IF no_assertions THEN Entered
                   ELSE claim(Entered, Meaning(Entered.state, instruction.guard), instruction.id)))

AssignStep ==
  /\ Live("ASSIGN")
  /\ Become(NextPc(symex_assign(Entered, instruction.x, instruction.e)))

CallStep == Live("FUNCTION_CALL") /\ Become(symex_function_call(Entered))

ReturnStep == Live("RETURN") /\ Become(NextPc(symex_return(Entered)))

EndOfFunction ==
  /\ Step("END_FUNCTION")
  /\ pc[1] # Main
  /\ Become(NextPc(pop_frame(Entered)))

(* The end of main: assume(false), end_thread.                             *)
EndOfMain ==
  /\ Step("END_FUNCTION")
  /\ pc[1] = Main
  /\ Become(Goto(assume_false(Entered), Ended))

Done == pc = Ended

Terminating == Done /\ UNCHANGED vars

Next ==
  \/ SkipInductive
  \/ Unreachable
  \/ GotoStep
  \/ AssumeStep
  \/ AssertStep
  \/ AssignStep
  \/ CallStep
  \/ ReturnStep
  \/ EndOfFunction
  \/ EndOfMain
  \/ Terminating

Spec == Init /\ [][Next]_vars

-----------------------------------------------------------------------------
(* What the solver answers: the equation is satisfiable in the worlds that *)
(* satisfy all assumptions up to an assertion they violate.                *)

AssumedBefore(steps, n) ==
  {w \in World :
     \A m \in 1 .. n : steps[m].type = "ASSUME" /\ ~steps[m].ignore => w \in steps[m].den}

Violating(steps) == {n \in Asserts(steps) : AssumedBefore(steps, n) \ steps[n].den # {}}

SatisfiableClaims == {SSA_steps[n].msg : n \in Violating(SSA_steps)}

-----------------------------------------------------------------------------
(* The reference: executions of the program, with the turns of each loop   *)
(* counted since control entered it, in every active function.  A goto to  *)
(* itself is no loop: an execution that stays there has come to an end.    *)

Data == 0 .. 2^Width - 1

Backs(p) == {l \in Location(p) : IsBackwards(p, l) /\ Target(p, l) # l}

NoTurns(p) == [b \in Backs(p) |-> 0]

InLoop(p, b, l) == l[1] = b[1] /\ p.body[b[1]][b[2]].target <= l[2] /\ l[2] <= b[2]

Turned(p, e, step) ==
  LET l == e.cfg.at
      counted(turns) ==
        [b \in DOMAIN turns |-> IF b = l /\ step.jumped THEN turns[b] + 1
                                ELSE IF InLoop(p, b, step.to.at) THEN turns[b] ELSE 0]
      depth == Len(step.to.calls)
  IN  [cfg |-> step.to,
       turns |-> IF depth > Len(e.cfg.calls) THEN <<NoTurns(p)>> \o e.turns
                 ELSE IF depth < Len(e.cfg.calls) THEN Tail(e.turns)
                 ELSE <<counted(Head(e.turns))>> \o Tail(e.turns)]

(* A loop goes back less than k times; a function is active k times.       *)
Within(p, e, k) ==
  /\ \A b \in DOMAIN Head(e.turns) : Head(e.turns)[b] < k
  /\ \A f \in DOMAIN p.body :
       Cardinality({n \in DOMAIN e.cfg.calls : Instr(p, e.cfg.calls[n]).function = f}) <= k

Executions(p, k) ==
  LET start == {[cfg |-> Start(Vars), turns |-> <<NoTurns(p)>>]}
      successors(e) == {Turned(p, e, step) : step \in Moves(p, Data, e.cfg)}
      found[n \in 0 .. Depth] ==
        IF n = 0 THEN [all |-> start, last |-> start, beyond |-> FALSE]
        ELSE LET before == found[n - 1]
                 next == UNION {successors(e) : e \in before.last}
                 within == {e \in next : Within(p, e, k)}
             IN  [all |-> before.all \cup within, last |-> within \ before.all,
                  beyond |-> before.beyond \/ within # next]
  IN  found[Depth]

Violations(p, configurations) ==
  {Instr(p, c.at).id :
     c \in {d \in configurations : Instr(p, d.at).type = "ASSERT" /\ ~Holds(Instr(p, d.at).guard, d.val)}}

(* For every case: the claims violated within k, whether an execution goes *)
(* beyond k, and the claims violated at all.                               *)
Reference ==
  [c \in {[program |-> d.program, k |-> d.k] : d \in Cases} |->
     LET within == Executions(c.program, c.k)
     IN  [violated |-> Violations(c.program, {e.cfg : e \in within.all}),
          beyond |-> within.beyond,
          ever |-> Violations(c.program, {step.to : step \in Steps(c.program, Vars, Data, Depth)})]]

Actual == Reference[[program |-> program, k |-> options.k]]

-----------------------------------------------------------------------------
(* Properties *)

TypeOK ==
  /\ pc \in Location(goto_functions) \cup {Ended}
  /\ Den(cur_state.guard) \subseteq World
  /\ \A x \in Vars :
       /\ cur_state.level2[x].num \in Nat \ {0}
       /\ cur_state.level2[x].val \in [World -> Data]
       /\ cur_state.level2[x].const => \A v, w \in World : cur_state.level2[x].val[v] = cur_state.level2[x].val[w]
  /\ \A b \in DOMAIN cur_state.loop_iterations : cur_state.loop_iterations[b] \in 0 .. max_unwind - 1
  /\ \A f \in DOMAIN program.body : cur_state.function_unwind[f] \in 0 .. max_unwind
  /\ cur_state.nondets \in 0 .. Inputs

Cut ==
  UNION {World \ SSA_steps[n].den :
           n \in {m \in DOMAIN SSA_steps :
                    \/ SSA_steps[m].type = "ASSUME"
                    \/ SSA_steps[m].type = "ASSERT" /\ SSA_steps[m].msg \in Location(goto_functions)}}

(* In each active function an input takes exactly one path: the one at     *)
(* hand or one put aside, unless an assumption or the unwinding bound has  *)
(* cut it off (symex_goto.cpp:15-286, guard.cpp:120-199).                  *)
OnePathPerInput ==
  \A n \in DOMAIN cur_state.call_stack :
    LET f == cur_state.call_stack[n]
        here == IF n = Len(cur_state.call_stack) THEN cur_state.guard
                ELSE cur_state.call_stack[n + 1].entry_guard
        queued == UNION {{<<l, i>> : i \in DOMAIN f.goto_state_map[l]} : l \in DOMAIN f.goto_state_map}
        den(q) == Den(f.goto_state_map[q[1]][q[2]].guard)
    IN  /\ \A q \in queued : den(q) \cap Den(here) = {}
        /\ \A q, r \in queued : q # r => den(q) \cap den(r) = {}
        /\ Den(f.entry_guard) \ Cut \subseteq Den(here) \cup UNION {den(q) : q \in queued}

(* Every symbol of the equation has one assignment, so that none of two    *)
(* paths' values can get mixed (renaming.cpp:293-317); the code has an     *)
(* option, --double-assign-check, to test that.                            *)
SymbolsAssignedOnce ==
  \A m, n \in DOMAIN SSA_steps :
    m # n /\ SSA_steps[m].type = "ASSIGNMENT" /\ SSA_steps[n].type = "ASSIGNMENT" =>
      SSA_steps[m].lhs # SSA_steps[n].lhs

(* The conditions of a loop are at branches that have a number: for an     *)
(* inserted one the search for its number would find each instruction it   *)
(* inserts and never end (goto_k_induction.cpp:262-287).                   *)
LoopConversionEnds == 0 \notin goto_functions.numbers

(* The base case finds a claim violated exactly when an execution with     *)
(* less than k turns of every loop violates it (symex_goto.cpp:286-459,    *)
(* symex_target_equation.cpp:133-229).                                     *)
BaseCaseExact ==
  Done /\ options.mode = "base_case" => SatisfiableClaims = Actual.violated

(* The forward condition holds exactly when no execution goes beyond k     *)
(* (symex_goto.cpp:405-431).                                               *)
ForwardConditionExact ==
  Done /\ options.mode = "forward_condition" => (SatisfiableClaims = {} <=> ~Actual.beyond)

(* When base case and inductive step find nothing at k, there is nothing.  *)
(* (goto_k_induction.cpp:66-88, symex_main.cpp:54-66)                      *)
InductiveStepSound ==
  Done /\ options.mode = "inductive_step" /\ SatisfiableClaims = {} /\ Actual.violated = {} =>
    Actual.ever = {}

(* However the equation is sliced, behind the last claim, for all claims,  *)
(* and for each alone as --multi-property does: no step that stays names a *)
(* symbol whose assignment went (slice.cpp:10-190, bmc.cpp:755-761).       *)
Closed(steps) ==
  LET gone == {steps[n].lhs : n \in {m \in DOMAIN steps : steps[m].type = "ASSIGNMENT" /\ steps[m].ignore}}
  IN  \A n \in DOMAIN steps : steps[n].ignore \/ steps[n].syms \cap gone = {}

SlicedEquationClosed ==
  Done =>
    LET sliced == symex_slice(SSA_steps)
    IN  /\ Closed(simple_slice(SSA_steps))
        /\ Closed(sliced)
        /\ \A n \in Asserts(sliced) : Closed(symex_slice(claim_slicer(sliced, n)))
=============================================================================
