--------------------------- MODULE IntervalAnalysis ---------------------------
(***************************************************************************)
(* --interval-analysis: ai_baset's fixpoint over the locations of a goto   *)
(* program (abstract-interpretation/ai.cpp) with the interval domain, and  *)
(* the assumptions that instrument_intervals then inserts in the program   *)
(* every later phase checks.                                               *)
(*                                                                         *)
(* The working set is an unordered_map, so whichever of its locations      *)
(* comes out next.  A call runs a fixpoint of the callee inside the visit  *)
(* of the call: stack holds one frame per fixpoint in progress, the        *)
(* innermost last, with the call that each but the first is run for.       *)
(***************************************************************************)
EXTENDS IntervalDomain, GotoProgram

CONSTANTS
  Cases,      \* programs, each with the options it is analysed with
  Nondet,     \* the values an unknown input may have
  Depth       \* how long an execution the reference follows

ExprOK(e) ==
  /\ e.op \in {"const", "var", "plus", "nondet"}
  /\ e.op \in {"const", "plus"} => e.c \in Int
  /\ e.op \in {"var", "plus"} => e.x \in IntVars \cup FloatVars

Comparison(g) == g.op \in DOMAIN Negated /\ ExprOK(g.a) /\ ExprOK(g.b)

GuardOK(g) ==
  \/ g.op = "true"
  \/ Comparison(g)
  \/ /\ g.op \in {"and", "or"}
     /\ Len(g.parts) \in Nat /\ DOMAIN g.parts = 1 .. Len(g.parts)
     /\ \A n \in DOMAIN g.parts : Comparison(g.parts[n])

InstructionTypes ==
  {"GOTO", "ASSUME", "ASSERT", "DECL", "ASSIGN", "FUNCTION_CALL", "RETURN", "END_FUNCTION"}

(* A body ends with its only END_FUNCTION, jumps stay inside it, and every *)
(* variable is an integer or a float.                                      *)
WellFormed(p) ==
  /\ Main \in DOMAIN p.body
  /\ \A f \in DOMAIN p.body :
       LET body == p.body[f]
       IN  /\ Len(body) \in Nat \ {0} /\ DOMAIN body = 1 .. Len(body)
           /\ \A n \in 1 .. Len(body) :
                LET i == body[n]
                IN  /\ i.type \in InstructionTypes
                    /\ i.type = "END_FUNCTION" <=> n = Len(body)
                    /\ i.type = "GOTO" => i.target \in 1 .. Len(body)
                    /\ i.type \in {"GOTO", "ASSUME"} => GuardOK(i.guard)
                    /\ i.type \in {"DECL", "ASSIGN"} => i.x \in IntVars \cup FloatVars
                    /\ i.type \in {"ASSIGN", "RETURN"} => ExprOK(i.e)

ASSUME ProgramAssumption ==
  \A c \in Cases :
    /\ WellFormed(c.program)
    /\ c.options \in [arithmetic : BOOLEAN, extrapolate : BOOLEAN, under_approximate : BOOLEAN,
                       narrowing : BOOLEAN, limit : Nat]

ASSUME ReferenceAssumption == Nondet \subseteq Int /\ Depth \in Nat

VARIABLES
  program, options,
  state_map,      \* the abstract state before each location
  stack,          \* the fixpoints in progress
  assumptions     \* at each instrumented location, the intervals assumed

vars == <<program, options, state_map, stack, assumptions>>

NoCall == <<>>

Frame(function, call) == [working_set |-> {Begin(function)}, call |-> call]

Top == stack[Len(stack)]
Lower == SubSeq(stack, 1, Len(stack) - 1)

NotYet == [l \in {} |-> NoMap]

Init ==
  /\ \E c \in Cases : program = c.program /\ options = c.options
  /\ state_map = [l \in Location(program) |-> IF l = Begin(Main) THEN TopState ELSE Bottom]
  /\ stack = <<Frame(Main, NoCall)>>
  /\ assumptions = NotYet

transform_ReturnValueKept(s, from, to) ==
  LET i == Instr(program, from)
  IN  CASE i.type = "DECL" -> havoc_rec(s, {i.x})
        [] i.type = "ASSIGN" -> apply_assignment(s, i.x, i.e, options)
        [] i.type = "GOTO" /\ Target(program, from) # Following(from) ->
             assume_rec(s, i.guard, to = Following(from), options)
        [] i.type = "ASSUME" -> assume_rec(s, i.guard, FALSE, options)
        [] OTHER -> s

(* The abstract effect of the instruction at `from' on the way to `to'.    *)
transform(s, from, to) ==
  LET i == Instr(program, from)
  IN  CASE i.type = "DECL" -> havoc_rec(s, {i.x})
        [] i.type = "ASSIGN" -> apply_assignment(s, i.x, i.e, options)
        [] i.type = "GOTO" /\ Target(program, from) # Following(from) ->
             assume_rec(s, i.guard, to = Following(from), options)
        [] i.type = "ASSUME" -> assume_rec(s, i.guard, FALSE, options)
        [] i.type = "FUNCTION_CALL" -> havoc_rec(s, i.ret)
        [] OTHER -> s

Merge_FirstOnly(analysis, s, to) ==
  [state_map |-> [analysis.state_map EXCEPT
                    ![to] = Join(analysis.state_map[to], s, options).state],
   working_set |-> IF analysis.state_map[to].bottom /\ ~s.bottom
                     THEN analysis.working_set \cup {to} ELSE analysis.working_set]

Merge_WrongSide(analysis, s, to) ==
  LET joined == Join(analysis.state_map[to], s, options)
  IN  [state_map |-> [analysis.state_map EXCEPT ![to] = joined.state],
       working_set |-> IF joined.changed \/ joined.state # s THEN analysis.working_set \cup {to}
                       ELSE analysis.working_set]

(* put_in_working_set, when a merge brought something new.                 *)
Merged(analysis, joined, to) ==
  [state_map |-> [analysis.state_map EXCEPT ![to] = joined.state],
   working_set |-> IF joined.changed THEN analysis.working_set \cup {to}
                   ELSE analysis.working_set]

Merge(analysis, s, to) == Merged(analysis, Join(analysis.state_map[to], s, options), to)

IsCall(l) ==
  /\ Instr(program, l).type = "FUNCTION_CALL"
  /\ Instr(program, l).function \in DOMAIN program.body

(* One location out of the working set, along each of its edges.           *)
Visited(l) ==
  LET edge(analysis, to) == Merge(analysis, transform(analysis.state_map[l], l, to), to)
      start == [state_map |-> state_map, working_set |-> Top.working_set \ {l}]
  IN  FoldLeft(edge, start, get_successors(program, l))

visit ==
  \E l \in Top.working_set :
    /\ ~IsCall(l)
    /\ \E after \in {Visited(l)} :
         /\ state_map' = after.state_map
         /\ stack' = Append(Lower, [Top EXCEPT !.working_set = after.working_set])
    /\ UNCHANGED <<program, options, assumptions>>

ReturnEdge_NoNewData(states, frame, call) ==
  LET end == EndOf(program, Instr(program, call).function)
      joined == Join(states[Following(call)], states[end], options)
  IN  [state_map |-> [states EXCEPT ![Following(call)] = joined.state], frame |-> frame]

(* From the end of a function to the location after the call, unless the   *)
(* end has not been reached.                                               *)
ReturnEdge(states, frame, call) ==
  LET end == EndOf(program, Instr(program, call).function)
      here == [state_map |-> states, working_set |-> frame.working_set]
      back(after) == [state_map |-> after.state_map,
                      frame |-> [frame EXCEPT !.working_set = after.working_set]]
  IN  back(IF states[end].bottom THEN here
           ELSE Merge(here, transform(states[end], end, Following(call)), Following(call)))

(* do_function_call: when the call brings something new to the beginning   *)
(* of the callee, the callee's fixpoint is computed first.                 *)
do_function_call ==
  \E l \in Top.working_set :
    /\ IsCall(l)
    /\ LET f == Instr(program, l).function
           frame == [Top EXCEPT !.working_set = @ \ {l}]
       IN  \E joined \in {Join(state_map[Begin(f)], transform(state_map[l], l, Begin(f)), options)} :
             LET entered == [state_map EXCEPT ![Begin(f)] = joined.state]
             IN  \/ /\ joined.changed
                    /\ state_map' = entered
                    /\ stack' = Lower \o <<frame, Frame(f, l)>>
                 \/ /\ ~joined.changed
                    /\ \E returned \in {ReturnEdge(entered, frame, l)} :
                         /\ state_map' = returned.state_map
                         /\ stack' = Append(Lower, returned.frame)
    /\ UNCHANGED <<program, options, assumptions>>

(* The fixpoint of a callee is complete.                                   *)
Return ==
  /\ Len(stack) > 1
  /\ Top.working_set = {}
  /\ \E returned \in {ReturnEdge(state_map, stack[Len(stack) - 1], Top.call)} :
       /\ state_map' = returned.state_map
       /\ stack' = Append(SubSeq(stack, 1, Len(stack) - 2), returned.frame)
  /\ UNCHANGED <<program, options, assumptions>>

(* Where assumptions are inserted: at the beginning of a function, on both *)
(* sides of a branch, and in front of targets and calls.  Not after calls: *)
(* the test for those asks for a guard no call has.                        *)
Instrumented(l) ==
  \/ l[2] = 1
  \/ LET previous == Instr(program, <<l[1], l[2] - 1>>)
     IN  previous.type = "GOTO" /\ previous.guard.op # "true"
  \/ IsTarget(program, l)
  \/ Instr(program, l).type = "FUNCTION_CALL"

Assumed_OneBehind(l) ==
  LET s == state_map[<<l[1], Larger(1, l[2] - 1)>>]
  IN  [x \in Mapped(s) \cap Symbols(program, l[1]) |-> get_interval_from_symbol(s, x)]

Assumed(l) ==
  LET s == state_map[l]
  IN  [x \in {y \in Mapped(s) \cap Symbols(program, l[1]) :
                get_interval_from_symbol(s, y) # TopInterval} |->
         get_interval_from_symbol(s, x)]

instrument_intervals ==
  /\ Len(stack) = 1
  /\ Top.working_set = {}
  /\ assumptions' = [l \in {k \in Location(program) : Instrumented(k)} |-> Assumed(l)]
  /\ stack' = <<>>
  /\ UNCHANGED <<program, options, state_map>>

Next ==
  /\ stack # <<>>
  /\ visit \/ do_function_call \/ Return \/ instrument_intervals

Done == stack = <<>>

(* The weak fairness of Next, which is enabled until the analysis is done: *)
(* the program goes on computing.                                          *)
Fairness == []<>Done \/ []<><<Next>>_vars

Spec == Init /\ [][Next]_vars /\ Fairness

-----------------------------------------------------------------------------
(* Properties *)

FunctionOf(n) == IF n = 1 THEN Main ELSE Instr(program, stack[n].call).function

TypeOK ==
  /\ \A l \in Location(program) :
       LET s == state_map[l]
       IN  /\ DOMAIN s.int_map \subseteq IntVars
           /\ DOMAIN s.real_map \subseteq FloatVars
           /\ s.bottom => Mapped(s) = {}
           /\ \A x \in Mapped(s) :
                LET i == get_interval_from_symbol(s, x) IN i \in Interval /\ ~Empty(i)
           /\ \A x \in DOMAIN s.fixpoint_map :
                x \in IntVars \cup FloatVars /\ s.fixpoint_map[x] \in 0 .. options.limit + 1
  /\ \A n \in DOMAIN stack :
       /\ stack[n].working_set \subseteq {l \in Location(program) : l[1] = FunctionOf(n)}
       /\ n > 1 => IsCall(stack[n].call) /\ stack[n].call[1] = FunctionOf(n - 1)

Pending == UNION {stack[n].working_set : n \in DOMAIN stack}

(* Nothing is forgotten: a location that is in no working set has had its  *)
(* state carried along all its edges (to the callee, for a call), however  *)
(* the work was ordered and whatever was widened since (ai.cpp:90-167,     *)
(* 186-210).                                                               *)
NothingForgotten ==
  \A l \in Location(program) \ Pending :
    IF IsCall(l)
      THEN LET begin == Begin(Instr(program, l).function)
           IN  Refines(transform(state_map[l], l, begin), state_map[begin])
      ELSE \A to \in Range(get_successors(program, l)) :
             Refines(transform(state_map[l], l, to), state_map[to])

(* The variables a program names, of either kind.                          *)
Named(p) == UNION {Symbols(p, f) : f \in DOMAIN p.body}
Ints(p) == IntVars \cap Named(p)
Floats(p) == FloatVars \cap Named(p)
OneKind(p) == Ints(p) = {} \/ Floats(p) = {}

(* The calls of functions with a body.                                     *)
CallIn(p, l) ==
  Instr(p, l).type = "FUNCTION_CALL" /\ Instr(p, l).function \in DOMAIN p.body

(* below[f] holds what f calls, and what that calls: no function is below  *)
(* itself.                                                                 *)
CallOrder(p, below) ==
  /\ \A f \in DOMAIN p.body : f \notin below[f] /\ \A g \in below[f] : below[g] \subseteq below[f]
  /\ \A l \in Location(p) : CallIn(p, l) => Instr(p, l).function \in below[l[1]]

(* Nothing that runs during a call names a variable the call returns into. *)
ReturnsApart(p, below) ==
  \A l \in Location(p) :
    CallIn(p, l) =>
      LET f == Instr(p, l).function
      IN  \A g \in {f} \cup below[f] : Instr(p, l).ret \cap Symbols(p, g) = {}

(* The programs whose calls the analysis follows exactly as they run.      *)
Layered(p) ==
  \E below \in [DOMAIN p.body -> SUBSET (DOMAIN p.body)] :
    CallOrder(p, below) /\ ReturnsApart(p, below)

Executed ==
  [p \in {c.program : c \in Cases} |-> Steps(p, IntVars \cup FloatVars, Nondet, Depth)]

(* When the analysis ends, every execution has, at every location it       *)
(* reaches, values within the intervals there: through branches, loops,    *)
(* nested calls of one function from several places, extrapolation         *)
(* (interval_domain.cpp:703-779, ai.cpp:169-238).                          *)
IntervalsSound ==
  Done => \A step \in Executed[program] : Admits(state_map[step.to.at], step.to.val)

(* No inserted assumption removes an execution: whenever control comes to  *)
(* one (a jump passes it by), the values satisfy it                        *)
(* (interval_analysis.cpp:27-88).                                          *)
AssumptionsHold ==
  Done =>
    \A step \in Executed[program] :
      LET l == step.to.at
      IN  ~step.jumped /\ l \in DOMAIN assumptions =>
            \A x \in DOMAIN assumptions[l] : HasValue(assumptions[l][x], step.to.val[x])

(* The reference result of a program without calls: the least fixpoint,    *)
(* by rounds over all locations at once.                                   *)
HullOfAll(maps) ==
  LET some == CHOOSE m \in maps : TRUE
      both(m, n) == [x \in DOMAIN m \cap DOMAIN n |-> Hull(m[x], n[x])]
  IN  FoldSet(both, some, maps)

Upper(states) ==
  LET live == {s \in states : ~s.bottom}
  IN  IF live = {} THEN Bottom
      ELSE [TopState EXCEPT !.int_map = HullOfAll({s.int_map : s \in live}),
                            !.real_map = HullOfAll({s.real_map : s \in live})]

LeastStates ==
  LET start == [l \in Location(program) |-> IF l = Begin(Main) THEN TopState ELSE Bottom]
      into(m, to) == {transform(m[l], l, to) :
                        l \in {k \in Location(program) : to \in Range(get_successors(program, k))}}
      round[n \in 0 .. Depth] ==
        IF n = 0 THEN start
        ELSE LET before == round[n - 1]
                 after == [to \in Location(program) |-> Upper({before[to]} \cup into(before, to))]
             IN  IF after = before THEN before ELSE after
  IN  round[Depth]

(* Without extrapolation the result is the least fixpoint: neither a bound *)
(* nor a reached location depends on the order in which an unordered_map   *)
(* hands out its elements (ai.h:98-100, ai.cpp:79-113).                    *)
OrderDoesNotMatter ==
  Done /\ ~options.extrapolate /\ ~(\E l \in Location(program) : IsCall(l)) =>
    LET least == LeastStates
    IN  \A l \in Location(program) :
          Refines(state_map[l], least[l]) /\ Refines(least[l], state_map[l])

(* The analysis ends, on loops without a bound too once intervals are      *)
(* extrapolated (interval_domain.cpp:194-224, 732-741).                    *)
Terminates == <>Done
=============================================================================
