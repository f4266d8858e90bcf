------------------------------ MODULE KInduction ------------------------------
(***************************************************************************)
(* goto_k_induction.cpp and goto_loops.cpp: what the inductive step does   *)
(* to the loops of a program.  In front of each loop every variable the    *)
(* loop may modify gets an unknown value, and the branches that lead out   *)
(* of the loop are assumed not to be taken.                                *)
(*                                                                         *)
(* The instructions of a function are a std::list, and loops, targets and  *)
(* caches refer to its nodes.  Here a node is [number, instr, inductive]:  *)
(* number is the location number it had before the transformation, 0 if it *)
(* was inserted.  insert_swap moves an instruction to a new node behind    *)
(* the one it was in, so that jumps to it arrive at what was inserted.     *)
(* Left out: pointers, and the names check_var_name turns away.            *)
(***************************************************************************)
EXTENDS GotoProgram, SequencesExt

Node(number, instr, inductive) == [number |-> number, instr |-> instr, inductive |-> inductive]

Nodes(body) == [n \in DOMAIN body |-> Node(n, body[n], FALSE)]

IsGoto(node) == node.instr.type = "GOTO"

BackwardsNode(nodes, n) ==
  IsGoto(nodes[n]) /\ nodes[nodes[n].instr.target].number <= nodes[n].number

(* Where the node with a number is now.                                    *)
At(nodes, number) == CHOOSE n \in DOMAIN nodes : nodes[n].number = number

(* insert_swap.                                                            *)
InsertSwap(nodes, at, new) ==
  LET k == Len(new)
      shifted(node) ==
        IF IsGoto(node) /\ node.instr.target > at
          THEN [node EXCEPT !.instr.target = @ + k] ELSE node
      moved == [n \in DOMAIN nodes |-> shifted(nodes[n])]
      inserted == [n \in 1 .. k |-> Node(IF n = 1 THEN nodes[at].number ELSE 0, new[n], TRUE)]
  IN  IF k = 0 THEN nodes
      ELSE SubSeq(moved, 1, at - 1) \o inserted
             \o <<[moved[at] EXCEPT !.number = 0]>> \o SubSeq(moved, at + 1, Len(nodes))

-----------------------------------------------------------------------------
(* goto_loops.cpp                                                          *)

(* A function calls those that its instructions name, and these others.    *)
Callees(program, f) ==
  {program.body[f][n].function :
     n \in {m \in DOMAIN program.body[f] : program.body[f][m].type = "FUNCTION_CALL"}}
    \cap DOMAIN program.body

CalledFrom(program, fs) ==
  LET more[n \in 0 .. Cardinality(DOMAIN program.body)] ==
        IF n = 0 THEN fs ELSE more[n - 1] \cup UNION {Callees(program, f) : f \in more[n - 1]}
  IN  more[Cardinality(DOMAIN program.body)]

Written(instrs) ==
  UNION {CASE i.type = "ASSIGN" -> {i.x}
           [] i.type = "FUNCTION_CALL" -> i.ret
           [] OTHER -> {} : i \in instrs}

Called(instrs) == {i.function : i \in {j \in instrs : j.type = "FUNCTION_CALL"}}

get_modified_variables_NoCalls(program, instrs) == Written(instrs)

(* What the instructions of a loop assign, and the functions they call.    *)
get_modified_variables(program, instrs) ==
  LET functions == CalledFrom(program, Called(instrs) \cap DOMAIN program.body)
  IN  Written(instrs) \cup UNION {Written(Range(program.body[f])) : f \in functions}

(* The loops of a function, by the numbers of head and exit, the last one  *)
(* first.  A goto to itself is none.                                       *)
FunctionLoops(program, f) ==
  LET body == program.body[f]
      exits == {n \in DOMAIN body : body[n].type = "GOTO" /\ body[n].target < n}
      last_first(a, b) == a > b
  IN  [n \in 1 .. Cardinality(exits) |->
         LET exit == SetToSortSeq(exits, last_first)[n]
             instrs == {body[i] : i \in body[exit].target .. exit - 1}
         IN  [head |-> body[exit].target, exit |-> exit,
              vars |-> get_modified_variables(program, instrs)]]

-----------------------------------------------------------------------------
(* goto_k_induction.cpp.  Conditions are collected by the number of their  *)
(* branch.                                                                 *)

Negated == [lt |-> "ge", le |-> "gt", gt |-> "le", ge |-> "lt", eq |-> "ne", ne |-> "eq"]

make_not(g) == [g EXCEPT !.op = Negated[g.op]]

NoGuards == [n \in {} |-> {}]

(* unordered_map::insert: what is there already stays.                     *)
WithGuard(number, g, more) ==
  [n \in {number} \cup DOMAIN more |-> IF n = number THEN g ELSE more[n]]

(* get_entry_cond_rec from a node on: does control leave the loop, which   *)
(* conditions keep it inside, and marked_branch, which is shared by all    *)
(* loops of a function.  The walk answers from marked_branch at whatever   *)
(* branch it finds there, with what was kept: whether its sides differ.    *)
get_entry_cond_rec(nodes, head, exit, marked_branch) ==
  LET Mark == {"new", "same", "differ"}
      done(leaves, guards, marked) == [leaves |-> leaves, guards |-> guards, marked |-> marked]
      walk[n \in DOMAIN nodes, marked \in [DOMAIN marked_branch -> Mark]] ==
        LET number == nodes[n].number
            guard == nodes[n].instr.guard
            enter(at, m) ==
              IF nodes[at].number > nodes[exit].number THEN done(TRUE, NoGuards, m) ELSE walk[at, m]
            true_branch == enter(nodes[n].instr.target, marked)
            false_branch ==
              IF guard.op = "true" THEN done(TRUE, NoGuards, true_branch.marked)
              ELSE enter(n + 1, true_branch.marked)
            differ == true_branch.leaves # false_branch.leaves
            after == [false_branch.marked EXCEPT ![number] = IF differ THEN "differ" ELSE "same"]
        IN  CASE n = exit -> done(FALSE, NoGuards, marked)
              [] n # exit /\ marked[number] # "new" ->
                   done(marked[number] = "differ", NoGuards, marked)
              [] n # exit /\ marked[number] = "new" /\ (~IsGoto(nodes[n]) \/ BackwardsNode(nodes, n)) ->
                   walk[n + 1, marked]
              [] OTHER ->
                   IF ~differ THEN done(true_branch.leaves, NoGuards, after)
                   ELSE IF ~true_branch.leaves
                     THEN done(FALSE, WithGuard(number, guard, true_branch.guards), after)
                     ELSE done(FALSE, WithGuard(number, make_not(guard), false_branch.guards), after)
  IN  walk[head, marked_branch]

remove_unrelated_loop_cond(guards, vars) ==
  [n \in {m \in DOMAIN guards : GuardVars(guards[m]) \cap vars # {}} |-> guards[n]]

Assume(g) == [type |-> "ASSUME", guard |-> g]

(* assume_loop_entry_cond_before_loop: in front of every branch that has a *)
(* condition, wherever in the loop it is.                                  *)
assume_loop_entry_cond_before_loop(nodes, guards) ==
  LET assume(number, ns) == InsertSwap(ns, At(ns, number), <<Assume(guards[number])>>)
  IN  FoldSet(assume, nodes, DOMAIN guards)

(* make_nondet_assign.                                                     *)
make_nondet_assign(nodes, head, vars) ==
  LET havoc(x) == [type |-> "ASSIGN", x |-> x, e |-> [op |-> "nondet"]]
      xs == SetToSeq(vars)
  IN  InsertSwap(nodes, At(nodes, head), [n \in DOMAIN xs |-> havoc(xs[n])])

(* adjust_loop_head_and_exit: the loop goes back behind what was inserted  *)
(* at its head.                                                            *)
adjust_loop_head_and_exit(nodes, head, exit) ==
  LET old == {n \in DOMAIN nodes : n > At(nodes, head) /\ ~nodes[n].inductive}
      loop_head == CHOOSE n \in old : \A m \in old : n <= m
  IN  [nodes EXCEPT ![At(nodes, exit)].instr.target = loop_head]

EntryConditions_MarksForgotten(state, loop) ==
  get_entry_cond_rec(state.nodes, At(state.nodes, loop.head), At(state.nodes, loop.exit),
                     [n \in DOMAIN state.marked_branch |-> "new"])

EntryConditions(state, loop) ==
  get_entry_cond_rec(state.nodes, At(state.nodes, loop.head), At(state.nodes, loop.exit),
                     state.marked_branch)

(* convert_finite_loop; numbers remembers which branches were collected.   *)
convert_finite_loop(state, loop) ==
  LET entry == EntryConditions(state, loop)
      guards == remove_unrelated_loop_cond(entry.guards, loop.vars)
      assumed == assume_loop_entry_cond_before_loop(state.nodes, guards)
      havocked == make_nondet_assign(assumed, loop.head, loop.vars)
  IN  IF loop.vars = {} THEN state
      ELSE [nodes |-> adjust_loop_head_and_exit(havocked, loop.head, loop.exit),
            marked_branch |-> entry.marked,
            numbers |-> state.numbers \cup DOMAIN guards]

ConvertFunction(program, f) ==
  LET body == program.body[f]
      start == [nodes |-> Nodes(body), marked_branch |-> [n \in 0 .. Len(body) |-> "new"],
                numbers |-> {}]
  IN  FoldLeft(convert_finite_loop, start, FunctionLoops(program, f))

(* The program for all three steps of k-induction, and which of its        *)
(* instructions only the inductive step executes.                          *)
goto_k_induction(program) ==
  LET converted == [f \in DOMAIN program.body |-> ConvertFunction(program, f)]
      locations(f) == {<<f, n>> : n \in {m \in DOMAIN converted[f].nodes : converted[f].nodes[m].inductive}}
  IN  [body |-> [f \in DOMAIN converted |->
                   [n \in DOMAIN converted[f].nodes |-> converted[f].nodes[n].instr]],
       inductive |-> UNION {locations(f) : f \in DOMAIN converted},
       numbers |-> UNION {converted[f].numbers : f \in DOMAIN converted}]
=============================================================================
