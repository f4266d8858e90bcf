---------------------------- MODULE ThreadProgram ----------------------------
(***************************************************************************)
(* What one thread of the program under test does in one step, as symbolic *)
(* execution sees it (execution_statet::symex_step over the instructions   *)
(* the thread library expands to), and the reference: the outcomes of the  *)
(* program's assertions under every interleaving.                          *)
(*                                                                         *)
(* A program is a record of bodies (sequences of instructions; bodies[1]   *)
(* is main's) and leak_check (--memory-leak-check: other threads outlive   *)
(* main).  Threads are numbered as they are spawned, main being 0.         *)
(***************************************************************************)
EXTENDS Integers, Sequences, FiniteSets

LibVar == "pthread_lib"    \* the library's globals: __ESBMC_num_threads_running,
                           \* __ESBMC_pthread_thread_ended, ...

EndOfBody == [op |-> "end", x |-> LibVar]

Thread(conf) == DOMAIN conf.threads

NewThread(body) ==
  [body |-> body, pc |-> 1, thread_ended |-> FALSE, atomic |-> 0, local |-> 0]

(* Only main runs; every global is zero-initialised.                       *)
InitialConf(program, Vars) ==
  [mem |-> [x \in Vars |-> 0],
   threads |-> [t \in {0} |-> NewThread(1)],
   feasible |-> TRUE,       \* no assumption has failed on this interleaving
   guard_false |-> FALSE]   \* the interleaving's guard is the constant false

Instr(program, conf, t) ==
  LET thread == conf.threads[t]
      body == program.bodies[thread.body]
  IN  IF thread.pc <= Len(body) THEN body[thread.pc] ELSE EndOfBody

(* The shared variables an instruction reads and writes.                   *)
Reads(program, conf, t) ==
  LET i == Instr(program, conf, t)
  IN  IF ~conf.guard_false /\ i.op \in {"load", "inc", "assert", "assume"} THEN {i.x}
      ELSE IF ~conf.guard_false /\ i.op = "join" THEN {LibVar}
      ELSE {}

Writes(program, conf, t) ==
  LET i == Instr(program, conf, t)
  IN  IF conf.guard_false THEN {}
      ELSE IF i.op \in {"store", "inc"} THEN {i.x}
      ELSE IF i.op = "spawn" \/ (i.op = "end" /\ (t # 0 \/ program.leak_check)) THEN {LibVar}
      ELSE {}

(* The claim an instruction makes, if any: where, and about what value.    *)
Claims(program, conf, t) ==
  LET i == Instr(program, conf, t)
  IN  IF conf.guard_false THEN {}
      ELSE IF i.op = "assert" THEN {<<t, conf.threads[t].pc, conf.mem[i.x]>>}
      ELSE IF i.op = "claim" THEN {<<t, conf.threads[t].pc, conf.threads[t].local>>}
      ELSE {}

(* The effect of an instruction on memory, on the thread, on the set of    *)
(* threads, and on the feasibility of the interleaving.                    *)
NewMem(i, conf, t) ==
  CASE i.op = "store" -> [conf.mem EXCEPT ![i.x] = t + 1]
    [] i.op = "inc" -> [conf.mem EXCEPT ![i.x] = @ + 1]
    [] OTHER -> conf.mem

AfterInstr(i, conf, t) ==
  LET thread == conf.threads[t]
  IN  CASE i.op = "end" -> [thread EXCEPT !.thread_ended = TRUE, !.atomic = 0]
        [] i.op = "atomic_begin" -> [thread EXCEPT !.pc = @ + 1, !.atomic = @ + 1]
        [] i.op = "atomic_end" -> [thread EXCEPT !.pc = @ + 1, !.atomic = @ - 1]
        [] i.op = "load" /\ ~conf.guard_false ->
             [thread EXCEPT !.pc = @ + 1, !.local = conf.mem[i.x]]
        [] OTHER -> [thread EXCEPT !.pc = @ + 1]

Assumption(i, conf) ==
  CASE i.op = "assume" -> conf.mem[i.x] # 0
    [] i.op = "join" -> i.x \in Thread(conf) /\ conf.threads[i.x].thread_ended
    [] OTHER -> TRUE

Step(program, conf, t) ==
  LET i == Instr(program, conf, t)
      moved == [conf.threads EXCEPT ![t] = AfterInstr(i, conf, t)]
      spawned == Cardinality(Thread(conf))
      mainEnds == i.op = "end" /\ t = 0 /\ ~program.leak_check
  IN  IF conf.guard_false THEN [conf EXCEPT !.threads = moved]
      ELSE [mem |-> NewMem(i, conf, t),
            threads |-> IF i.op = "spawn"
                          THEN [u \in 0 .. spawned |->
                                  IF u = spawned THEN NewThread(i.x) ELSE moved[u]]
                          ELSE moved,
            feasible |-> conf.feasible /\ Assumption(i, conf) /\ ~mainEnds,
            guard_false |-> mainEnds]

-----------------------------------------------------------------------------
(* The reference: every interleaving of the threads' instructions with at  *)
(* most `bound' context switches (-1: any number), atomic blocks kept      *)
(* whole.  A node is a configuration, the thread that ran last and the     *)
(* number of switches so far.                                              *)

Enabled(conf) ==
  LET inside == {t \in Thread(conf) : conf.threads[t].atomic > 0}
      live == {t \in Thread(conf) : ~conf.threads[t].thread_ended}
  IN  IF ~conf.feasible THEN {} ELSE IF inside # {} THEN inside ELSE live

Switches(node, t) == node.switches + (IF t = node.last THEN 0 ELSE 1)

Schedulable(node, bound) ==
  {t \in Enabled(node.conf) : bound = -1 \/ Switches(node, t) <= bound}

Successors(program, bound, node) ==
  {[conf |-> Step(program, node.conf, t), last |-> t,
    switches |-> IF bound = -1 THEN 0 ELSE Switches(node, t)] :
      t \in Schedulable(node, bound)}

(* A body is spawned at most once, so no interleaving is longer than the   *)
(* instructions of all bodies with the end of each.                        *)
Longest(program) ==
  LET total[b \in 0 .. Len(program.bodies)] ==
        IF b = 0 THEN 0 ELSE total[b - 1] + Len(program.bodies[b]) + 1
  IN  total[Len(program.bodies)]

Start(program, Vars) ==
  [conf |-> InitialConf(program, Vars), last |-> 0, switches |-> 0]

Layer(program, bound, before) == UNION {Successors(program, bound, node) : node \in before}

(* The nodes after n steps, for every n.                                   *)
Layers(program, Vars, bound) ==
  LET layer[n \in 0 .. Longest(program)] ==
        IF n = 0 THEN {Start(program, Vars)} ELSE Layer(program, bound, layer[n - 1])
  IN  layer

Outcomes(program, Vars, bound) ==
  LET layer == Layers(program, Vars, bound)
      nodes == UNION {layer[n] : n \in 0 .. Longest(program)}
  IN  UNION {UNION {Claims(program, node.conf, t) : t \in Schedulable(node, bound)} :
               node \in nodes}
=============================================================================
