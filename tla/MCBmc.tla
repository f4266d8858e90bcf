-------------------------------- MODULE MCBmc --------------------------------
(* The programs of MCReachabilityTree with every formula solved as a       *)
(* whole; a few, with a claim in each thread, with the claims solved one   *)
(* by one, with an early return, and with a solver that gives up.          *)
EXTENDS MCReachabilityTree, Bmc

Config(multi, parallel, fast, all, fails) ==
  [multi_property |-> multi, parallel_solving |-> parallel, fail_fast |-> fast,
   all_runs |-> all, solver_fails |-> fails]

Plain == Config(FALSE, FALSE, FALSE, TRUE, FALSE)

MCConfigs ==
  {Plain}
    \cup {Config(FALSE, FALSE, FALSE, all, fails) : all, fails \in BOOLEAN}
    \cup {Config(TRUE, parallel, fast, TRUE, FALSE) : parallel, fast \in BOOLEAN}
    \cup {Config(TRUE, TRUE, TRUE, FALSE, fails) : fails \in BOOLEAN}

Judge(x) == <<I("load", x), I("claim", "none")>>

(* Claims in every thread, one of which fails only where another does.     *)
ClaimPrograms ==
  {Flat(m, b, c, TRUE) :
     m \in {<<>>, <<I("store", "x"), I("assert", "y")>>},
     b \in {Judge("x"), <<Begin, I("assert", "x"), I("assert", "y"), End>>},
     c \in {<<I("store", "y"), I("load", "x"), I("claim", "none")>>,
            <<I("store", "x"), I("store", "y")>>}}

AllPrograms == MCPrograms \cup ClaimPrograms

(* Without partial-order reduction there are many more interleavings:      *)
(* main does not interfere with what it has spawned, or only looks at it.  *)
BoundedPrograms ==
  {Flat(<<>>, b, c, TRUE) : b, c \in ThreadBodies}
    \cup {Flat(Judge("x"), b, b, TRUE) : b \in ThreadBodies}

MCInit ==
  /\ BmcInit
  /\ options = Bounded => program \in BoundedPrograms
  /\ program \in MCPrograms \/ config # Plain
  /\ config # Plain => program \in ClaimPrograms /\ options = Default

MCSpec == MCInit /\ [][BmcNext]_allVars /\ Fairness
=============================================================================
