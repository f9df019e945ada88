----------------------------- MODULE MCPaperEngine -----------------------------
(***************************************************************************)
(* The scenarios the engine is run in.                                     *)
(***************************************************************************)
EXTENDS PaperEngine

\* One config whose calls fail in every way and whose process stops twice; and two configs under
\* a reset, a change of the configs, refused fills and trades that somebody else deletes.
Crashing ==
    [configs |-> {"k1"}, trades |-> 3, bars |-> 3, crashes |-> 2, resets |-> 0, changes |-> 0,
     faults |-> AllFaults \ {"list", "delete", "gone"}]

Resetting ==
    [configs |-> {"k1", "k2"}, trades |-> 2, bars |-> 2, crashes |-> 0, resets |-> 1, changes |-> 1,
     faults |-> {"book", "delete", "gone", "list"}]

MCScenarios == {Crashing, Resetting}

\* One config, fills that are refused and trades whose creation is not answered.
Refusing ==
    [configs |-> {"k1"}, trades |-> 3, bars |-> 3, crashes |-> 0, resets |-> 0, changes |-> 0,
     faults |-> {"book", "createLost"}]

SettlingScenarios == {Refusing}
=============================================================================
