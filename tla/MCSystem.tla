------------------------------ MODULE MCSystem ------------------------------
(* Instances of System. *)
EXTENDS System

MCMaxTx == [f \in Files |-> IF f = "test.db" THEN 2 ELSE 1]

Argv(help, daemonize, bad, dev) ==
    [help |-> help, daemonize |-> daemonize, bad |-> bad, dev |-> dev]

MCArgvs == {Argv(TRUE, TRUE, FALSE, -1), Argv(FALSE, TRUE, TRUE, -1), Argv(FALSE, TRUE, FALSE, -1),
            Argv(FALSE, FALSE, FALSE, 1)}
MCDevices == {[n \in 0..1 |-> IF n = 0 THEN "other" ELSE "optee"]}

Request(cmd, types, open) == [cmd |-> cmd, types |-> types, open |-> open]
MCRequests == {Request("EXEC", {"INOUT", "NONE"}, "NONE"), Request("OTHER", {"INOUT"}, "NONE"),
               Request("EXEC", {"INOUT"}, "INOUT")}
=============================================================================
