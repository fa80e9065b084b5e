------------------------------ MODULE MCRekey -------------------------------
(***************************************************************************)
(* Rekey for TLC: three passwords, two of which differ only after the      *)
(* bytes that make the key, and two databases of three pages, the second   *)
(* of which stands for the page of the lock bytes.                         *)
(***************************************************************************)
EXTENDS Rekey

MCPasswords == {[key |-> "k1", rest |-> "x"], [key |-> "k1", rest |-> "y"],
                [key |-> "k2", rest |-> "x"]}

\* A database that is exempt from the properties is not used any further.
Unspoiled == spoiled = {}
=============================================================================
