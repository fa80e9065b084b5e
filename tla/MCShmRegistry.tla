--------------------------- MODULE MCShmRegistry ---------------------------
(***************************************************************************)
(* ShmRegistry with three clients, so that a struct in the middle of the   *)
(* list is taken out while another thread is at each step of a request.    *)
(***************************************************************************)
EXTENDS ShmRegistry, TLC

\* Clients, structs and ids are alike.
Symmetry == Permutations(Clients) \cup Permutations(Nodes) \cup Permutations(Ids)
=============================================================================
