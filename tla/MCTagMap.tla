------------------------------ MODULE MCTagMap ------------------------------
(***************************************************************************)
(* TagMap for TLC: mac.log as it may be left by an earlier run: empty, with *)
(* the tags of two pages, with so many entries for the header of page 1    *)
(* that the table grows, with a page beyond the table, and with as many    *)
(* records as createMap has room for.                                      *)
(***************************************************************************)
EXTENDS TagMap

R(p, t) == [page |-> p, tag |-> t]

MCGarbage == {R(0, "b"), R(5, "a")}

MCLogs == {<<>>,
           <<R(0, "a"), R(1, "b"), R(4, "a")>>,
           <<R(0, "a"), R(0, "b"), R(0, "a"), R(0, "a"), R(1, "b"), R(4, "a")>>,
           <<R(1, "a"), R(5, "b")>>,
           <<R(0, "a"), R(0, "a"), R(0, "a"), R(0, "a"), R(0, "a"), R(1, "a"), R(4, "b")>>}
=============================================================================
