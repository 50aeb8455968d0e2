--------------------------- MODULE MCGovcSession ---------------------------
(***************************************************************************)
(* Two monitors that share a session, one of them of a disk usage, and one *)
(* of another vCenter.                                                     *)
(***************************************************************************)
EXTENDS GovcSession

CONSTANTS m1, m2, m3

MCQueries == {m1, m2, m3}
MCDiskUsage == {m1}
MCKeyOf == [q \in MCQueries |-> IF q = m3 THEN "other" ELSE "shared"]
=============================================================================
