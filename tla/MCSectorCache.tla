--------------------------- MODULE MCSectorCache ---------------------------
(***************************************************************************)
(* A small card: a file of two sectors of two bytes, the last one not full, *)
(* and a second file that is written and takes its place; two slots share  *)
(* a cache of three entries, and blocks have two sectors.                  *)
(***************************************************************************)
EXTENDS SectorCache

MCSlots == {1, 2}
MCFiles == {"a", "b"}
MCCards == {[a |-> <<1, 2, 3>>, b |-> Absent]}

MCOneFile == {"a"}
MCOneCard == {[a |-> <<1, 2, 3>>]}
=============================================================================
