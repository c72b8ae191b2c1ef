------------------------------ MODULE GpxFile ------------------------------
(***************************************************************************)
(* What a GPX track file is made of.                                       *)
(*                                                                         *)
(* The logger hands FatFs three kinds of strings: the header, one string   *)
(* per track point and the footer.  A write may stop in the middle of a    *)
(* string, so a file is a sequence of units: unit i of a string is its     *)
(* i-th piece, and a string is StrLen[kind] units long.  What a string     *)
(* says (coordinates, time, battery) is left out; a point is known by the  *)
(* serial number the logger gave it.                                       *)
(***************************************************************************)
EXTENDS Integers, Sequences

CONSTANTS StrLen,          (* units in a string of each kind                *)
          GPX_BUFFER_SIZE  (* units the logger's RAM buffer holds            *)

Kinds == {"header", "point", "footer"}

\* Every string fits the empty buffer (512 bytes in the code).
ASSUME StrLenAssumption ==
    /\ GPX_BUFFER_SIZE \in Nat
    /\ StrLen \in [Kinds -> Nat]
    /\ \A k \in Kinds : StrLen[k] > 0 /\ StrLen[k] <= GPX_BUFFER_SIZE

Unit == [kind : Kinds, pt : Nat, i : Nat]

Str(k, p) == [j \in 1..StrLen[k] |-> [kind |-> k, pt |-> p, i |-> j]]

Header == Str("header", 0)
Point(p) == Str("point", p)
Footer == Str("footer", 0)

\* u is the last unit of its string.
EndsString(u) == u.i = StrLen[u.kind]

\* A string that begins with v may follow the whole string that ends with u:
\* points are consecutive, the footer ends the file.
MayFollow(u, v) ==
    \/ u.kind = "header" /\ v.kind \in {"point", "footer"}
    \/ u.kind = "point" /\ v.kind = "footer"
    \/ u.kind = "point" /\ v.kind = "point" /\ v.pt = u.pt + 1

Adjacent(u, v) ==
    \/ /\ ~ EndsString(u)
       /\ v = [u EXCEPT !.i = @ + 1]
    \/ /\ EndsString(u)
       /\ v.i = 1
       /\ MayFollow(u, v)

\* f starts with the header and has no torn, missing or repeated string before
\* its last one: it is a GPX file that was cut at some point, or a whole one.
WellFormed(f) ==
    /\ Len(f) > 0 => f[1].kind = "header" /\ f[1].i = 1
    /\ \A j \in 1..(Len(f) - 1) : Adjacent(f[j], f[j + 1])

\* The points f holds whole.
PointsIn(f) ==
    { f[j].pt : j \in { m \in 1..Len(f) : f[m].kind = "point" /\ EndsString(f[m]) } }
=============================================================================
