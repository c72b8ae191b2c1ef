----------------------------- MODULE ByteStream -----------------------------
(***************************************************************************)
(* What purrgo_gnss_read_byte (include/purrgo/gnss_io.h) owes to the NMEA  *)
(* parser: the bytes of the receiver, each at most once and in their       *)
(* order.  Nothing is skipped unless the driver had a reason to lose bytes *)
(* since the last one it gave: an overrun, an error of the line, a receiver*)
(* that was off.  Only an overrun that ends in an error, before the driver *)
(* has looked at the counter again, costs the order as well, up to the     *)
(* restart.                                                                *)
(***************************************************************************)
EXTENDS Integers, Sequences

VARIABLES
    sent,   (* how many bytes the receiver has sent; a byte is its number   *)
    out,    (* the bytes given to the parser                                *)
    gap     (* what the next byte may be: the "next", a "later" or "any"    *)

vars == <<sent, out, gap>>

Given == {out[i] : i \in 1..Len(out)}

LastGiven == IF out = <<>> THEN 0 ELSE out[Len(out)]

Init == sent = 0 /\ out = <<>> /\ gap = "next"

Send == sent' = sent + 1 /\ gap' \in {gap, "later"} /\ UNCHANGED out

Lose == gap' \in {"later", "any"} /\ UNCHANGED <<sent, out>>

Give ==
    \E b \in 1..sent :
        /\ b \notin Given
        /\ gap = "next" => b = LastGiven + 1
        /\ gap = "later" => b > LastGiven
        /\ out' = Append(out, b)
        /\ gap' = IF gap = "any" THEN "any" ELSE "next"
        /\ UNCHANGED sent

Next == Send \/ Lose \/ Give

Spec == Init /\ [][Next]_vars
=============================================================================
