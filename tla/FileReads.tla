----------------------------- MODULE FileReads -----------------------------
(***************************************************************************)
(* What fs_hal.h promises to who reads a file: the bytes handed out are    *)
(* the bytes of the file as it was opened, at the place of the handle,     *)
(* with none missing in between; and all that were asked for, unless the   *)
(* handle has met an error or has lost its card.                           *)
(***************************************************************************)
EXTENDS Integers, Sequences

CONSTANTS Handles, Files, Absent

VARIABLES
    disk,    (* the contents of the files, or Absent                       *)
    open,    (* the handles: bytes of the file and place, sick or not      *)
    given    (* what the last read was asked for and gave                  *)

vars == <<disk, open, given>>

Nothing == [asked |-> 0, bytes |-> <<>>]

Closed == [open |-> FALSE, file |-> Absent, bytes |-> <<>>, pos |-> 0, sick |-> FALSE]

\* A handle that has met an error, or lost its card.
Sick(v) ==
    [open |-> TRUE, file |-> v.file, bytes |-> v.bytes, pos |-> v.pos, sick |-> TRUE]

Init ==
    /\ open = [h \in Handles |-> Closed]
    /\ given = Nothing

Open(h, f) ==
    /\ ~open[h].open /\ disk[f] # Absent
    /\ open' = [open EXCEPT ![h] =
                   [open |-> TRUE, file |-> f, bytes |-> disk[f], pos |-> 0, sick |-> FALSE]]
    /\ UNCHANGED <<disk, given>>

Close(h) ==
    /\ open[h].open
    /\ open' = [open EXCEPT ![h] = Closed]
    /\ UNCHANGED <<disk, given>>

Seek(h, pos) ==
    /\ open[h].open /\ pos <= Len(open[h].bytes)
    /\ open' = [open EXCEPT ![h].pos = pos]
    /\ UNCHANGED <<disk, given>>

\* Less than was asked for, and was left in the file, comes only from a sick handle.
Read(h) ==
    LET v == open[h]
        k == Len(given'.bytes)
        left == Len(v.bytes) - v.pos
    IN  /\ v.open /\ given'.asked > 0 /\ k <= left
        /\ given'.bytes = SubSeq(v.bytes, v.pos + 1, v.pos + k)
        /\ open' = [open EXCEPT ![h].pos = v.pos + k]
        /\ v.sick \/ k = given'.asked \/ k = left
        /\ UNCHANGED disk

Forget == given' = Nothing /\ UNCHANGED <<disk, open>>

\* The files change, but not one that is open and well; a handle may fall sick.
Change ==
    /\ \A h \in Handles :
        IF open[h].open
        THEN /\ open'[h] \in {open[h], Sick(open[h])}
             /\ open'[h].sick \/ disk'[open[h].file] = disk[open[h].file]
        ELSE open'[h] = Closed
    /\ UNCHANGED given

Next ==
    \/ \E h \in Handles :
        \/ \E f \in Files : Open(h, f)
        \/ Close(h)
        \/ \E pos \in 0..Len(open[h].bytes) : Seek(h, pos)
        \/ Read(h)
    \/ Forget
    \/ Change

Spec == Init /\ [][Next]_vars
=============================================================================
