------------------------------- MODULE Epd4g -------------------------------
(***************************************************************************)
(* The library below display_eink.c and the panel below the library, as    *)
(* docs/architecture.md and tests/host/test_display_eink.c describe them.  *)
(* One job runs at a time.  An update first sends its rows, which it reads *)
(* from the framebuffer all the while; then the wave goes over the glass,  *)
(* for seconds; a partial update in one bit then sends the same rows once  *)
(* more, to keep the two memories of the panel the same.                   *)
(*                                                                         *)
(* A panel is a record: the job, in which mode the panel is initialised,   *)
(* whether it sleeps, whether its drivers have power, how the last job     *)
(* ended, and what is on the glass.  Rows whose wave was cut short, or     *)
(* whose two memories differ, show nothing to rely on.                     *)
(***************************************************************************)
EXTENDS Naturals

CONSTANTS Rows, Colours, Unclear

PanelModes == {"gray", "mono"}

NoJob == [kind |-> "none", mode |-> "gray", rows |-> {}, phase |-> "none"]

Unpowered(glass) ==
    [job |-> NoJob, mode |-> "none", asleep |-> FALSE, live |-> FALSE, result |-> "ok",
     glass |-> glass]

Busy(p) == p.job.kind # "none"

\* epd4g_data_busy: the framebuffer is still needed.
DataBusy(p) ==
    \/ p.job.phase \in {"data", "resync"}
    \/ p.job.phase = "wave" /\ p.job.kind = "partial" /\ p.job.mode = "mono"

Blurred(p) == [p EXCEPT !.glass = [r \in Rows |-> IF r \in p.job.rows THEN Unclear ELSE @[r]]]

\* What becomes of the glass when a job is cut short.
CutShort(p) == IF p.job.phase \in {"wave", "resync"} THEN Blurred(p) ELSE p

\* epd4g_abort
Aborted(p) == Unpowered(CutShort(p).glass)

\* A start in the wrong state is refused: ERR_BUSY, ERR_NOT_INIT.
Accepts(p, kind, mode) ==
    /\ ~Busy(p)
    /\ CASE kind = "init" -> TRUE
         [] kind = "full" -> p.mode = mode /\ ~p.asleep
         [] kind = "partial" -> p.mode = mode /\ (mode = "gray" => ~p.asleep)
         [] kind = "sleep" -> p.mode # "none"

Started(p, kind, mode, rows) ==
    [p EXCEPT !.job = [kind |-> kind, mode |-> mode, rows |-> rows,
                       phase |-> IF rows = {} THEN "wave" ELSE "data"]]

Finished(p) ==
    LET q == [p EXCEPT !.job = NoJob,
                       !.result = IF p.job.kind = "off" THEN @ ELSE "ok"]
    IN  CASE p.job.kind = "init" ->
                [q EXCEPT !.mode = p.job.mode, !.asleep = FALSE, !.live = TRUE]
          [] p.job.kind = "full" -> [q EXCEPT !.live = TRUE]
          [] p.job.kind = "partial" ->
                IF p.job.rows = {} THEN q ELSE [q EXCEPT !.asleep = FALSE, !.live = TRUE]
          [] p.job.kind = "off" -> [q EXCEPT !.live = FALSE]
          [] p.job.kind = "sleep" ->
                IF p.mode = "gray" THEN [q EXCEPT !.mode = "none", !.live = FALSE]
                ELSE [q EXCEPT !.asleep = TRUE, !.live = FALSE]

\* The next phase of the job, of a panel that answers.
Advanced(p, fb) ==
    LET shown == [r \in Rows |-> IF r \in p.job.rows THEN fb[r] ELSE p.glass[r]]
        resync == p.job.kind = "partial" /\ p.job.mode = "mono"
    IN  CASE p.job.phase = "data" -> [p EXCEPT !.job.phase = "wave", !.glass = shown]
          [] p.job.phase = "wave" /\ resync -> [p EXCEPT !.job.phase = "resync"]
          [] p.job.phase = "wave" /\ ~resync -> Finished(p)
          [] p.job.phase = "resync" ->
                Finished([p EXCEPT !.glass =
                            [r \in Rows |-> IF shown[r] = @[r] THEN @[r] ELSE Unclear]])

\* A panel that stays busy for too long.
TimedOut(p) ==
    IF p.job.kind = "off" THEN Finished(p)
    ELSE [CutShort(p) EXCEPT !.job = NoJob, !.result = "failed"]

\* epd4g_poll.  Of its own accord it takes the power from a panel that is idle.
Polled(p, fb, answers) ==
    IF ~Busy(p)
    THEN {p} \cup (IF p.live THEN {Started(p, "off", "gray", {})} ELSE {})
    ELSE {Advanced(p, fb)} \cup
            (IF answers \/ (p.job.kind = "partial" /\ p.job.rows = {}) THEN {} ELSE {TimedOut(p)})
=============================================================================
