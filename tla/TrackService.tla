---------------------------- MODULE TrackService ----------------------------
(***************************************************************************)
(* track_logger_service of src/core/app_fsm.c: once a second it starts the *)
(* track, retries after a failure with a growing pause, and passes the fix *)
(* on.  It sees the logger only through its state, a second later: what    *)
(* happened in between it must conclude from the previous state.           *)
(*                                                                         *)
(* The logger, the card and the user are around it; one step of the clock  *)
(* is a second.  A comparison with a time stamp is an age or a countdown,  *)
(* both stopped at the largest value that is told apart.                   *)
(***************************************************************************)
EXTENDS Integers

CONSTANTS RetryDelays,   (* the pauses after the 1st, 2nd, 3rd failure      *)
          LOGGER_STABLE, (* PURRGO_LOGGER_STABLE_MS                         *)
          FailuresMax    (* where logger_start_failures stops (255)         *)

ASSUME TrackServiceAssumption ==
    /\ RetryDelays \in [1..3 -> Nat \ {0}]
    /\ RetryDelays[1] <= RetryDelays[2] /\ RetryDelays[2] <= RetryDelays[3]
    /\ LOGGER_STABLE \in Nat \ {0}
    /\ FailuresMax \in Nat /\ FailuresMax >= 3

VARIABLES
    logger,     (* current_state of the track logger                        *)
    service,    (* the statics of app_fsm.c                                 *)
    around,     (* the mode, the screen, the supply, the fix, the card      *)
    seen        (* history: what the backoff is judged by                   *)

vars == <<logger, service, around, seen>>

LoggerStates == {"IDLE", "RECORDING", "ERROR"}

Delay(n) == RetryDelays[IF n < 3 THEN n ELSE 3]

Older(age, limit) == IF age < limit THEN age + 1 ELSE limit

Sooner(t) == IF t > 0 THEN t - 1 ELSE 0

Init ==
    /\ logger = "IDLE"
    /\ service = [failures |-> 0, retryIn |-> 0, prev |-> "IDLE", recordingFor |-> 0]
    /\ around \in [mode : {"STANDARD"}, book : {FALSE}, blocked : {FALSE},
                   fix : {"none", "no date", "valid"}, card : {"good", "bad"}]
    /\ seen = [falls |-> 0, quiet |-> 0, steady |-> 0, tried |-> FALSE]

----------------------------------------------------------------------------
(* The service.  s is its statics after the clock has advanced.            *)

Scheduled_KeepsCounting(s) ==
    [s EXCEPT !.failures = @ + 1, !.retryIn = Delay(s.failures + 1)]

\* logger_schedule_retry
Scheduled(s) ==
    LET n == IF s.failures < FailuresMax THEN s.failures + 1 ELSE s.failures
    IN  [s EXCEPT !.failures = n, !.retryIn = Delay(n)]

Watched_ForgivesAtOnce(s) ==
    LET fell == logger = "ERROR" /\ s.prev = "RECORDING"
        goesOn == logger = "RECORDING" /\ s.prev = "RECORDING"
        v == IF fell THEN Scheduled(s) ELSE s
    IN  [v EXCEPT !.prev = logger, !.failures = IF goesOn THEN 0 ELSE @]

Watched_EverySecond(s) ==
    [(IF logger = "ERROR" THEN Scheduled(s) ELSE s) EXCEPT !.prev = logger]

\* The part before the fix is looked at: a fall is scheduled for a retry, and only
\* a recording that has lasted clears the failures.
Watched(s) ==
    LET fell == logger = "ERROR" /\ s.prev = "RECORDING"
        began == logger = "RECORDING" /\ s.prev # "RECORDING"
        lasted == logger = "RECORDING" /\ s.prev = "RECORDING"
                      /\ s.recordingFor >= LOGGER_STABLE
        v == IF fell THEN Scheduled(s) ELSE s
    IN  [v EXCEPT !.prev = logger,
                  !.recordingFor = IF began THEN 0 ELSE @,
                  !.failures = IF lasted THEN 0 ELSE @]

Due(s) ==
    /\ around.fix # "none"
    /\ around.mode # "OFF"
    /\ logger \in {"IDLE", "ERROR"}
    /\ s.failures = 0 \/ s.retryIn = 0

\* What purrgo_logger_start leaves: a failed file may be resumed without a date, a
\* new one is not even tried without it.
StartOutcomes ==
    (IF around.fix = "valid" \/ logger = "ERROR" THEN {"RECORDING"} ELSE {})
        \cup (IF around.fix = "no date" THEN {logger} ELSE {})
        \cup (IF around.fix = "valid" /\ around.card = "bad" THEN {"ERROR"} ELSE {})

\* What purrgo_logger_add_point leaves: a point may only reach the buffer.
AddOutcomes ==
    {"RECORDING"}
        \cup (IF around.fix = "valid" /\ around.card = "bad" THEN {"ERROR"} ELSE {})

\* The statics and the logger after the call.
Served(s) ==
    LET w == Watched(s)
        started == [w EXCEPT !.prev = "RECORDING", !.recordingFor = 0]
        added == { <<w, r>> : r \in AddOutcomes }
    IN  IF Due(w)
        THEN UNION { IF r = "RECORDING" THEN { <<started, q>> : q \in AddOutcomes }
                     ELSE {<<Scheduled(w), r>>} : r \in StartOutcomes }
        ELSE IF logger = "RECORDING" /\ around.fix # "none" THEN added
        ELSE {<<w, logger>>}

----------------------------------------------------------------------------
(* History: falls counts what went wrong since the last lasting recording, *)
(* quiet is the time since the last of them, steady how long the recording *)
(* has gone on, tried says that this second opened a file.                 *)

Judged(tried, l) ==
    LET steady == IF logger = "RECORDING" THEN Older(seen.steady, LOGGER_STABLE) ELSE 0
        falls == IF steady >= LOGGER_STABLE THEN 0 ELSE seen.falls
        broke == l # "RECORDING" /\ (tried \/ logger = "RECORDING")
    IN  [falls |-> IF broke THEN Older(falls, 3) ELSE falls,
         quiet |-> IF broke THEN 0 ELSE Older(seen.quiet, RetryDelays[3]),
         steady |-> IF l = "RECORDING" THEN steady ELSE 0,
         tried |-> tried]

----------------------------------------------------------------------------
(* Steps.                                                                  *)

Second ==
    LET s == [service EXCEPT !.retryIn = Sooner(@),
                             !.recordingFor = Older(@, LOGGER_STABLE)]
    IN  /\ \/ /\ around.book
              /\ service' = s
              /\ logger' = logger
              /\ seen' = Judged(FALSE, logger)
           \/ /\ ~ around.book /\ around.blocked
              /\ service' = [s EXCEPT !.prev = logger]
              /\ logger' = logger
              /\ seen' = Judged(FALSE, logger)
           \/ /\ ~ around.book /\ ~ around.blocked
              /\ \E r \in Served(s) :
                    /\ service' = r[1]
                    /\ logger' = r[2]
                    /\ seen' = Judged(Due(Watched(s)), r[2])
        /\ UNCHANGED around

Untried == [seen EXCEPT !.tried = FALSE]

\* A session the user or the supply ends is no failure.
Stopped ==
    /\ logger' = "IDLE"
    /\ seen' = [Untried EXCEPT !.falls = 0, !.steady = 0]

\* The menu or a button: the mode, or the reader's screens (entering them stops the
\* logger).
UserActs ==
    /\ \/ /\ around.mode = "STANDARD"
          /\ around' = [around EXCEPT !.mode = "OFF"]
          /\ Stopped
       \/ /\ around.mode = "OFF"
          /\ around' = [around EXCEPT !.mode = "STANDARD"]
          /\ logger' = logger /\ seen' = Untried
       \/ /\ ~ around.book
          /\ around' = [around EXCEPT !.book = TRUE]
          /\ Stopped
       \/ /\ around.book
          /\ around' = [around EXCEPT !.book = FALSE]
          /\ logger' = logger /\ seen' = Untried
    /\ UNCHANGED service

\* purrgo_supply_tick blocks (which suspends the logger) or unblocks.
SupplyActs ==
    /\ around' = [around EXCEPT !.blocked = ~ @]
    /\ IF around'.blocked THEN Stopped ELSE logger' = logger /\ seen' = Untried
    /\ UNCHANGED service

\* The sky and the card.
SurroundingsChange ==
    /\ \/ \E f \in {"none", "no date", "valid"} \ {around.fix} :
            around' = [around EXCEPT !.fix = f]
       \/ around' = [around EXCEPT !.card = IF @ = "good" THEN "bad" ELSE "good"]
    /\ seen' = Untried
    /\ UNCHANGED <<logger, service>>

Next == Second \/ UserActs \/ SupplyActs \/ SurroundingsChange

\* purrgo_app_update is called every second.
Spec == Init /\ [][Next]_vars /\ WF_vars(Second)

----------------------------------------------------------------------------
(* Properties.                                                             *)

\* Types; and the failure count stays in the range of its byte, so it never wraps
\* round to 0, which would mean "retry at once".
TypeOK ==
    /\ logger \in LoggerStates
    /\ service \in [failures : 0..FailuresMax, retryIn : 0..RetryDelays[3],
                    prev : LoggerStates, recordingFor : 0..LOGGER_STABLE]
    /\ around \in [mode : {"STANDARD", "OFF"}, book : BOOLEAN, blocked : BOOLEAN,
                   fix : {"none", "no date", "valid"}, card : {"good", "bad"}]
    /\ seen \in [falls : 0..3, quiet : 0..RetryDelays[3],
                 steady : 0..LOGGER_STABLE, tried : BOOLEAN]

\* The comment at the failure count: a file that opens and fails at once is not
\* retried every second.  However starts, falls and the service's delayed view of
\* them interleave, no file is opened sooner than the pause for the failures since
\* the last lasting recording.
BackoffKept ==
    [][seen'.tried /\ seen.falls > 0 => seen.quiet + 1 >= Delay(seen.falls)]_vars

\* Nothing leaves the service waiting for ever: when the card is good, the fix has
\* a date, the mode is on and the supply and the screen allow it, the track is
\* recorded for good in the end.
Allowed ==
    /\ around.mode = "STANDARD" /\ ~ around.book /\ ~ around.blocked
    /\ around.fix = "valid" /\ around.card = "good"

RecordsForGood == <>[]Allowed => <>[](logger = "RECORDING")
=============================================================================
