------------------------- MODULE TrackServiceProofs -------------------------
(***************************************************************************)
(* Theorems about the track service: its type invariant and the retry      *)
(* pauses.                                                                 *)
(*                                                                         *)
(* The pauses are judged by a history kept from outside (seen), while the  *)
(* service counts failures that it notices up to a second late.  The       *)
(* invariant links the two: the service's count is never behind the        *)
(* history's, except for the one fall it has yet to see, and the pause     *)
(* still to wait together with the time already waited is long enough.     *)
(***************************************************************************)
EXTENDS TrackService, TLAPS

\* The fall of the last second, which the service has not seen yet.
Unseen == logger = "ERROR" /\ service.prev = "RECORDING"

\* The service counts a recording's age no faster than it really lasts.
AgeHonest ==
    logger = "RECORDING" =>
        service.prev = "RECORDING" /\ service.recordingFor <= seen.steady

Paused ==
    seen.falls > 0 =>
        /\ ~ around.book /\ ~ around.blocked
        /\ Unseen => service.failures + 1 >= seen.falls
        /\ ~ Unseen => service.failures >= seen.falls
        /\ ~ Unseen /\ logger # "RECORDING" =>
              seen.quiet + service.retryIn >= Delay(seen.falls)

IInv == TypeOK /\ AgeHonest /\ Paused

ServiceState ==
    [failures : 0..FailuresMax, retryIn : 0..RetryDelays[3],
     prev : LoggerStates, recordingFor : 0..LOGGER_STABLE]

SeenState ==
    [falls : 0..3, quiet : 0..RetryDelays[3], steady : 0..LOGGER_STABLE,
     tried : BOOLEAN]

AroundState ==
    [mode : {"STANDARD", "OFF"}, book : BOOLEAN, blocked : BOOLEAN,
     fix : {"none", "no date", "valid"}, card : {"good", "bad"}]

----------------------------------------------------------------------------
(* The pauses.                                                             *)

\* The pause grows with the number of failures and is never longer than the last.
LEMMA DelayGrows ==
    ASSUME NEW m \in Nat, NEW n \in Nat, 0 < m, m <= n
    PROVE  /\ Delay(n) \in 1..RetryDelays[3]
           /\ Delay(m) <= Delay(n)
<1>1. /\ RetryDelays[1] \in Nat \ {0}
      /\ RetryDelays[2] \in Nat \ {0}
      /\ RetryDelays[3] \in Nat \ {0}
      /\ RetryDelays[1] <= RetryDelays[2]
      /\ RetryDelays[2] <= RetryDelays[3]
  BY TrackServiceAssumption
<1>2. CASE n = 1
  <2>1. m = 1
    BY <1>2
  <2> QED
    BY <1>1, <1>2, <2>1 DEF Delay
<1>3. CASE n = 2
  <2>1. m = 1 \/ m = 2
    BY <1>3
  <2> QED
    BY <1>1, <1>3, <2>1 DEF Delay
<1>4. CASE n >= 3
  <2>1. Delay(n) = RetryDelays[3]
    BY <1>4 DEF Delay
  <2>2. Delay(m) = RetryDelays[1] \/ Delay(m) = RetryDelays[2] \/ Delay(m) = RetryDelays[3]
    <3>1. m = 1 \/ m = 2 \/ m >= 3
      OBVIOUS
    <3> QED
      BY <3>1 DEF Delay
  <2> QED
    BY <1>1, <2>1, <2>2
<1> QED
  BY <1>2, <1>3, <1>4

\* Scheduling counts one more failure, up to the limit, and sets its pause.
LEMMA ScheduledLinks ==
    ASSUME NEW s \in ServiceState
    PROVE  /\ Scheduled(s) \in ServiceState
           /\ Scheduled(s).prev = s.prev
           /\ Scheduled(s).recordingFor = s.recordingFor
           /\ Scheduled(s).failures > 0
           /\ Scheduled(s).retryIn > 0
           /\ \A f \in 1..3 : s.failures + 1 >= f =>
                 /\ Scheduled(s).failures >= f
                 /\ Scheduled(s).retryIn >= Delay(f)
<1> DEFINE n == IF s.failures < FailuresMax THEN s.failures + 1 ELSE s.failures
<1>1. /\ n \in 1..FailuresMax /\ n \in Nat /\ n > 0
      /\ \A f \in 1..3 : s.failures + 1 >= f => n >= f
  BY TrackServiceAssumption DEF ServiceState
<1>2. Delay(n) \in 1..RetryDelays[3] /\ (\A f \in 1..3 : n >= f => Delay(f) <= Delay(n))
  BY <1>1, DelayGrows
<1>3. Scheduled(s) = [s EXCEPT !.failures = n, !.retryIn = Delay(n)]
  BY DEF Scheduled
<1>4. RetryDelays[3] \in Nat
  BY TrackServiceAssumption
<1> HIDE DEF n
<1>5. Scheduled(s) = [failures |-> n, retryIn |-> Delay(n), prev |-> s.prev,
                      recordingFor |-> s.recordingFor]
  BY <1>3 DEF ServiceState
<1> QED
  BY <1>1, <1>2, <1>4, <1>5 DEF ServiceState

----------------------------------------------------------------------------
(* The parts of a second.                                                  *)

\* What the service knows after looking at the logger's state.
LEMMA WatchedCases ==
    ASSUME NEW s \in ServiceState, logger \in LoggerStates
    PROVE  /\ Watched(s) \in ServiceState
           /\ Watched(s).prev = logger
           /\ Watched(s).recordingFor =
                IF logger = "RECORDING" /\ s.prev # "RECORDING" THEN 0
                ELSE s.recordingFor
           /\ (logger = "ERROR" /\ s.prev = "RECORDING") =>
                /\ Watched(s).failures = Scheduled(s).failures
                /\ Watched(s).retryIn = Scheduled(s).retryIn
           /\ ~ (logger = "ERROR" /\ s.prev = "RECORDING") =>
                /\ Watched(s).retryIn = s.retryIn
                /\ Watched(s).failures =
                     IF logger = "RECORDING" /\ s.prev = "RECORDING"
                        /\ s.recordingFor >= LOGGER_STABLE
                     THEN 0 ELSE s.failures
<1> DEFINE fell == logger = "ERROR" /\ s.prev = "RECORDING"
           v == IF fell THEN Scheduled(s) ELSE s
           began == logger = "RECORDING" /\ s.prev # "RECORDING"
           lasted == logger = "RECORDING" /\ s.prev = "RECORDING"
                         /\ s.recordingFor >= LOGGER_STABLE
<1>1. v \in ServiceState /\ v.recordingFor = s.recordingFor
  BY ScheduledLinks
<1>2. Watched(s) = [failures |-> IF lasted THEN 0 ELSE v.failures,
                    retryIn |-> v.retryIn, prev |-> logger,
                    recordingFor |-> IF began THEN 0 ELSE v.recordingFor]
  <2>1. Watched(s) = [v EXCEPT !.prev = logger,
                               !.recordingFor = IF began THEN 0 ELSE @,
                               !.failures = IF lasted THEN 0 ELSE @]
    BY DEF Watched
  <2> HIDE DEF v, began, lasted
  <2> QED
    BY <1>1, <2>1 DEF ServiceState
<1>3. 0 \in 0..FailuresMax /\ 0 \in 0..LOGGER_STABLE
  BY TrackServiceAssumption
<1>4. Watched(s) \in ServiceState
  <2> HIDE DEF v, began, lasted
  <2> QED
    BY <1>1, <1>2, <1>3 DEF ServiceState
<1>5. fell => ~ lasted
  OBVIOUS
<1> QED
  BY <1>1, <1>2, <1>4, <1>5

\* What a call of the service may do: start a track (and perhaps lose it at once),
\* fail to start one, add a point, or nothing.
LEMMA ServedCases ==
    ASSUME NEW s, NEW r \in Served(s)
    PROVE  \/ /\ Due(Watched(s))
              /\ r[1] = [Watched(s) EXCEPT !.prev = "RECORDING", !.recordingFor = 0]
              /\ r[2] \in AddOutcomes
           \/ /\ Due(Watched(s))
              /\ r[1] = Scheduled(Watched(s))
              /\ r[2] \in StartOutcomes /\ r[2] # "RECORDING"
           \/ /\ ~ Due(Watched(s))
              /\ logger = "RECORDING"
              /\ r[1] = Watched(s)
              /\ r[2] \in AddOutcomes
           \/ /\ ~ Due(Watched(s))
              /\ r[1] = Watched(s)
              /\ r[2] = logger
<1> DEFINE w == Watched(s)
           started == [w EXCEPT !.prev = "RECORDING", !.recordingFor = 0]
<1>1. CASE Due(w)
  <2>1. Served(s) = UNION { IF q = "RECORDING" THEN { <<started, a>> : a \in AddOutcomes }
                            ELSE {<<Scheduled(w), q>>} : q \in StartOutcomes }
    BY <1>1 DEF Served
  <2>2. PICK q \in StartOutcomes :
           r \in IF q = "RECORDING" THEN { <<started, a>> : a \in AddOutcomes }
                 ELSE {<<Scheduled(w), q>>}
    BY <2>1
  <2> HIDE DEF w, started
  <2>3. CASE q = "RECORDING"
    <3>1. PICK a \in AddOutcomes : r = <<started, a>>
      BY <2>2, <2>3
    <3>2. r[1] = started /\ r[2] \in AddOutcomes
      BY <3>1
    <3> QED
      BY <1>1, <3>2 DEF started, w
  <2>4. CASE q # "RECORDING"
    <3>1. r = <<Scheduled(w), q>>
      BY <2>2, <2>4
    <3>2. r[1] = Scheduled(w) /\ r[2] = q
      BY <3>1
    <3> QED
      BY <1>1, <2>2, <2>4, <3>2 DEF w
  <2> QED
    BY <2>3, <2>4
<1>2. CASE ~ Due(w) /\ logger = "RECORDING" /\ around.fix # "none"
  <2>1. Served(s) = { <<w, a>> : a \in AddOutcomes }
    BY <1>2 DEF Served
  <2> HIDE DEF w
  <2>2. PICK a \in AddOutcomes : r = <<w, a>>
    BY <2>1
  <2>3. r[1] = w /\ r[2] \in AddOutcomes
    BY <2>2
  <2> QED
    BY <1>2, <2>3 DEF w
<1>3. CASE ~ Due(w) /\ ~ (logger = "RECORDING" /\ around.fix # "none")
  <2>1. Served(s) = {<<w, logger>>}
    BY <1>3 DEF Served
  <2> HIDE DEF w
  <2>2. r[1] = w /\ r[2] = logger
    BY <2>1
  <2> QED
    BY <1>3, <2>2 DEF w
<1> QED
  BY <1>1, <1>2, <1>3

\* Outcomes are states, and a start that does not lead to a recording never follows
\* from a recording.
LEMMA OutcomeTypes ==
    ASSUME logger \in LoggerStates
    PROVE  StartOutcomes \subseteq LoggerStates /\ AddOutcomes \subseteq LoggerStates
BY DEF StartOutcomes, AddOutcomes, LoggerStates

\* The history keeps its types, whatever the second did.
LEMMA JudgedType ==
    ASSUME TypeOK, NEW tried \in BOOLEAN, NEW l \in LoggerStates
    PROVE  Judged(tried, l) \in SeenState
<1>1. seen \in SeenState
  BY DEF TypeOK, SeenState
<1>2. LOGGER_STABLE \in Nat /\ RetryDelays[3] \in Nat
  BY TrackServiceAssumption
<1> DEFINE steady == IF logger = "RECORDING" THEN Older(seen.steady, LOGGER_STABLE) ELSE 0
           falls == IF steady >= LOGGER_STABLE THEN 0 ELSE seen.falls
           broke == l # "RECORDING" /\ (tried \/ logger = "RECORDING")
<1>3. steady \in 0..LOGGER_STABLE
  BY <1>1, <1>2 DEF Older, SeenState
<1>4. falls \in 0..3
  <2> HIDE DEF steady
  <2> QED
    BY <1>1 DEF SeenState
<1>5. Older(falls, 3) \in 0..3 /\ Older(seen.quiet, RetryDelays[3]) \in 0..RetryDelays[3]
  <2> HIDE DEF falls
  <2> QED
    BY <1>1, <1>2, <1>4 DEF Older, SeenState
<1>6. Judged(tried, l) =
        [falls |-> IF broke THEN Older(falls, 3) ELSE falls,
         quiet |-> IF broke THEN 0 ELSE Older(seen.quiet, RetryDelays[3]),
         steady |-> IF l = "RECORDING" THEN steady ELSE 0,
         tried |-> tried]
  BY DEF Judged
<1> HIDE DEF steady, falls, broke
<1> QED
  BY <1>2, <1>3, <1>4, <1>5, <1>6 DEF SeenState

----------------------------------------------------------------------------
(* A second.                                                               *)

\* service when the clock has advanced, and the falls that still count.
Ticked ==
    [service EXCEPT !.retryIn = Sooner(@), !.recordingFor = Older(@, LOGGER_STABLE)]

Steady == IF logger = "RECORDING" THEN Older(seen.steady, LOGGER_STABLE) ELSE 0

Falls == IF Steady >= LOGGER_STABLE THEN 0 ELSE seen.falls

\* What the invariant says of single fields.
LEMMA Fields ==
    ASSUME IInv
    PROVE  /\ RetryDelays[3] \in Nat \ {0} /\ LOGGER_STABLE \in Nat \ {0}
           /\ logger \in LoggerStates
           /\ service \in ServiceState
           /\ service.failures \in Nat /\ service.retryIn \in 0..RetryDelays[3]
           /\ service.recordingFor \in 0..LOGGER_STABLE
           /\ seen \in SeenState
           /\ seen.falls \in 0..3 /\ seen.quiet \in 0..RetryDelays[3]
           /\ seen.steady \in 0..LOGGER_STABLE
<1>1. /\ RetryDelays[3] \in Nat \ {0} /\ LOGGER_STABLE \in Nat \ {0}
      /\ FailuresMax \in Nat
  BY TrackServiceAssumption
<1>2. logger \in LoggerStates /\ service \in ServiceState /\ seen \in SeenState
  BY DEF IInv, TypeOK, ServiceState, SeenState
<1> QED
  BY <1>1, <1>2 DEF ServiceState, SeenState

\* The clock moves ages and countdowns by one; falls that count are falls.
LEMMA TickedLinks ==
    ASSUME IInv
    PROVE  /\ Ticked \in ServiceState
           /\ Ticked.prev = service.prev
           /\ Ticked.failures = service.failures
           /\ Ticked.retryIn + 1 >= service.retryIn
           /\ logger = "RECORDING" => Ticked.recordingFor <= Steady
           /\ Steady \in 0..LOGGER_STABLE
           /\ Falls \in 0..3 /\ Falls <= seen.falls
           /\ logger # "RECORDING" => Falls = seen.falls
<1>1. service \in ServiceState /\ seen \in SeenState
  BY Fields
<1>2. LOGGER_STABLE \in Nat \ {0} /\ RetryDelays[3] \in Nat
  BY Fields
<1>3. /\ Sooner(service.retryIn) \in 0..RetryDelays[3]
      /\ Sooner(service.retryIn) + 1 >= service.retryIn
  BY <1>1, <1>2 DEF Sooner, ServiceState
<1>4. Older(service.recordingFor, LOGGER_STABLE) \in 0..LOGGER_STABLE
  BY <1>1, <1>2 DEF Older, ServiceState
<1>5. Steady \in 0..LOGGER_STABLE
  BY <1>1, <1>2 DEF Steady, Older, SeenState
<1>6. Ticked = [failures |-> service.failures, retryIn |-> Sooner(service.retryIn),
                prev |-> service.prev,
                recordingFor |-> Older(service.recordingFor, LOGGER_STABLE)]
  <2> DEFINE soon == Sooner(service.retryIn)
             old == Older(service.recordingFor, LOGGER_STABLE)
  <2>1. Ticked = [service EXCEPT !.retryIn = soon, !.recordingFor = old]
    BY DEF Ticked
  <2> HIDE DEF soon, old
  <2>2. Ticked = [failures |-> service.failures, retryIn |-> soon,
                  prev |-> service.prev, recordingFor |-> old]
    BY <1>1, <2>1 DEF ServiceState
  <2> QED
    BY <2>2 DEF soon, old
<1>7. logger = "RECORDING" =>
        Older(service.recordingFor, LOGGER_STABLE) <= Steady
  BY <1>1, <1>2 DEF IInv, AgeHonest, Steady, Older, ServiceState, SeenState
<1>8. Falls \in 0..3 /\ Falls <= seen.falls
  BY <1>1 DEF Falls, SeenState
<1>9. logger # "RECORDING" => Falls = seen.falls
  BY <1>2 DEF Falls, Steady
<1> QED
  BY <1>1, <1>3, <1>4, <1>5, <1>6, <1>7, <1>8, <1>9 DEF ServiceState

\* What a second makes of the history.
LEMMA JudgedCases ==
    ASSUME NEW tried, NEW l
    PROVE  LET j == Judged(tried, l)
               broke == l # "RECORDING" /\ (tried \/ logger = "RECORDING")
           IN  /\ j.tried = tried
               /\ l = "RECORDING" => j.steady = Steady
               /\ broke => j.falls = Older(Falls, 3) /\ j.quiet = 0
               /\ ~ broke => /\ j.falls = Falls
                             /\ j.quiet = Older(seen.quiet, RetryDelays[3])
BY DEF Judged, Steady, Falls

\* Once the service has looked, it has seen every fall that counts, and has waited
\* or still waits the pause for them.
LEMMA WatchedLinks ==
    ASSUME IInv, ~ around.book, ~ around.blocked
    PROVE  LET w == Watched(Ticked)
           IN  /\ w \in ServiceState
               /\ w.prev = logger
               /\ logger = "RECORDING" => w.recordingFor <= Steady
               /\ w.failures >= Falls
               /\ Falls > 0 /\ logger # "RECORDING" =>
                     seen.quiet + 1 + w.retryIn >= Delay(Falls)
<1> DEFINE w == Watched(Ticked)
<1>1. logger \in LoggerStates /\ seen.quiet \in Nat /\ seen.falls \in 0..3
  BY Fields
<1>2. w \in ServiceState /\ w.prev = logger
  BY <1>1, TickedLinks, WatchedCases
<1>3. logger = "RECORDING" => w.recordingFor <= Steady
  <2>1. logger = "RECORDING" => w.recordingFor = Ticked.recordingFor
    BY <1>1, TickedLinks, WatchedCases DEF IInv, AgeHonest
  <2> QED
    BY <2>1, TickedLinks
<1>4. CASE Unseen
  <2>1. /\ w.failures = Scheduled(Ticked).failures
        /\ w.retryIn = Scheduled(Ticked).retryIn
        /\ logger # "RECORDING"
    BY <1>1, <1>4, TickedLinks, WatchedCases DEF Unseen
  <2>2. Falls > 0 => Ticked.failures + 1 >= Falls
    <3>1. seen.falls > 0 => service.failures + 1 >= seen.falls
      BY <1>4 DEF IInv, Paused
    <3>2. logger # "RECORDING" /\ Falls = seen.falls
      BY <1>4, TickedLinks DEF Unseen
    <3> QED
      BY <3>1, <3>2, TickedLinks
  <2>3. Falls > 0 => w.failures >= Falls /\ w.retryIn >= Delay(Falls)
    <3>1. Falls > 0 => Falls \in 1..3
      BY TickedLinks
    <3> QED
      BY <2>1, <2>2, <3>1, TickedLinks, ScheduledLinks
  <2>4. Falls > 0 => Delay(Falls) \in Nat
    BY TickedLinks, DelayGrows, TrackServiceAssumption
  <2> HIDE DEF w
  <2>5. w.failures \in Nat /\ w.retryIn \in Nat /\ Falls \in Nat
    BY <1>2, TickedLinks, TrackServiceAssumption DEF ServiceState
  <2> QED
    BY <1>1, <1>2, <1>3, <2>3, <2>4, <2>5 DEF w
<1>5. CASE ~ Unseen
  <2>1. ~ (logger = "ERROR" /\ Ticked.prev = "RECORDING")
    BY <1>5, TickedLinks DEF Unseen
  <2>2. /\ w.retryIn = Ticked.retryIn
        /\ w.failures = IF logger = "RECORDING" /\ Ticked.prev = "RECORDING"
                           /\ Ticked.recordingFor >= LOGGER_STABLE
                        THEN 0 ELSE Ticked.failures
    BY <1>1, <2>1, TickedLinks, WatchedCases
  <2>3. w.failures >= Falls
    <3>1. CASE logger = "RECORDING" /\ Ticked.recordingFor >= LOGGER_STABLE
      <4>1. Steady >= LOGGER_STABLE
        BY <3>1, TickedLinks, TrackServiceAssumption DEF ServiceState
      <4>2. Falls = 0
        BY <4>1 DEF Falls
      <4> HIDE DEF w
      <4> QED
        BY <1>2, <4>2, TrackServiceAssumption DEF ServiceState
    <3>2. CASE ~ (logger = "RECORDING" /\ Ticked.recordingFor >= LOGGER_STABLE)
      <4>1. w.failures = service.failures
        BY <2>2, <3>2, TickedLinks
      <4>2. service.failures \in Nat
        BY Fields
      <4>3. seen.falls > 0 => service.failures >= seen.falls
        BY <1>5 DEF IInv, Paused
      <4> HIDE DEF w
      <4> QED
        BY <1>1, <4>1, <4>2, <4>3, TickedLinks
    <3> QED
      BY <3>1, <3>2
  <2>4. Falls > 0 /\ logger # "RECORDING" => seen.quiet + 1 + w.retryIn >= Delay(Falls)
    <3> SUFFICES ASSUME Falls > 0, logger # "RECORDING"
                 PROVE  seen.quiet + 1 + w.retryIn >= Delay(Falls)
      OBVIOUS
    <3>1. Falls = seen.falls /\ seen.quiet + service.retryIn >= Delay(Falls)
      BY <1>5, TickedLinks DEF IInv, Paused
    <3>2. Delay(Falls) \in Nat
      BY TickedLinks, DelayGrows, TrackServiceAssumption
    <3>3. service.retryIn \in Nat /\ Ticked.retryIn \in Nat
      BY Fields, TickedLinks DEF ServiceState
    <3> HIDE DEF w
    <3> QED
      BY <1>1, <2>2, <3>1, <3>2, <3>3, TickedLinks
  <2> QED
    BY <1>2, <1>3, <2>3, <2>4
<1> QED
  BY <1>4, <1>5

\* A second that opens a file comes after the whole pause.
LEMMA DueLate ==
    ASSUME IInv, ~ around.book, ~ around.blocked, Due(Watched(Ticked)), seen.falls > 0
    PROVE  seen.quiet + 1 >= Delay(seen.falls)
<1> DEFINE w == Watched(Ticked)
<1>1. logger # "RECORDING" /\ (w.failures = 0 \/ w.retryIn = 0)
  BY DEF Due
<1>2. Falls = seen.falls
  BY <1>1, TickedLinks
<1>3. w.failures >= Falls /\ seen.quiet + 1 + w.retryIn >= Delay(Falls)
  BY <1>1, <1>2, WatchedLinks
<1>4. seen.falls \in 0..3 /\ seen.quiet \in Nat
  BY Fields
<1> HIDE DEF w
<1> QED
  BY <1>1, <1>2, <1>3, <1>4

\* The invariant of the fields after a second that went in one of the ways of
\* ServedCases; n is the state of the service, l the logger's, t: a file was opened.
Linked(n, l, t) ==
    LET j == Judged(t, l)
        unseen == l = "ERROR" /\ n.prev = "RECORDING"
    IN  /\ n \in ServiceState
        /\ l = "RECORDING" => n.prev = "RECORDING" /\ n.recordingFor <= j.steady
        /\ j.falls > 0 =>
              /\ unseen => n.failures + 1 >= j.falls
              /\ ~ unseen => n.failures >= j.falls
              /\ ~ unseen /\ l # "RECORDING" => j.quiet + n.retryIn >= Delay(j.falls)

\* What a start leaves of the service's state.
LEMMA RestartedFields ==
    ASSUME NEW s \in ServiceState, NEW p, NEW a, NEW t,
           t = [s EXCEPT !.prev = p, !.recordingFor = a]
    PROVE  t = [failures |-> s.failures, retryIn |-> s.retryIn, prev |-> p,
                recordingFor |-> a]
BY DEF ServiceState

\* A second in which the logger stays as it is leaves the falls that count.
LEMMA UnchangedJudged ==
    ASSUME NEW l, l = logger
    PROVE  /\ Judged(FALSE, l).falls = Falls
           /\ l = "RECORDING" => Judged(FALSE, l).steady = Steady
<1>1. CASE l = "RECORDING"
  <2>1. ~ (l # "RECORDING" /\ (FALSE \/ logger = "RECORDING"))
    BY <1>1
  <2> QED
    BY <1>1, <2>1 DEF Judged, Steady, Falls
<1>2. CASE l # "RECORDING"
  <2>1. ~ (l # "RECORDING" /\ (FALSE \/ logger = "RECORDING"))
    BY <1>2
  <2> QED
    BY <1>2, <2>1 DEF Judged, Steady, Falls
<1> QED
  BY <1>1, <1>2

\* A recording that starts and perhaps falls at once.
LEMMA StartLinks ==
    ASSUME IInv, ~ around.book, ~ around.blocked, NEW l \in AddOutcomes
    PROVE  Linked([Watched(Ticked) EXCEPT !.prev = "RECORDING", !.recordingFor = 0], l, TRUE)
<1> DEFINE w == Watched(Ticked)
           n == [w EXCEPT !.prev = "RECORDING", !.recordingFor = 0]
           j == Judged(TRUE, l)
<1>1. w \in ServiceState /\ w.failures >= Falls
  BY WatchedLinks
<1>2. l = "RECORDING" \/ l = "ERROR"
  BY DEF AddOutcomes
<1>3. Falls \in Nat /\ Steady \in Nat /\ LOGGER_STABLE \in Nat
  BY Fields, TickedLinks
<1>4. l = "RECORDING" => j.falls = Falls /\ j.steady = Steady
  BY JudgedCases
<1>5. l = "ERROR" => j.falls = Older(Falls, 3)
  BY JudgedCases
<1> HIDE DEF w
<1>6. /\ n \in ServiceState /\ n.prev = "RECORDING" /\ n.recordingFor = 0
      /\ n.failures = w.failures /\ w.failures \in Nat
  <2>1. n = [failures |-> w.failures, retryIn |-> w.retryIn, prev |-> "RECORDING",
             recordingFor |-> 0]
    BY <1>1, RestartedFields
  <2>2. w.failures \in 0..FailuresMax /\ w.retryIn \in 0..RetryDelays[3]
    BY <1>1 DEF ServiceState
  <2>3. w.failures \in Nat
    BY <2>2, TrackServiceAssumption
  <2>4. 0 \in 0..LOGGER_STABLE /\ "RECORDING" \in LoggerStates
    BY <1>3 DEF LoggerStates
  <2> HIDE DEF n
  <2> QED
    BY <2>1, <2>2, <2>3, <2>4 DEF ServiceState
<1>7. Older(Falls, 3) <= Falls + 1
  BY <1>3, TickedLinks DEF Older
<1> HIDE DEF n, j
<1>8. l = "RECORDING" => n.recordingFor <= j.steady
  BY <1>3, <1>4, <1>6
<1>9. l = "RECORDING" => n.failures >= j.falls
  BY <1>1, <1>4, <1>6
<1>10. l = "ERROR" => n.failures + 1 >= j.falls
  <2>1. Older(Falls, 3) \in Nat
    BY <1>3 DEF Older
  <2> QED
    BY <1>1, <1>3, <1>5, <1>6, <1>7, <2>1
<1>11. Linked(n, l, TRUE)
  BY <1>2, <1>6, <1>8, <1>9, <1>10 DEF Linked, j
<1> QED
  BY <1>11 DEF n, w

\* A start that fails is scheduled for another.
LEMMA FailLinks ==
    ASSUME IInv, ~ around.book, ~ around.blocked, logger # "RECORDING",
           NEW l \in StartOutcomes, l # "RECORDING"
    PROVE  Linked(Scheduled(Watched(Ticked)), l, TRUE)
<1> DEFINE w == Watched(Ticked)
           n == Scheduled(w)
           j == Judged(TRUE, l)
<1>1. w \in ServiceState /\ w.failures >= Falls /\ w.prev = logger
  BY WatchedLinks
<1>2. j.falls = Older(Falls, 3) /\ j.quiet = 0
  BY JudgedCases
<1>3. Falls \in 0..3
  BY TickedLinks
<1>4. Older(Falls, 3) \in 1..3 /\ Older(Falls, 3) <= Falls + 1
  BY <1>3 DEF Older
<1> HIDE DEF w, j
<1>5. w.failures \in Nat
  BY <1>1, TrackServiceAssumption DEF ServiceState
<1>6. w.failures + 1 >= j.falls /\ j.falls \in 1..3
  BY <1>1, <1>2, <1>3, <1>4, <1>5
<1>7. /\ n \in ServiceState /\ n.prev # "RECORDING"
      /\ n.failures >= j.falls /\ n.retryIn >= Delay(j.falls)
  BY <1>1, <1>6, ScheduledLinks
<1>8. n.retryIn \in Nat
  BY <1>7, Fields DEF ServiceState
<1> HIDE DEF n
<1>9. 0 + n.retryIn = n.retryIn
  BY <1>8
<1>10. Linked(n, l, TRUE)
  BY <1>2, <1>7, <1>9 DEF Linked, j
<1> QED
  BY <1>10 DEF n, w

\* A second without a start: a point that may fail, or nothing.
LEMMA RunLinks ==
    ASSUME IInv, ~ around.book, ~ around.blocked,
           NEW l, l = logger \/ (logger = "RECORDING" /\ l \in AddOutcomes)
    PROVE  Linked(Watched(Ticked), l, FALSE)
<1> DEFINE w == Watched(Ticked)
           j == Judged(FALSE, l)
<1>1. /\ w \in ServiceState /\ w.failures >= Falls /\ w.prev = logger
      /\ logger = "RECORDING" => w.recordingFor <= Steady
      /\ Falls > 0 /\ logger # "RECORDING" => seen.quiet + 1 + w.retryIn >= Delay(Falls)
  BY WatchedLinks
<1>2. Falls \in 0..3 /\ seen.quiet \in 0..RetryDelays[3] /\ RetryDelays[3] \in Nat
  BY Fields, TickedLinks
<1> HIDE DEF w
<1>3. w.failures \in Nat /\ w.retryIn \in Nat
  BY <1>1, <1>2, TrackServiceAssumption DEF ServiceState
<1>4. CASE l = "RECORDING"
  <2>1. logger = "RECORDING"
    BY <1>4
  <2>2. j.falls = Falls /\ j.steady = Steady
    BY <1>4, JudgedCases
  <2> HIDE DEF j
  <2>3. Linked(w, l, FALSE)
    BY <1>1, <1>4, <2>1, <2>2 DEF Linked, j
  <2> QED
    BY <2>3 DEF w
<1>5. CASE l # "RECORDING" /\ logger = "RECORDING"
  <2>1. l = "ERROR"
    BY <1>5 DEF AddOutcomes
  <2>2. j.falls = Older(Falls, 3)
    BY <1>5, JudgedCases
  <2>3. Older(Falls, 3) \in 1..3 /\ Older(Falls, 3) <= Falls + 1
    BY <1>2 DEF Older
  <2> HIDE DEF j
  <2>4. w.failures + 1 >= j.falls
    BY <1>1, <1>2, <1>3, <2>2, <2>3
  <2>5. Linked(w, l, FALSE)
    BY <1>1, <1>5, <2>1, <2>4 DEF Linked, j
  <2> QED
    BY <2>5 DEF w
<1>6. CASE logger # "RECORDING"
  <2>1. l = logger /\ l # "RECORDING"
    BY <1>6
  <2>2. j.falls = Falls /\ j.quiet = Older(seen.quiet, RetryDelays[3])
    BY <1>6, <2>1, JudgedCases
  <2>3. Falls > 0 => Delay(Falls) \in 1..RetryDelays[3]
    BY <1>2, DelayGrows
  <2>4. Falls > 0 => Older(seen.quiet, RetryDelays[3]) + w.retryIn >= Delay(Falls)
    <3>1. CASE seen.quiet < RetryDelays[3]
      BY <1>1, <1>2, <1>3, <1>6, <2>3, <3>1 DEF Older
    <3>2. CASE seen.quiet = RetryDelays[3]
      BY <1>2, <1>3, <2>3, <3>2 DEF Older
    <3> QED
      BY <1>2, <3>1, <3>2
  <2> HIDE DEF j
  <2>5. Linked(w, l, FALSE)
    BY <1>1, <1>6, <2>1, <2>2, <2>4 DEF Linked, j
  <2> QED
    BY <2>5 DEF w
<1> QED
  BY <1>4, <1>5, <1>6

\* A call of the service keeps the link, and opens a file only when it is late enough.
LEMMA ServedLinks ==
    ASSUME IInv, ~ around.book, ~ around.blocked, NEW r \in Served(Ticked)
    PROVE  /\ r[2] \in LoggerStates
           /\ Linked(r[1], r[2], Due(Watched(Ticked)))
<1> DEFINE w == Watched(Ticked)
<1>1. logger \in LoggerStates
  BY Fields
<1>2. StartOutcomes \subseteq LoggerStates /\ AddOutcomes \subseteq LoggerStates
  BY <1>1, OutcomeTypes
<1>3. CASE /\ Due(w)
           /\ r[1] = [w EXCEPT !.prev = "RECORDING", !.recordingFor = 0]
           /\ r[2] \in AddOutcomes
  <2>1. Due(w) = TRUE
    BY <1>3 DEF Due
  <2> QED
    BY <1>2, <1>3, <2>1, StartLinks
<1>4. CASE /\ Due(w)
           /\ r[1] = Scheduled(w)
           /\ r[2] \in StartOutcomes /\ r[2] # "RECORDING"
  <2>1. Due(w) = TRUE /\ logger # "RECORDING"
    BY <1>4 DEF Due
  <2> QED
    BY <1>2, <1>4, <2>1, FailLinks
<1>5. CASE /\ ~ Due(w)
           /\ r[1] = w
           /\ r[2] = logger \/ (logger = "RECORDING" /\ r[2] \in AddOutcomes)
  <2>1. Due(w) = FALSE
    BY <1>5 DEF Due
  <2> QED
    BY <1>1, <1>2, <1>5, <2>1, RunLinks
<1> HIDE DEF w
<1> QED
  BY <1>3, <1>4, <1>5, ServedCases DEF w

\* A second of the clock.
LEMMA SecondKeepsInv ==
    ASSUME IInv, Second
    PROVE  IInv'
<1> DEFINE idle == [Ticked EXCEPT !.prev = logger]
<1>1. /\ around' = around
      /\ around \in AroundState
  BY DEF Second, IInv, TypeOK, AroundState
<1>2. /\ Ticked \in ServiceState /\ Ticked.prev = service.prev
      /\ logger = "RECORDING" => Ticked.recordingFor <= Steady
      /\ Falls \in 0..3 /\ Falls <= seen.falls
      /\ logger \in LoggerStates
      /\ seen.falls \in 0..3
  BY Fields, TickedLinks
<1>3. logger = "RECORDING" => service.prev = "RECORDING"
  BY DEF IInv, AgeHonest
<1>4. CASE around.book \/ around.blocked
  <2>1. seen.falls = 0
    BY <1>2, <1>4 DEF IInv, Paused
  <2>2. /\ logger' = logger
        /\ service' = Ticked \/ service' = idle
        /\ seen' = Judged(FALSE, logger)
    BY <1>4 DEF Second, Ticked
  <2>3. /\ seen' \in SeenState
        /\ seen'.falls = Falls
        /\ logger = "RECORDING" => seen'.steady = Steady
    <3>1. Judged(FALSE, logger) \in SeenState
      BY <1>2, JudgedType DEF IInv
    <3>2. /\ Judged(FALSE, logger).falls = Falls
          /\ logger = "RECORDING" => Judged(FALSE, logger).steady = Steady
      BY UnchangedJudged
    <3> QED
      BY <2>2, <3>1, <3>2
  <2>4. seen'.falls = 0
    BY <1>2, <2>1, <2>3
  <2>5. /\ service' \in ServiceState
        /\ service'.recordingFor = Ticked.recordingFor
        /\ service'.prev = Ticked.prev \/ service'.prev = logger
    BY <1>2, <2>2 DEF ServiceState
  <2> HIDE DEF idle
  <2>6. TypeOK'
    BY <1>1, <1>2, <2>2, <2>3, <2>5 DEF TypeOK, ServiceState, SeenState, AroundState
  <2>7. AgeHonest'
    BY <1>2, <1>3, <2>2, <2>3, <2>5 DEF AgeHonest
  <2>8. Paused'
    BY <2>4 DEF Paused
  <2> QED
    BY <2>6, <2>7, <2>8 DEF IInv
<1>5. CASE ~ around.book /\ ~ around.blocked
  <2>1. PICK r \in Served(Ticked) :
           /\ service' = r[1]
           /\ logger' = r[2]
           /\ seen' = Judged(Due(Watched(Ticked)), r[2])
    BY <1>5 DEF Second, Ticked
  <2>2. /\ logger' \in LoggerStates
        /\ Linked(service', logger', Due(Watched(Ticked)))
    BY <1>5, <2>1, ServedLinks
  <2>3. Due(Watched(Ticked)) \in BOOLEAN
    BY DEF Due
  <2>4. seen' \in SeenState
    BY <2>1, <2>2, <2>3, JudgedType DEF IInv
  <2>5. TypeOK'
    BY <1>1, <2>2, <2>4 DEF TypeOK, Linked, ServiceState, SeenState, AroundState
  <2>6. seen' = Judged(Due(Watched(Ticked)), logger')
    BY <2>1
  <2>7. AgeHonest'
    BY <2>2, <2>6 DEF AgeHonest, Linked
  <2>8. Paused'
    BY <1>1, <1>5, <2>2, <2>6 DEF Paused, Linked, Unseen
  <2> QED
    BY <2>5, <2>7, <2>8 DEF IInv
<1> QED
  BY <1>4, <1>5

----------------------------------------------------------------------------
(* The other steps, and the theorems.                                      *)

\* A record with the fields of the history is a history.
LEMMA SeenRecord ==
    ASSUME NEW f \in 0..3, NEW q \in 0..RetryDelays[3],
           NEW g \in 0..LOGGER_STABLE, NEW x \in BOOLEAN, NEW t,
           t = [falls |-> f, quiet |-> q, steady |-> g, tried |-> x]
    PROVE  t \in SeenState /\ t.falls = f /\ t.tried = x
BY DEF SeenState

\* Records of the history with one or two fields changed.
LEMMA TriedField ==
    ASSUME NEW h \in SeenState, NEW x, NEW t, t = [h EXCEPT !.tried = x]
    PROVE  t = [falls |-> h.falls, quiet |-> h.quiet, steady |-> h.steady, tried |-> x]
BY DEF SeenState

\* The same for the falls and the age of the recording.
LEMMA FallsFields ==
    ASSUME NEW h \in SeenState, NEW f, NEW g, NEW t,
           t = [h EXCEPT !.falls = f, !.steady = g]
    PROVE  t = [falls |-> f, quiet |-> h.quiet, steady |-> g, tried |-> h.tried]
BY DEF SeenState

\* Forgetting that a file was opened changes nothing else of the history.
LEMMA UntriedFields ==
    ASSUME seen \in SeenState
    PROVE  Untried = [falls |-> seen.falls, quiet |-> seen.quiet,
                      steady |-> seen.steady, tried |-> FALSE]
BY TriedField DEF Untried

\* The history stays a history when the opening is forgotten.
LEMMA UntriedType ==
    ASSUME seen \in SeenState
    PROVE  Untried \in SeenState /\ Untried.tried = FALSE
<1>1. /\ seen.falls \in 0..3 /\ seen.quiet \in 0..RetryDelays[3]
      /\ seen.steady \in 0..LOGGER_STABLE
  BY DEF SeenState
<1> DEFINE No == FALSE
<1>2. No \in BOOLEAN
  OBVIOUS
<1>3. Untried = [falls |-> seen.falls, quiet |-> seen.quiet,
                 steady |-> seen.steady, tried |-> No]
  BY UntriedFields, Zenon
<1>4. Untried.tried = No
  <2> HIDE DEF No
  <2> QED
    BY <1>3
<1>5. Untried \in SeenState
  <2> HIDE DEF No
  <2> QED
    BY <1>1, <1>2, <1>3, SeenRecord
<1> QED
  BY <1>4, <1>5

\* A session the user or the supply ends leaves nothing to wait for.
LEMMA StoppedKeepsInv ==
    ASSUME IInv, Stopped, around' \in AroundState, UNCHANGED service
    PROVE  IInv'
<1>1. /\ service \in ServiceState /\ seen \in SeenState
      /\ LOGGER_STABLE \in Nat /\ RetryDelays[3] \in Nat
  BY Fields
<1>2. seen' = [falls |-> 0, quiet |-> seen.quiet, steady |-> 0, tried |-> FALSE]
  <2>1. seen' = [Untried EXCEPT !.falls = 0, !.steady = 0]
    BY DEF Stopped
  <2>2. Untried \in SeenState
    BY <1>1, UntriedType
  <2>3. seen' = [falls |-> 0, quiet |-> Untried.quiet, steady |-> 0,
                 tried |-> Untried.tried]
    BY <2>1, <2>2, FallsFields
  <2>4. Untried.quiet = seen.quiet /\ Untried.tried = FALSE
    BY <1>1, UntriedFields
  <2> QED
    BY <2>3, <2>4
<1>3. logger' = "IDLE" /\ logger' \in LoggerStates
  BY DEF Stopped, LoggerStates
<1>4. seen' \in SeenState /\ seen'.falls = 0
  BY <1>1, <1>2 DEF SeenState
<1>5. TypeOK'
  BY <1>1, <1>3, <1>4 DEF TypeOK, ServiceState, SeenState, AroundState
<1>6. AgeHonest'
  BY <1>3 DEF AgeHonest
<1>7. Paused'
  BY <1>4 DEF Paused
<1> QED
  BY <1>5, <1>6, <1>7 DEF IInv

\* A change around the logger that does not shut the service out.
LEMMA UntriedKeepsInv ==
    ASSUME IInv, around' \in AroundState, UNCHANGED <<logger, service>>, seen' = Untried,
           around'.book => around.book, around'.blocked => around.blocked
    PROVE  IInv'
<1>1. seen \in SeenState
  BY Fields
<1>2. seen' = [falls |-> seen.falls, quiet |-> seen.quiet,
               steady |-> seen.steady, tried |-> FALSE]
  BY <1>1, UntriedFields
<1>3. seen' \in SeenState
  BY <1>1, <1>2 DEF SeenState
<1>4. seen'.falls = seen.falls /\ seen'.quiet = seen.quiet /\ seen'.steady = seen.steady
  BY <1>2
<1>5. TypeOK'
  BY <1>3 DEF IInv, TypeOK, SeenState, AroundState
<1>6. AgeHonest'
  BY <1>4 DEF IInv, AgeHonest
<1>7. Paused'
  BY <1>4 DEF IInv, Paused, Unseen
<1> QED
  BY <1>5, <1>6, <1>7 DEF IInv

\* The menu and the reader stop the session or leave the logger alone.
LEMMA UserActsKeepsInv ==
    ASSUME IInv, UserActs
    PROVE  IInv'
<1>1. around \in AroundState
  BY DEF IInv, TypeOK, AroundState
<1>2. CASE around' = [around EXCEPT !.mode = "OFF"] /\ Stopped
  <2>1. around' \in AroundState
    BY <1>1, <1>2 DEF AroundState
  <2> QED
    BY <1>2, <2>1, StoppedKeepsInv DEF UserActs
<1>3. CASE around' = [around EXCEPT !.mode = "STANDARD"] /\ logger' = logger /\ seen' = Untried
  <2>1. /\ around' \in AroundState
        /\ around'.book = around.book /\ around'.blocked = around.blocked
    BY <1>1, <1>3 DEF AroundState
  <2> QED
    BY <1>3, <2>1, UntriedKeepsInv DEF UserActs
<1>4. CASE around' = [around EXCEPT !.book = TRUE] /\ Stopped
  <2>1. around' \in AroundState
    BY <1>1, <1>4 DEF AroundState
  <2> QED
    BY <1>4, <2>1, StoppedKeepsInv DEF UserActs
<1>5. CASE around' = [around EXCEPT !.book = FALSE] /\ logger' = logger /\ seen' = Untried
  <2>1. /\ around' \in AroundState
        /\ around'.book = FALSE /\ around'.blocked = around.blocked
    BY <1>1, <1>5 DEF AroundState
  <2> QED
    BY <1>5, <2>1, UntriedKeepsInv DEF UserActs
<1> QED
  BY <1>2, <1>3, <1>4, <1>5 DEF UserActs

\* The supply stops the session when the block begins.
LEMMA SupplyActsKeepsInv ==
    ASSUME IInv, SupplyActs
    PROVE  IInv'
<1>1. around \in AroundState
  BY DEF IInv, TypeOK, AroundState
<1>2. /\ around' \in AroundState
      /\ around'.book = around.book /\ around'.blocked = ~ around.blocked
  BY <1>1 DEF SupplyActs, AroundState
<1>3. CASE around'.blocked
  BY <1>2, <1>3, StoppedKeepsInv DEF SupplyActs
<1>4. CASE ~ around'.blocked
  BY <1>2, <1>4, UntriedKeepsInv DEF SupplyActs
<1> QED
  BY <1>3, <1>4

\* The fix and the card change nothing that the service or the history holds.
LEMMA SurroundingsKeepInv ==
    ASSUME IInv, SurroundingsChange
    PROVE  IInv'
<1>1. around \in AroundState
  BY DEF IInv, TypeOK, AroundState
<1>2. /\ around' \in AroundState
      /\ around'.book = around.book /\ around'.blocked = around.blocked
  <2>1. CASE \E f \in {"none", "no date", "valid"} \ {around.fix} :
               around' = [around EXCEPT !.fix = f]
    BY <1>1, <2>1 DEF AroundState
  <2>2. CASE around' = [around EXCEPT !.card = IF @ = "good" THEN "bad" ELSE "good"]
    BY <1>1, <2>2 DEF AroundState
  <2> QED
    BY <2>1, <2>2 DEF SurroundingsChange
<1> QED
  BY <1>2, UntriedKeepsInv DEF SurroundingsChange

\* At boot nothing has fallen.
LEMMA InitInv ==
    ASSUME Init
    PROVE  IInv
<1>1. /\ 0 \in 0..FailuresMax /\ 0 \in 0..RetryDelays[3]
      /\ 0 \in 0..LOGGER_STABLE /\ 0 \in 0..3
  BY TrackServiceAssumption
<1>2. service \in ServiceState /\ service.prev = "IDLE"
  BY <1>1 DEF Init, ServiceState, LoggerStates
<1>3. seen \in SeenState /\ seen.falls = 0
  <2>1. seen = [falls |-> 0, quiet |-> 0, steady |-> 0, tried |-> FALSE]
    BY Zenon DEF Init
  <2> DEFINE No == FALSE
  <2>2. No \in BOOLEAN
    OBVIOUS
  <2>3. seen = [falls |-> 0, quiet |-> 0, steady |-> 0, tried |-> No]
    BY <2>1
  <2> HIDE DEF No
  <2> QED
    BY <1>1, <2>2, <2>3, SeenRecord
<1>4. around \in AroundState
  BY DEF Init, AroundState
<1>5. logger = "IDLE" /\ logger \in LoggerStates
  BY DEF Init, LoggerStates
<1>6. TypeOK
  BY <1>2, <1>3, <1>4, <1>5 DEF TypeOK, ServiceState, SeenState, AroundState
<1>7. AgeHonest /\ Paused
  BY <1>3, <1>5 DEF AgeHonest, Paused
<1> QED
  BY <1>6, <1>7 DEF IInv

\* Every step keeps the invariant: one case an action.
LEMMA NextInv ==
    ASSUME IInv, [Next]_vars
    PROVE  IInv'
<1>1. CASE Second
  BY <1>1, SecondKeepsInv
<1>2. CASE UserActs
  BY <1>2, UserActsKeepsInv
<1>3. CASE SupplyActs
  BY <1>3, SupplyActsKeepsInv
<1>4. CASE SurroundingsChange
  BY <1>4, SurroundingsKeepInv
<1>5. CASE UNCHANGED vars
  BY <1>5 DEF IInv, TypeOK, AgeHonest, Paused, Unseen, vars
<1> QED
  BY <1>1, <1>2, <1>3, <1>4, <1>5 DEF Next

\* The invariant holds of every behaviour.
THEOREM InvHolds == Spec => []IInv
BY InitInv, NextInv, PTL DEF Spec

\* Types, and the failure count in the range of its byte: it never wraps round to
\* "retry at once", for every set of pauses, stable time and limit.
THEOREM ServiceTypeCorrect == Spec => []TypeOK
<1>1. IInv => TypeOK
  BY DEF IInv
<1> QED
  BY <1>1, InvHolds, PTL

\* One step opens a file only when the pause for the falls that count is over.
LEMMA StepKeepsBackoff ==
    ASSUME IInv, [Next]_vars
    PROVE  [seen'.tried /\ seen.falls > 0 => seen.quiet + 1 >= Delay(seen.falls)]_vars
<1> SUFFICES ASSUME seen'.tried, seen.falls > 0, ~ UNCHANGED vars
             PROVE  seen.quiet + 1 >= Delay(seen.falls)
  OBVIOUS
<1>1. CASE Second
  <2>1. ~ around.book /\ ~ around.blocked
    BY DEF IInv, Paused
  <2>2. PICK r \in Served(Ticked) : seen' = Judged(Due(Watched(Ticked)), r[2])
    BY <1>1, <2>1 DEF Second, Ticked
  <2>3. seen'.tried = Due(Watched(Ticked))
    BY <2>2, JudgedCases
  <2> QED
    BY <2>1, <2>3, DueLate
<1>2. CASE UserActs \/ SupplyActs \/ SurroundingsChange
  <2>1. seen \in SeenState
    BY Fields
  <2>2. seen' = Untried \/ seen' = [Untried EXCEPT !.falls = 0, !.steady = 0]
    BY <1>2 DEF UserActs, SupplyActs, SurroundingsChange, Stopped
  <2>3. CASE seen' = Untried
    BY <2>1, <2>3, UntriedType
  <2>4. CASE seen' = [Untried EXCEPT !.falls = 0, !.steady = 0]
    <3>1. Untried \in SeenState /\ Untried.tried = FALSE
      BY <2>1, UntriedType
    <3>2. seen' = [falls |-> 0, quiet |-> Untried.quiet, steady |-> 0,
                   tried |-> Untried.tried]
      BY <2>4, <3>1, FallsFields
    <3>3. seen'.tried = FALSE
      BY <3>1, <3>2
    <3> QED
      BY <3>3
  <2> QED
    BY <2>2, <2>3, <2>4
<1> QED
  BY <1>1, <1>2 DEF Next

\* Whatever starts, falls, stops and the service's delayed view of them do, no file
\* is opened sooner than the pause for the falls since the last lasting recording:
\* for all pauses that do not shrink, every stable time and limit of the count.
THEOREM BackoffIsKept == Spec => BackoffKept
BY InvHolds, StepKeepsBackoff, PTL DEF Spec, BackoffKept
=============================================================================
