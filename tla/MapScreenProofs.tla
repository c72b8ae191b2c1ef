-------------------------- MODULE MapScreenProofs --------------------------
(***************************************************************************)
(* Theorems about MapScreen, for every ring of two points and more and any *)
(* number of events: the types, the track that is drawn as a whole, and    *)
(* the screen of the tracker mode that stands still.                       *)
(*                                                                         *)
(* What TrackDrawn says is true only when no drawing is pending.  The      *)
(* invariant says what is on the screen meanwhile: all but the newest      *)
(* segments, and of these the track flag reminds; and that what the marker *)
(* has saved is what is drawn, so taking it off takes nothing away.        *)
(***************************************************************************)
EXTENDS MapScreen, TLAPS

\* A logger and a picture as they can be between two calls.
Sound(l, p) ==
    /\ l \in LoggerRecords
    /\ p \in PicRecords
    /\ l.state = "rec" => l.named
    /\ l.state = "idle" => ~l.named
    /\ p.marker.at # 0 => p.lines = p.under

\* All but the newest segments are drawn.
Older(l, p) ==
    l.named => \A k \in 1..l.count - 1 : k > p.undrawn => k \in p.lines

IInv ==
    /\ app \in AppRecords /\ gnss \in 0..2 /\ used \in 0..EventsMax
    /\ view \in [centre : Centres, manual : BOOLEAN]
    /\ Sound(logger, pic)
    /\ app.screen = "book" => gnss = 0 /\ logger.state = "idle"
    /\ app.screen = "map" /\ "MAP" \notin app.flags => Older(logger, pic)
    /\ pic.undrawn # 0 => "TRACK" \in app.flags
    /\ app.screen = "tracker" => ~app.deferred

----------------------------------------------------------------------------
(* The logger and the picture.                                             *)

\* A new point renumbers the segments that are drawn and adds one that is not.
LEMMA AppendedOlder ==
    ASSUME NEW l, NEW p, Sound(l, p), l.named,
           NEW n, n = [l EXCEPT !.count = IF @ < TrackMax THEN @ + 1 ELSE @]
    PROVE  /\ Sound(n, Appended(p))
           /\ Older(l, p) => Older(n, Appended(p))
           /\ n.named /\ n.state = l.state
<1> DEFINE q == Appended(p)
<1> USE MapScreenAssumption
<1>1. l \in LoggerRecords /\ p \in PicRecords
  BY DEF Sound
<1>2. n \in LoggerRecords /\ n.state = l.state /\ n.named = l.named
      /\ n.count = IF l.count < TrackMax THEN l.count + 1 ELSE l.count
  <2>1. l.count \in 0..TrackMax
    BY <1>1 DEF LoggerRecords
  <2>2. (IF l.count < TrackMax THEN l.count + 1 ELSE l.count) \in 0..TrackMax
    BY <2>1
  <2> QED BY <1>1, <2>2 DEF LoggerRecords
<1>3. /\ q.lines = Pushed(p.lines) /\ q.under = Pushed(p.under) /\ q.marker = p.marker
      /\ q.undrawn = IF p.undrawn < TrackMax THEN p.undrawn + 1 ELSE p.undrawn
  BY <1>1 DEF Appended, PicRecords
<1>4. q \in PicRecords
  <2>1. Pushed(p.lines) \in SUBSET Segments /\ Pushed(p.under) \in SUBSET Segments
    BY DEF Pushed
  <2>2. (IF p.undrawn < TrackMax THEN p.undrawn + 1 ELSE p.undrawn) \in 0..TrackMax
    BY <1>1 DEF PicRecords
  <2>3. \A L, U \in SUBSET Segments, u \in 0..TrackMax :
           [p EXCEPT !.lines = L, !.under = U, !.undrawn = u] \in PicRecords
    BY <1>1 DEF PicRecords
  <2>4. q = [p EXCEPT !.lines = Pushed(p.lines), !.under = Pushed(p.under),
                      !.undrawn = IF p.undrawn < TrackMax THEN p.undrawn + 1 ELSE p.undrawn]
    BY DEF Appended
  <2> HIDE DEF q
  <2> QED BY <2>1, <2>2, <2>3, <2>4
<1>5. Sound(n, q)
  BY <1>2, <1>3, <1>4 DEF Sound
<1>6. ASSUME Older(l, p), NEW k \in 1..n.count - 1, k > q.undrawn
      PROVE  k \in q.lines
  <2>1. l.count \in 0..TrackMax /\ p.undrawn \in 0..TrackMax
    BY <1>1 DEF LoggerRecords, PicRecords
  <2>2. k \in Segments
    BY <1>2, <2>1 DEF Segments
  <2>3. k - 1 \in 1..l.count - 1 /\ k - 1 > p.undrawn
    BY <1>2, <1>3, <1>6, <2>1, <2>2 DEF Segments
  <2>4. k - 1 \in p.lines
    BY <1>6, <2>3 DEF Older
  <2>5. k = (k - 1) + 1
    BY <2>2 DEF Segments
  <2> QED BY <1>3, <2>2, <2>4, <2>5 DEF Pushed
<1> HIDE DEF q
<1>7. Older(l, p) => Older(n, q)
  BY <1>6 DEF Older
<1> QED BY <1>2, <1>5, <1>7 DEF q

\* A logger that has fallen, with a name or without.
LEMMA FallenOlder ==
    ASSUME NEW l, NEW p, Sound(l, p), NEW named \in BOOLEAN, named => l.named
    PROVE  /\ Sound(Fallen(l, named), p)
           /\ Older(l, p) => Older(Fallen(l, named), p)
<1> DEFINE n == Fallen(l, named)
<1> USE MapScreenAssumption
<1>1. n \in LoggerRecords
  BY DEF Fallen, LoggerRecords, LoggerStates, Sound
<1>2. n.state = "err" /\ n.named = named /\ (named => n.count = l.count)
  BY DEF Fallen
<1>3. Sound(n, p)
  BY <1>1, <1>2 DEF Sound
<1> HIDE DEF n
<1>4. Older(l, p) => Older(n, p)
  BY <1>2 DEF Older
<1> QED BY <1>3, <1>4 DEF n

LEMMA StoppedOlder ==
    ASSUME NEW l, NEW p, Sound(l, p)
    PROVE  /\ Sound(Stopped, p) /\ Older(Stopped, p) /\ Stopped.state = "idle"
           /\ Sound(Stopped, Cleared(p)) /\ Older(Stopped, Cleared(p))
           /\ Cleared(p).undrawn = p.undrawn
<1> USE MapScreenAssumption
<1>1. Stopped \in LoggerRecords /\ Stopped.state = "idle" /\ ~Stopped.named
  BY DEF Stopped, LoggerRecords, LoggerStates
<1>2. Cleared(p) \in PicRecords /\ Cleared(p).lines = {} /\ Cleared(p).under = {}
      /\ Cleared(p).undrawn = p.undrawn
  BY DEF Cleared, PicRecords, Sound
<1> HIDE DEF Stopped
<1> QED BY <1>1, <1>2 DEF Sound, Older

\* What a call of the logger may leave, compared with what it found.
Follow(r, l, p) ==
    /\ r \in [logger : LoggerRecords, pic : PicRecords, added : BOOLEAN]
    /\ Sound(r.logger, r.pic)
    /\ Older(l, p) => Older(r.logger, r.pic)
    /\ ~r.added => r.pic.undrawn = p.undrawn

LEMMA ResultFollows ==
    ASSUME NEW l, NEW p, NEW n, NEW c, NEW added \in BOOLEAN,
           Sound(n, c), Older(l, p) => Older(n, c), ~added => c.undrawn = p.undrawn
    PROVE  Follow(Result(n, c, added), l, p) /\ Result(n, c, added).added = added
<1> DEFINE r == Result(n, c, added)
<1>1. r.logger = n /\ r.pic = c /\ r.added = added
  BY DEF Result
<1>2. r \in [logger : LoggerRecords, pic : PicRecords, added : BOOLEAN]
  BY DEF Result, Sound
<1> HIDE DEF r
<1>3. Follow(r, l, p)
  BY <1>1, <1>2 DEF Follow
<1> QED BY <1>1, <1>3 DEF r

\* Starting takes no drawn segment away from a track that goes on.
LEMMA StartsFollow ==
    ASSUME Sound(logger, pic), NEW r \in Starts
    PROVE  Follow(r, logger, pic) /\ ~r.added
<1> USE MapScreenAssumption
<1>1. CASE r = Result(logger, pic, FALSE)
  BY <1>1, ResultFollows
<1>2. CASE logger.named /\ r = Result([logger EXCEPT !.state = "rec"], pic, FALSE)
  <2> DEFINE n == [logger EXCEPT !.state = "rec"]
  <2>1. n \in LoggerRecords /\ n.named /\ n.state = "rec" /\ n.count = logger.count
    BY <1>2 DEF LoggerRecords, LoggerStates, Sound
  <2> HIDE DEF n
  <2>2. Sound(n, pic) /\ (Older(logger, pic) => Older(n, pic))
    BY <1>2, <2>1 DEF Sound, Older
  <2>3. r = Result(n, pic, FALSE)
    BY <1>2 DEF n
  <2> QED BY <2>2, <2>3, ResultFollows
<1>3. CASE r = Result(Fallen(logger, FALSE), pic, FALSE)
  <2>1. Sound(Fallen(logger, FALSE), pic)
        /\ (Older(logger, pic) => Older(Fallen(logger, FALSE), pic))
    BY FallenOlder
  <2> QED BY <1>3, <2>1, ResultFollows
<1>4. CASE r = Result([state |-> "rec", named |-> TRUE, count |-> 0], Cleared(pic), FALSE)
  <2> DEFINE n == [state |-> "rec", named |-> TRUE, count |-> 0]
             c == Cleared(pic)
  <2>1. n \in LoggerRecords /\ n.named /\ n.state = "rec" /\ n.count = 0
    BY DEF LoggerRecords, LoggerStates
  <2>2. c \in PicRecords /\ c.lines = {} /\ c.under = {} /\ c.undrawn = pic.undrawn
    BY DEF Cleared, PicRecords, Sound
  <2> HIDE DEF n, c
  <2>3. Sound(n, c) /\ Older(n, c)
    BY <2>1, <2>2 DEF Sound, Older
  <2>4. r = Result(n, c, FALSE)
    BY <1>4 DEF n, c
  <2> QED BY <2>2, <2>3, <2>4, ResultFollows
<1> QED BY <1>1, <1>2, <1>3, <1>4 DEF Starts

\* A point goes on in the ring and not yet on the screen, or it leaves both alone.
LEMMA AddsFollow ==
    ASSUME NEW r, Follow(r, logger, pic), ~r.added, r.logger.state = "rec",
           NEW q \in Adds(r)
    PROVE  Follow(q, logger, pic)
<1> DEFINE n == [r.logger EXCEPT !.count = IF @ < TrackMax THEN @ + 1 ELSE @]
<1>1. /\ Sound(r.logger, r.pic) /\ r.logger.named
      /\ Older(logger, pic) => Older(r.logger, r.pic)
      /\ r.pic.undrawn = pic.undrawn
  BY DEF Follow, Sound
<1>2. /\ Sound(n, Appended(r.pic)) /\ n.named
      /\ Older(logger, pic) => Older(n, Appended(r.pic))
  BY <1>1, AppendedOlder
<1>3. CASE q = r
  BY <1>3
<1>4. CASE q = Result(n, Appended(r.pic), TRUE)
  <2> HIDE DEF n
  <2> QED BY <1>2, <1>4, ResultFollows
<1>5. CASE q = Result(Fallen(n, TRUE), Appended(r.pic), TRUE)
  <2> HIDE DEF n
  <2>1. /\ Sound(Fallen(n, TRUE), Appended(r.pic))
        /\ Older(logger, pic) => Older(Fallen(n, TRUE), Appended(r.pic))
    BY <1>2, FallenOlder
  <2> QED BY <1>5, <2>1, ResultFollows
<1>6. ASSUME NEW named \in BOOLEAN, q = Result(Fallen(r.logger, named), r.pic, FALSE)
      PROVE  Follow(q, logger, pic)
  <2>1. /\ Sound(Fallen(r.logger, named), r.pic)
        /\ Older(logger, pic) => Older(Fallen(r.logger, named), r.pic)
    BY <1>1, FallenOlder
  <2> QED BY <1>1, <1>6, <2>1, ResultFollows
<1>7. CASE q = Result(Stopped, r.pic, FALSE)
  BY <1>1, <1>7, StoppedOlder, ResultFollows
<1> QED BY <1>3, <1>4, <1>5, <1>6, <1>7 DEF Adds

LEMMA ServedFollow ==
    ASSUME Sound(logger, pic), NEW r \in Served
    PROVE  Follow(r, logger, pic)
<1> DEFINE still == Result(logger, pic, FALSE)
<1>1. Follow(still, logger, pic) /\ ~still.added
  BY ResultFollows
<1>2. CASE gnss = 0
  BY <1>1, <1>2 DEF Served
<1>3. CASE gnss # 0
  <2>1. PICK s \in IF logger.state = "rec" THEN {still} ELSE Starts :
            r \in IF s.logger.state = "rec" THEN Adds(s) ELSE {s}
    BY <1>3 DEF Served
  <2>2. Follow(s, logger, pic) /\ ~s.added
    BY <1>1, <2>1, StartsFollow
  <2> QED BY <2>1, <2>2, AddsFollow
<1> QED BY <1>2, <1>3

----------------------------------------------------------------------------
(* The fields of app.                                                      *)

LEMMA InputDoneFields ==
    ASSUME NEW a \in AppRecords, NEW next \in Screens
    PROVE  LET b == InputDone(a, next) IN
           /\ b \in AppRecords /\ b.screen = next /\ b.deferred = a.deferred
           /\ a.flags \subseteq b.flags
           /\ next = "map" /\ a.screen # "map" => "MAP" \in b.flags
<1> DEFINE F == a.flags \cup {"SCREEN"} \cup
                (IF next = "map" /\ a.screen # "map" THEN {"MAP"} ELSE {})
           b == InputDone(a, next)
<1>1. F \in SUBSET Flags
  BY DEF AppRecords, Flags
<1>2. b = [a EXCEPT !.screen = next, !.gate = FALSE, !.flags = F]
  BY DEF InputDone
<1>3. /\ a.flags \subseteq F
      /\ next = "map" /\ a.screen # "map" => "MAP" \in F
  OBVIOUS
<1> HIDE DEF F, b
<1>4. b \in AppRecords /\ b.screen = next /\ b.deferred = a.deferred /\ b.flags = F
  BY <1>1, <1>2 DEF AppRecords
<1> QED BY <1>3, <1>4 DEF b

\* What purrgo_logger_set_mode does to the logger and the picture.
LEMMA TurnedFields ==
    ASSUME Sound(logger, pic), NEW off \in BOOLEAN, Turned(off)
    PROVE  /\ Sound(logger', pic') /\ pic'.undrawn = pic.undrawn
           /\ Older(logger, pic) => Older(logger', pic')
           /\ off => logger'.state = "idle"
<1>1. CASE off /\ logger.state # "idle"
  BY <1>1, StoppedOlder DEF Turned
<1>2. CASE ~(off /\ logger.state # "idle")
  BY <1>2 DEF Turned
<1> QED BY <1>1, <1>2

\* A step that leaves the map up, or takes it down, and raises flags, with what the
\* logger does in it.
LEMMA Kept ==
    ASSUME IInv, app' \in AppRecords, gnss' \in 0..2, used' \in 0..EventsMax,
           view' \in [centre : Centres, manual : BOOLEAN],
           Sound(logger', pic'),
           Older(logger, pic) => Older(logger', pic'),
           app.flags \subseteq app'.flags,
           pic'.undrawn = pic.undrawn \/ "TRACK" \in app'.flags,
           app'.screen = "map" => app.screen = "map" \/ "MAP" \in app'.flags,
           app'.screen = "book" => gnss' = 0 /\ logger'.state = "idle",
           app'.screen = "tracker" => ~app'.deferred
    PROVE  IInv'
BY DEF IInv

LEMMA EventUsed ==
    ASSUME IInv, Event
    PROVE  used' \in 0..EventsMax
BY MapScreenAssumption DEF IInv, Event

LEMMA FixChangesKeeps == ASSUME IInv, FixChanges PROVE IInv'
<1>1. gnss' \in 0..2
  BY DEF FixChanges
<1>2. UNCHANGED <<app, logger, view, pic>> /\ app.screen # "book" /\ used' \in 0..EventsMax
  BY EventUsed DEF FixChanges
<1> QED BY <1>1, <1>2, Kept DEF IInv

LEMMA MountedKeeps == ASSUME IInv, Mounted PROVE IInv'
<1>1. app' \in AppRecords /\ app'.screen = app.screen /\ app'.deferred = app.deferred
      /\ app'.flags = app.flags \cup {"MAP"}
  BY DEF Mounted, IInv, AppRecords, Flags
<1>2. UNCHANGED <<gnss, logger, view, pic>> /\ used' \in 0..EventsMax
  BY EventUsed DEF Mounted
<1> QED BY <1>1, <1>2, Kept DEF IInv

LEMMA SupplyStopsKeeps == ASSUME IInv, SupplyStops PROVE IInv'
<1>1. Sound(Stopped, pic) /\ Older(Stopped, pic) /\ Stopped.state = "idle"
  BY StoppedOlder DEF IInv
<1>2. UNCHANGED <<app, gnss, view, pic>> /\ logger' = Stopped /\ used' \in 0..EventsMax
  BY EventUsed DEF SupplyStops
<1> QED BY <1>1, <1>2, Kept DEF IInv

LEMMA BatteryChangesKeeps == ASSUME IInv, BatteryChanges PROVE IInv'
<1>1. app' \in AppRecords /\ app'.screen = app.screen
      /\ app'.flags = app.flags \cup {"STATUS"} /\ app.screen # "tracker"
  BY DEF BatteryChanges, IInv, AppRecords, Flags
<1>2. UNCHANGED <<gnss, logger, view, pic>> /\ used' \in 0..EventsMax
  BY EventUsed DEF BatteryChanges
<1> QED BY <1>1, <1>2, Kept DEF IInv

LEMMA RipensKeeps == ASSUME IInv, Ripens PROVE IInv'
<1>1. app' \in AppRecords /\ app'.screen = app.screen /\ ~app'.deferred
      /\ app'.flags = app.flags \cup {"SCREEN"}
  BY DEF Ripens, IInv, AppRecords, Flags
<1>2. UNCHANGED <<gnss, logger, view, pic, used>>
  BY DEF Ripens
<1> QED BY <1>1, <1>2, Kept DEF IInv

LEMMA GateEndsKeeps == ASSUME IInv, GateEnds PROVE IInv'
<1>1. app' \in AppRecords /\ app'.screen = app.screen /\ app'.deferred = app.deferred
      /\ app'.flags = app.flags
  BY DEF GateEnds, IInv, AppRecords
<1>2. UNCHANGED <<gnss, logger, view, pic, used>>
  BY DEF GateEnds
<1> QED BY <1>1, <1>2, Kept DEF IInv

----------------------------------------------------------------------------
(* A second.                                                               *)

LEMMA NoticedFields ==
    ASSUME IInv, NEW minute \in BOOLEAN
    PROVE  LET a == Noticed(minute) IN
           /\ a \in AppRecords /\ a.screen = app.screen /\ app.flags \subseteq a.flags
<1> DEFINE validity == (gnss # 0) # app.wasValid
           changed == gnss # Reference \/ minute
           rec == logger.state # app.seenRec
           F == app.flags \cup (IF validity \/ rec THEN {"SCREEN", "STATUS"} ELSE {})
                          \cup (IF minute THEN {"STATUS"} ELSE {})
           d == changed \/ (app.deferred /\ ~validity)
           shown == IF changed THEN gnss ELSE app.shown
           valid == gnss # 0
           a == Noticed(minute)
<1>1. a = [app EXCEPT !.flags = F, !.deferred = d, !.shown = shown, !.wasValid = valid,
                      !.seenRec = logger.state]
  BY DEF Noticed
<1>2. F \in SUBSET Flags /\ app.flags \subseteq F
  BY DEF IInv, AppRecords, Flags
<1>3. d \in BOOLEAN /\ valid \in BOOLEAN
  OBVIOUS
<1>4. shown \in 0..2
  BY DEF IInv, AppRecords
<1>5. logger.state \in LoggerStates
  BY DEF IInv, Sound, LoggerRecords
<1>6. app \in AppRecords
  BY DEF IInv
<1> HIDE DEF F, d, shown, valid, a
<1>7. a \in AppRecords /\ a.screen = app.screen /\ a.flags = F
  BY <1>1, <1>2, <1>3, <1>4, <1>5, <1>6 DEF AppRecords
<1> QED BY <1>2, <1>7 DEF a

LEMMA WithTrackFields ==
    ASSUME NEW a \in AppRecords, NEW added \in BOOLEAN
    PROVE  LET b == WithTrack(a, added) IN
           /\ b \in AppRecords /\ b.screen = a.screen /\ a.flags \subseteq b.flags
           /\ added => "TRACK" \in b.flags
           /\ a.screen # "map" => b.deferred = a.deferred
<1> DEFINE F == a.flags \cup {"TRACK"}
           d == a.deferred \/ a.screen = "map"
           b == WithTrack(a, added)
<1>1. CASE ~added
  BY <1>1 DEF WithTrack
<1>2. CASE added
  <2>1. b = [a EXCEPT !.flags = F, !.deferred = d]
    BY <1>2 DEF WithTrack
  <2>2. F \in SUBSET Flags /\ a.flags \subseteq F /\ "TRACK" \in F
    BY DEF AppRecords, Flags
  <2>3. a.deferred \in BOOLEAN /\ d \in BOOLEAN
    BY DEF AppRecords
  <2>4. a.screen # "map" => d = a.deferred
    BY <2>3
  <2> HIDE DEF F, d, b
  <2>5. b \in AppRecords /\ b.screen = a.screen /\ b.flags = F /\ b.deferred = d
    BY <2>1, <2>2, <2>3 DEF AppRecords
  <2> QED BY <2>2, <2>4, <2>5 DEF b
<1> QED BY <1>1, <1>2

LEMMA SecondKeeps ==
    ASSUME IInv, NEW minute \in BOOLEAN, NEW quiet \in BOOLEAN, Second(minute, quiet)
    PROVE  IInv'
<1>1. Sound(logger, pic) /\ app \in AppRecords
  BY DEF IInv
<1>2. PICK r \in IF quiet THEN {Result(logger, pic, FALSE)} ELSE Served :
          /\ logger' = r.logger /\ pic' = r.pic
          /\ IF app.screen = "tracker"
             THEN /\ app' = WithTrack([app EXCEPT !.wasValid = gnss # 0], r.added)
                  /\ UNCHANGED view
             ELSE LET a == WithTrack(Noticed(minute), r.added)
                  IN  IF app.screen = "map" /\ Follows(gnss)
                      THEN /\ app' = [a EXCEPT !.flags = @ \cup {"MAP"}]
                           /\ \E c \in Centres :
                                 gnss \in Seen(c) /\ view' = [view EXCEPT !.centre = c]
                      ELSE app' = a /\ UNCHANGED view
  BY DEF Second
<1>3. Follow(r, logger, pic)
  <2>1. CASE quiet
    BY <1>1, <1>2, <2>1, ResultFollows
  <2>2. CASE ~quiet
    BY <1>1, <1>2, <2>2, ServedFollow
  <2> QED BY <2>1, <2>2
<1>4. /\ r.added \in BOOLEAN /\ Sound(logger', pic')
      /\ Older(logger, pic) => Older(logger', pic')
      /\ ~r.added => pic'.undrawn = pic.undrawn
  BY <1>2, <1>3 DEF Follow
<1>5. app.screen # "book" /\ gnss' = gnss /\ used' \in 0..EventsMax
  BY EventUsed DEF Second, IInv
<1>6. CASE app.screen = "tracker"
  <2> DEFINE valid == gnss # 0
             a == [app EXCEPT !.wasValid = valid]
  <2>1. a \in AppRecords /\ a.screen = app.screen /\ a.flags = app.flags
        /\ a.deferred = app.deferred
    <3>1. valid \in BOOLEAN
      OBVIOUS
    <3> HIDE DEF valid
    <3> QED BY <1>1, <3>1 DEF AppRecords
  <2>2. app' = WithTrack(a, r.added) /\ view' = view
    BY <1>2, <1>6
  <2> HIDE DEF a
  <2>3. /\ app' \in AppRecords /\ app'.screen = "tracker" /\ app.flags \subseteq app'.flags
        /\ r.added => "TRACK" \in app'.flags
        /\ app'.deferred = app.deferred
    BY <1>4, <1>6, <2>1, <2>2, WithTrackFields
  <2> QED BY <1>4, <1>5, <1>6, <2>2, <2>3, Kept DEF IInv
<1>7. CASE app.screen # "tracker"
  <2> DEFINE a == WithTrack(Noticed(minute), r.added)
  <2>1. Noticed(minute) \in AppRecords /\ Noticed(minute).screen = app.screen
        /\ app.flags \subseteq Noticed(minute).flags
    BY NoticedFields
  <2>2. /\ a \in AppRecords /\ a.screen = app.screen /\ app.flags \subseteq a.flags
        /\ r.added => "TRACK" \in a.flags
    BY <1>4, <2>1, WithTrackFields
  <2>3. \/ app' = a /\ view' = view
        \/ /\ app' = [a EXCEPT !.flags = @ \cup {"MAP"}]
           /\ \E c \in Centres : view' = [view EXCEPT !.centre = c]
    BY <1>2, <1>7
  <2> HIDE DEF a
  <2>4. view' \in [centre : Centres, manual : BOOLEAN]
    BY <2>3 DEF IInv
  <2>5. /\ app' \in AppRecords /\ app'.screen = app.screen /\ app.flags \subseteq app'.flags
        /\ r.added => "TRACK" \in app'.flags
    BY <2>2, <2>3 DEF AppRecords, Flags
  <2> QED BY <1>4, <1>5, <1>7, <2>4, <2>5, Kept DEF IInv
<1> QED BY <1>6, <1>7

----------------------------------------------------------------------------
(* The buttons.                                                            *)

\* A button changes the fields of app, then ui_input_done raises the flags.
LEMMA ButtonKeeps ==
    ASSUME IInv, Event, NEW a \in AppRecords, NEW next \in Screens,
           app' = InputDone(a, next),
           a.screen = app.screen, app.flags \subseteq a.flags, gnss' \in 0..2,
           view' \in [centre : Centres, manual : BOOLEAN],
           Sound(logger', pic'), Older(logger, pic) => Older(logger', pic'),
           pic'.undrawn = pic.undrawn,
           next = "book" => gnss' = 0 /\ logger'.state = "idle",
           next = "tracker" => ~a.deferred
    PROVE  IInv'
<1>1. /\ app' \in AppRecords /\ app'.screen = next /\ app'.deferred = a.deferred
      /\ app.flags \subseteq app'.flags
      /\ next = "map" /\ app.screen # "map" => "MAP" \in app'.flags
  BY InputDoneFields
<1>2. used' \in 0..EventsMax
  BY EventUsed
<1> QED BY <1>1, <1>2, Kept

LEMMA Ranges ==
    ASSUME IInv
    PROVE  /\ app \in AppRecords /\ gnss \in 0..2 /\ Sound(logger, pic)
           /\ view \in [centre : Centres, manual : BOOLEAN]
           /\ {"map", "pages", "book", "tracker"} = Screens
BY DEF IInv, Screens

LEMMA PanKeeps == ASSUME IInv, Pan PROVE IInv'
<1> DEFINE a == [app EXCEPT !.flags = @ \cup {"MAP"}]
<1>1. a \in AppRecords /\ a.screen = app.screen /\ app.flags \subseteq a.flags
  BY DEF IInv, AppRecords, Flags
<1>2. app' = InputDone(a, "map") /\ Event /\ UNCHANGED <<gnss, logger, pic>>
  BY DEF Pan
<1>3. view' \in [centre : Centres, manual : BOOLEAN]
  <2>1. PICK c \in Centres, m \in {TRUE, view.manual} : view' = [centre |-> c, manual |-> m]
    BY DEF Pan
  <2>2. m \in BOOLEAN
    BY Ranges
  <2> QED BY <2>1, <2>2
<1> HIDE DEF a
<1> QED BY <1>1, <1>2, <1>3, Ranges, ButtonKeeps

LEMMA CentreKeeps == ASSUME IInv, Centre PROVE IInv'
<1> DEFINE a == [app EXCEPT !.flags = @ \cup {"MAP"}]
<1>1. a \in AppRecords /\ a.screen = app.screen /\ app.flags \subseteq a.flags
  BY DEF IInv, AppRecords, Flags
<1>2. (app' = InputDone(a, "map") \/ app' = InputDone(app, "map"))
      /\ Event /\ UNCHANGED <<gnss, logger, pic>>
  BY DEF Centre
<1>3. view' \in [centre : Centres, manual : BOOLEAN]
  <2>1. view' = view \/ \E c \in Centres : view' = [centre |-> c, manual |-> FALSE]
    BY DEF Centre
  <2>2. view \in [centre : Centres, manual : BOOLEAN]
    BY Ranges
  <2>3. \A c \in Centres : [centre |-> c, manual |-> FALSE] \in [centre : Centres, manual : BOOLEAN]
    OBVIOUS
  <2> QED BY <2>1, <2>2, <2>3
<1> HIDE DEF a
<1>4. CASE app' = InputDone(a, "map")
  BY <1>1, <1>2, <1>3, <1>4, Ranges, ButtonKeeps
<1>5. CASE app' = InputDone(app, "map")
  BY <1>2, <1>3, <1>5, Ranges, ButtonKeeps
<1> QED BY <1>2, <1>4, <1>5

LEMMA NextPageKeeps == ASSUME IInv, NextPage PROVE IInv'
<1>1. PICK off \in BOOLEAN : Turned(off)
  BY DEF NextPage
<1>2. PICK next \in {"map", "pages"} : app' = InputDone(app, next)
  BY DEF NextPage
<1>3. Event /\ UNCHANGED <<gnss, view>>
  BY DEF NextPage
<1>4. /\ Sound(logger', pic') /\ pic'.undrawn = pic.undrawn
      /\ Older(logger, pic) => Older(logger', pic')
  BY <1>1, TurnedFields DEF IInv
<1> QED BY <1>2, <1>3, <1>4, Ranges, ButtonKeeps

LEMMA TurnsKeeps == ASSUME IInv, Turns PROVE IInv'
<1>1. PICK F \in SUBSET {"MAP"} : app' = InputDone([app EXCEPT !.flags = @ \cup F], app.screen)
  BY DEF Turns
<1> DEFINE a == [app EXCEPT !.flags = @ \cup F]
<1>2. a \in AppRecords /\ a.screen = app.screen /\ app.flags \subseteq a.flags
  BY DEF IInv, AppRecords, Flags
<1>3. app' = InputDone(a, app.screen) /\ app.screen \in {"pages", "book"} /\ Event
      /\ UNCHANGED <<gnss, logger, view, pic>>
  BY <1>1 DEF Turns
<1> HIDE DEF a
<1>4. app.screen \in Screens /\ app.screen # "tracker"
  BY <1>3, Ranges
<1>5. app.screen = "book" => gnss = 0 /\ logger.state = "idle"
  BY DEF IInv
<1> QED BY <1>2, <1>3, <1>4, <1>5, Ranges, ButtonKeeps

LEMMA EnterBookKeeps == ASSUME IInv, EnterBook PROVE IInv'
<1> DEFINE a == [app EXCEPT !.wasValid = FALSE, !.ref = 0, !.shown = 0, !.deferred = FALSE]
<1>1. a \in AppRecords /\ a.screen = app.screen /\ app.flags \subseteq a.flags
  <2>1. \A v, d \in BOOLEAN, f, g \in 0..2 :
           LET b == [app EXCEPT !.wasValid = v, !.ref = f, !.shown = g, !.deferred = d]
           IN  b \in AppRecords /\ b.screen = app.screen /\ b.flags = app.flags
    BY Ranges, ZenonT(40) DEF AppRecords
  <2>2. FALSE \in BOOLEAN /\ 0 \in 0..2
    OBVIOUS
  <2> QED BY <2>1, <2>2
<1>2. app' = InputDone(a, "book") /\ Event /\ gnss' = 0 /\ view' = view /\ Turned(TRUE)
  BY DEF EnterBook
<1>3. /\ Sound(logger', pic') /\ pic'.undrawn = pic.undrawn /\ logger'.state = "idle"
      /\ Older(logger, pic) => Older(logger', pic')
  BY <1>2, TurnedFields DEF IInv
<1> HIDE DEF a
<1> QED BY <1>1, <1>2, <1>3, Ranges, ButtonKeeps

LEMMA LeaveBookKeeps == ASSUME IInv, LeaveBook PROVE IInv'
<1> DEFINE a == [app EXCEPT !.deferred = FALSE, !.flags = @ \cup {"MAP"}]
<1>1. a \in AppRecords /\ a.screen = app.screen /\ app.flags \subseteq a.flags
  BY DEF IInv, AppRecords, Flags
<1>2. app' = InputDone(a, "pages") /\ Event /\ UNCHANGED <<gnss, logger, view, pic>>
  BY DEF LeaveBook
<1> HIDE DEF a
<1> QED BY <1>1, <1>2, Ranges, ButtonKeeps

LEMMA EnterTrackerKeeps == ASSUME IInv, EnterTracker PROVE IInv'
<1> DEFINE a == [app EXCEPT !.deferred = FALSE]
<1>1. a \in AppRecords /\ a.screen = app.screen /\ app.flags \subseteq a.flags /\ ~a.deferred
  BY DEF IInv, AppRecords
<1>2. app' = InputDone(a, "tracker") /\ Event /\ UNCHANGED <<gnss, logger, view, pic>>
  BY DEF EnterTracker
<1> HIDE DEF a
<1> QED BY <1>1, <1>2, Ranges, ButtonKeeps

LEMMA LeaveTrackerKeeps == ASSUME IInv, LeaveTracker PROVE IInv'
<1> DEFINE a == [app EXCEPT !.ref = 0, !.shown = 0, !.deferred = FALSE,
                            !.flags = @ \cup {"MAP", "STATUS"}]
<1>1. a \in AppRecords /\ a.screen = app.screen /\ app.flags \subseteq a.flags
  <2> DEFINE F == app.flags \cup {"MAP", "STATUS"}
             b(d, f, g, G) ==
                [app EXCEPT !.ref = f, !.shown = g, !.deferred = d, !.flags = G]
  <2>1. \A d \in BOOLEAN, f, g \in 0..2, G \in SUBSET Flags :
           LET c == b(d, f, g, G)
           IN  c \in AppRecords /\ c.screen = app.screen /\ c.flags = G
    BY Ranges, ZenonT(40) DEF AppRecords
  <2>2. FALSE \in BOOLEAN /\ 0 \in 0..2
    OBVIOUS
  <2>3. F \in SUBSET Flags /\ app.flags \subseteq F
    BY Ranges DEF AppRecords, Flags
  <2>4. a = b(FALSE, 0, 0, F)
    OBVIOUS
  <2> HIDE DEF F, a, b
  <2> QED BY <2>1, <2>2, <2>3, <2>4
<1>2. app' = InputDone(a, "map") /\ Event /\ UNCHANGED <<gnss, view>>
  BY DEF LeaveTracker
<1>3. PICK off \in BOOLEAN : Turned(off)
  BY DEF LeaveTracker
<1>4. /\ Sound(logger', pic') /\ pic'.undrawn = pic.undrawn
      /\ Older(logger, pic) => Older(logger', pic')
  BY <1>3, TurnedFields DEF IInv
<1> HIDE DEF a
<1> QED BY <1>1, <1>2, <1>4, Ranges, ButtonKeeps

----------------------------------------------------------------------------
(* The renderer.                                                           *)

LEMMA MarkerRange ==
    ASSUME IInv
    PROVE  Marker \in Markers
<1>2. (IF gnss = 0 THEN LastPlace ELSE gnss) \in Places
  BY Ranges DEF LastPlace, Places
<1>3. (IF (IF gnss = 0 THEN LastPlace ELSE gnss) \in Seen(view.centre)
       THEN IF gnss = 0 THEN LastPlace ELSE gnss ELSE 0) \in Places \cup {0}
  BY <1>2
<1>4. (gnss # 0) \in BOOLEAN
  OBVIOUS
<1> QED BY <1>3, <1>4 DEF Marker, Markers

LEMMA OverlaidFields ==
    ASSUME IInv
    PROVE  LET p == Overlaid(pic) IN
           /\ p \in PicRecords /\ p.marker = pic.marker /\ p.lines = pic.lines
           /\ p.under = pic.under /\ p.undrawn = pic.undrawn
<1> DEFINE p == Overlaid(pic)
<1>1. Status \in [valid : BOOLEAN, rec : LoggerStates]
  <2>1. (gnss # 0) \in BOOLEAN
    OBVIOUS
  <2>2. logger.state \in LoggerStates
    BY Ranges DEF Sound, LoggerRecords
  <2> QED BY <2>1, <2>2 DEF Status
<1>2. p = pic \/ p = [pic EXCEPT !.status = Status]
  BY DEF Overlaid
<1>3. pic \in PicRecords
  BY Ranges DEF Sound
<1> HIDE DEF p
<1>4. p \in PicRecords /\ p.marker = pic.marker /\ p.lines = pic.lines
      /\ p.under = pic.under /\ p.undrawn = pic.undrawn
  BY <1>1, <1>2, <1>3 DEF PicRecords
<1> QED BY <1>4 DEF p

\* A picture of the map with its segments, its marker, and what the marker covers.
LEMMA MarkedFields ==
    ASSUME NEW p \in PicRecords, NEW m \in Markers
    PROVE  LET q == Marked(p, m) IN
           /\ q \in PicRecords /\ q.marker = m /\ q.lines = p.lines
           /\ q.undrawn = p.undrawn
           /\ m.at # 0 => q.lines = q.under
<1> DEFINE U == IF m.at # 0 THEN p.lines ELSE {}
           q == Marked(p, m)
<1>1. U \in SUBSET Segments
  BY DEF PicRecords
<1>2. q = [p EXCEPT !.marker = m, !.under = U] /\ (m.at # 0 => U = p.lines)
  BY DEF Marked
<1> HIDE DEF U, q
<1>3. q \in PicRecords /\ q.marker = m /\ q.lines = p.lines /\ q.under = U
      /\ q.undrawn = p.undrawn
  BY <1>1, <1>2 DEF PicRecords
<1> QED BY <1>2, <1>3 DEF q

\* The renderer keeps the screen and what is deferred, and lowers flags.
Rendered(a) ==
    a \in AppRecords /\ a.screen = app.screen /\ a.deferred = app.deferred

LEMMA LoweredFields ==
    ASSUME IInv, NEW F
    PROVE  LET a == [app EXCEPT !.flags = @ \ F] IN
           Rendered(a) /\ a.flags = app.flags \ F
<1>1. app \in AppRecords
  BY Ranges
<1> QED BY <1>1 DEF Rendered, AppRecords

LEMMA NotifiedFields ==
    ASSUME IInv, NEW a, Rendered(a), NEW m
    PROVE  Rendered(Notified(a, m)) /\ Notified(a, m).flags = a.flags
<1>1. gnss \in 0..2
  BY Ranges
<1> QED BY <1>1 DEF Rendered, Notified, AppRecords

LEMMA WholeMapFields ==
    ASSUME IInv, NEW a, Rendered(a), NEW read \in BOOLEAN
    PROVE  Rendered(WholeMap(a, read))
<1>1. CASE read \/ a.tries = 1
  <2>1. \A G \in SUBSET Flags, t \in 0..1 : Rendered([a EXCEPT !.flags = G, !.tries = t])
    BY DEF Rendered, AppRecords
  <2>2. a.flags \ {"MAP"} \in SUBSET Flags
    BY DEF Rendered, AppRecords
  <2>3. 0 \in 0..1
    OBVIOUS
  <2> QED BY <1>1, <2>1, <2>2, <2>3 DEF WholeMap
<1>2. CASE ~(read \/ a.tries = 1)
  <2>1. \A t \in 0..1, g \in BOOLEAN : Rendered([a EXCEPT !.tries = t, !.gate = g])
    BY DEF Rendered, AppRecords
  <2>2. 1 \in 0..1 /\ TRUE \in BOOLEAN
    OBVIOUS
  <2> QED BY <1>2, <2>1, <2>2 DEF WholeMap
<1> QED BY <1>1, <1>2

LEMMA DrawOtherKeeps ==
    ASSUME IInv, UNCHANGED <<gnss, logger, view, used>>, app.screen # "map", DrawOther
    PROVE  IInv'
<1> USE MapScreenAssumption
<1>1. Rendered(app')
  BY LoweredFields DEF DrawOther
<1>2. pic' \in PicRecords /\ pic'.undrawn = 0 /\ pic'.marker.at = 0
  <2> DEFINE f == IF app.screen = "pages" THEN gnss ELSE 0
  <2>1. f \in 0..2 /\ app.screen \in Screens
    BY Ranges DEF AppRecords
  <2>2. pic' = [Blank EXCEPT !.on = app.screen, !.fix = f]
    BY DEF DrawOther
  <2>3. Blank \in PicRecords /\ Blank.undrawn = 0 /\ Blank.marker.at = 0
    BY DEF Blank, PicRecords, Screens, LoggerStates, Markers
  <2> HIDE DEF f
  <2> QED BY <2>1, <2>2, <2>3 DEF PicRecords
<1>3. Sound(logger', pic')
  BY <1>2, Ranges DEF Sound
<1> QED BY <1>1, <1>2, <1>3 DEF IInv, Rendered

LEMMA DrawWholeKeeps ==
    ASSUME IInv, UNCHANGED <<gnss, logger, view, used>>, app.screen = "map", DrawWhole
    PROVE  IInv'
<1> USE MapScreenAssumption
<1> DEFINE L == IF logger.named THEN Drawable(logger) ELSE {}
           o == Overlaid(pic)
           p == [o EXCEPT !.on = "map", !.fix = 0, !.undrawn = 0, !.lines = L]
           a == [app EXCEPT !.flags = @ \ {"SCREEN", "STATUS", "TRACK"}]
<1>1. PICK read \in BOOLEAN : app' = Notified(WholeMap(a, read), Marker)
  BY DEF DrawWhole
<1>2. pic' = Marked(p, Marker)
  BY DEF DrawWhole
<1>3. Rendered(app')
  <2>1. Rendered(a)
    BY LoweredFields
  <2> HIDE DEF a
  <2> QED BY <1>1, <2>1, WholeMapFields, NotifiedFields
<1>4. L \in SUBSET Segments
  BY Ranges DEF Sound, LoggerRecords, Drawable, Segments
<1>5. p \in PicRecords /\ p.undrawn = 0 /\ p.lines = L
  <2>1. o \in PicRecords
    BY OverlaidFields
  <2>2. "map" \in Screens /\ 0 \in 0..2 /\ 0 \in 0..TrackMax
    BY DEF Screens
  <2> HIDE DEF o, L
  <2> QED BY <1>4, <2>1, <2>2 DEF PicRecords
<1> HIDE DEF p
<1>6. pic' \in PicRecords /\ pic'.undrawn = 0 /\ pic'.lines = L
      /\ (pic'.marker.at # 0 => pic'.lines = pic'.under)
  BY <1>2, <1>5, MarkerRange, MarkedFields
<1>7. Sound(logger', pic')
  BY <1>6, Ranges DEF Sound
<1>8. Older(logger', pic')
  BY <1>6 DEF Older, Drawable
<1> QED BY <1>3, <1>6, <1>7, <1>8 DEF IInv, Rendered

LEMMA DrawChangesKeeps ==
    ASSUME IInv, UNCHANGED <<gnss, logger, view, used>>, app.screen = "map",
           "MAP" \notin app.flags, DrawChanges
    PROVE  IInv'
<1> USE MapScreenAssumption
<1> DEFINE o == Overlaid(pic)
           p == [o EXCEPT !.on = "map", !.fix = 0]
           m == IF MarkerChanged THEN Marker ELSE pic.marker
           a == [app EXCEPT !.flags = @ \ {"SCREEN", "STATUS", "TRACK"}]
<1>1. /\ pic' = IF MarkerChanged \/ "TRACK" \in app.flags THEN Marked(Tracked(p), m) ELSE p
      /\ app' = IF MarkerChanged THEN Notified(a, m) ELSE a
  BY DEF DrawChanges
<1>2. Rendered(app')
  <2>1. Rendered(a)
    BY LoweredFields
  <2> HIDE DEF a
  <2> QED BY <1>1, <2>1, NotifiedFields
<1>3. /\ Sound(logger, pic) /\ Older(logger, pic)
      /\ pic.undrawn # 0 => "TRACK" \in app.flags
  BY DEF IInv
<1>4. /\ p \in PicRecords /\ p.marker = pic.marker /\ p.lines = pic.lines
      /\ p.under = pic.under /\ p.undrawn = pic.undrawn
  <2>1. /\ o \in PicRecords /\ o.marker = pic.marker /\ o.lines = pic.lines
        /\ o.under = pic.under /\ o.undrawn = pic.undrawn
    BY OverlaidFields
  <2>2. "map" \in Screens /\ 0 \in 0..2
    BY DEF Screens
  <2> HIDE DEF o
  <2> QED BY <2>1, <2>2 DEF PicRecords
<1>5. m \in Markers
  BY <1>3, MarkerRange DEF Sound, PicRecords
<1> HIDE DEF p, m, a
\* Taking the marker off takes no segment away.
<1>6. Restored(p) = pic.lines
  BY <1>3, <1>4 DEF Restored, Sound
<1>7. CASE "TRACK" \in app.flags
  <2> DEFINE L == pic.lines \cup (IF logger.named THEN NewSegments ELSE {})
             t == Tracked(p)
  <2>1. logger.count \in 0..TrackMax /\ pic.undrawn \in 0..TrackMax
        /\ pic.lines \in SUBSET Segments
    BY <1>3 DEF Sound, LoggerRecords, PicRecords
  <2>2. NewSegments \subseteq Segments
    BY <2>1 DEF NewSegments, Segments
  <2>3. L \in SUBSET Segments
    BY <2>1, <2>2
  <2>4. t = [p EXCEPT !.undrawn = 0, !.lines = L]
    BY <1>6, <1>7 DEF Tracked
  <2>5. logger.named => Drawable(logger) \subseteq L
    <3> SUFFICES ASSUME logger.named, NEW k \in 1..logger.count - 1 PROVE k \in L
      BY DEF Drawable
    <3>1. CASE k > pic.undrawn
      BY <1>3, <3>1 DEF Older
    <3>2. CASE ~(k > pic.undrawn)
      BY <2>1, <3>2 DEF NewSegments
    <3> QED BY <3>1, <3>2
  <2> HIDE DEF L, t
  <2>6. t \in PicRecords /\ t.undrawn = 0 /\ t.lines = L
    <3>1. 0 \in 0..TrackMax
      OBVIOUS
    <3>2. \A S \in SUBSET Segments, u \in 0..TrackMax :
             LET q == [p EXCEPT !.undrawn = u, !.lines = S]
             IN  q \in PicRecords /\ q.undrawn = u /\ q.lines = S
      BY <1>4 DEF PicRecords
    <3> QED BY <2>3, <2>4, <3>1, <3>2
  <2>7. pic' = Marked(t, m)
    BY <1>1, <1>7 DEF t
  <2>8. pic' \in PicRecords /\ pic'.undrawn = 0 /\ pic'.lines = L
        /\ (pic'.marker.at # 0 => pic'.lines = pic'.under)
    BY <1>5, <2>6, <2>7, MarkedFields
  <2>9. Sound(logger', pic')
    BY <1>3, <2>8 DEF Sound
  <2>10. Older(logger', pic')
    BY <2>5, <2>8 DEF Older, Drawable
  <2> QED BY <1>2, <2>8, <2>9, <2>10 DEF IInv, Rendered
<1>8. CASE "TRACK" \notin app.flags
  <2> DEFINE t == Tracked(p)
  <2>1. pic.undrawn = 0
    BY <1>3, <1>8
  <2>2. t = [p EXCEPT !.lines = pic.lines]
    BY <1>6, <1>8 DEF Tracked
  <2>3. pic.lines \in SUBSET Segments
    BY <1>3 DEF Sound, PicRecords
  <2> HIDE DEF t
  <2>4. t \in PicRecords /\ t.undrawn = 0 /\ t.lines = pic.lines
    BY <1>4, <2>1, <2>2, <2>3 DEF PicRecords
  <2>5. pic' \in PicRecords /\ pic'.undrawn = 0 /\ pic'.lines = pic.lines
        /\ (pic'.marker.at # 0 => pic'.lines = pic'.under)
    <3>1. CASE MarkerChanged
      <4>1. pic' = Marked(t, m)
        BY <1>1, <3>1 DEF t
      <4> QED BY <1>5, <2>4, <4>1, MarkedFields
    <3>2. CASE ~MarkerChanged
      <4>1. pic' = p
        BY <1>1, <1>8, <3>2
      <4> QED BY <1>3, <1>4, <2>1, <4>1 DEF Sound
    <3> QED BY <3>1, <3>2
  <2>6. Sound(logger', pic')
    BY <1>3, <2>5 DEF Sound
  <2>7. Older(logger', pic')
    BY <1>3, <2>1, <2>5 DEF Older
  <2> QED BY <1>2, <2>5, <2>6, <2>7 DEF IInv, Rendered
<1> QED BY <1>7, <1>8

LEMMA RenderKeeps == ASSUME IInv, Render PROVE IInv'
<1>1. UNCHANGED <<gnss, logger, view, used>>
  BY DEF Render
<1>2. CASE app.screen # "map"
  BY <1>1, <1>2, DrawOtherKeeps DEF Render
<1>3. CASE app.screen = "map" /\ "MAP" \in app.flags
  BY <1>1, <1>3, DrawWholeKeeps DEF Render
<1>4. CASE app.screen = "map" /\ "MAP" \notin app.flags
  BY <1>1, <1>4, DrawChangesKeeps DEF Render
<1> QED BY <1>2, <1>3, <1>4

----------------------------------------------------------------------------
(* The invariant, and what follows from it.                                *)

LEMMA InitHolds == ASSUME Init PROVE IInv
<1> USE MapScreenAssumption
<1>1. app \in AppRecords /\ app.screen = "map"
  BY DEF Init, AppRecords, Screens, Flags, LoggerStates
<1>2. view \in [centre : Centres, manual : BOOLEAN]
  BY DEF Init, Centres
<1>3. logger \in LoggerRecords /\ logger.state = "idle" /\ ~logger.named
  BY DEF Init, LoggerRecords, LoggerStates
<1>4. pic \in PicRecords /\ pic.marker.at = 0 /\ pic.undrawn = 0
  BY DEF Init, Blank, PicRecords, Screens, LoggerStates, Markers
<1>5. Sound(logger, pic) /\ Older(logger, pic)
  BY <1>3, <1>4 DEF Sound, Older
<1>6. gnss \in 0..2 /\ used \in 0..EventsMax
  BY DEF Init
<1> QED BY <1>1, <1>2, <1>4, <1>5, <1>6 DEF IInv

LEMMA StepKeeps == ASSUME IInv, [Next]_vars PROVE IInv'
<1>1. CASE UNCHANGED vars
  BY <1>1 DEF vars, IInv, Sound, Older
<1>2. CASE FixChanges \/ Mounted \/ SupplyStops \/ BatteryChanges
  BY <1>2, FixChangesKeeps, MountedKeeps, SupplyStopsKeeps, BatteryChangesKeeps
<1>3. CASE \E minute, quiet \in BOOLEAN : Second(minute, quiet)
  BY <1>3, SecondKeeps
<1>4. CASE Ripens \/ GateEnds \/ Render
  BY <1>4, RipensKeeps, GateEndsKeeps, RenderKeeps
<1>5. CASE Buttons
  BY <1>5, PanKeeps, CentreKeeps, NextPageKeeps, TurnsKeeps, EnterBookKeeps,
     LeaveBookKeeps, EnterTrackerKeeps, LeaveTrackerKeeps DEF Buttons
<1> QED BY <1>1, <1>2, <1>3, <1>4, <1>5 DEF Next

LEMMA IInvAlways == Spec => []IInv
<1>1. Init => IInv
  BY InitHolds
<1>2. IInv /\ [Next]_vars => IInv'
  BY StepKeeps
<1> QED BY <1>1, <1>2, PTL DEF Spec

\* The fix, the logger, the view and the picture are always values of their types; a
\* logger that records has a file, one that is off has none; and in the book reader the
\* receiver and the logger are off.
THEOREM TypeCorrect == Spec => []TypeOK
<1>1. IInv => TypeOK
  BY DEF IInv, TypeOK, Sound
<1> QED BY <1>1, IInvAlways, PTL

\* Whenever the map is up and no drawing of it is pending, the whole track of the logger
\* is on it, however long the ring is: the segments the marker covered come back when
\* ui_map.c moves it, and no point is recorded without the flag that has it drawn.
THEOREM TrackIsDrawn == Spec => []TrackDrawn
<1>1. IInv => TrackDrawn
  <2> SUFFICES ASSUME IInv, app.screen = "map", logger.named,
                      app.flags \cap {"MAP", "TRACK"} = {}
               PROVE  Drawable(logger) \subseteq pic.lines
    BY DEF TrackDrawn
  <2>1. Older(logger, pic) /\ pic.undrawn = 0
    BY DEF IInv
  <2> QED BY <2>1 DEF Older, Drawable
<1> QED BY <1>1, IInvAlways, PTL

\* In the tracker mode only the flag of the screen has anything drawn; the only step
\* that stays in the mode and raises it is the one a deferred redraw waits for, and
\* tracker_mode_entered has dropped that.
LEMMA StaysStill ==
    ASSUME IInv, Next, app.screen = "tracker", app'.screen = "tracker", ~Needed
    PROVE  ~Needed'
<1>1. "SCREEN" \notin app.flags
  BY DEF Needed
<1>2. app \in AppRecords /\ ~app.deferred
  BY DEF IInv
<1>3. SUFFICES "SCREEN" \notin app'.flags
  BY DEF Needed
<1>4. CASE FixChanges \/ SupplyStops
  BY <1>1, <1>4 DEF FixChanges, SupplyStops
<1>5. CASE Mounted \/ GateEnds
  BY <1>1, <1>2, <1>5 DEF Mounted, GateEnds, AppRecords
<1>6. CASE BatteryChanges
  BY <1>6 DEF BatteryChanges
<1>7. CASE Ripens
  BY <1>2, <1>7 DEF Ripens
<1>8. CASE Render
  BY <1>8 DEF Render
<1>9. CASE \E minute, quiet \in BOOLEAN : Second(minute, quiet)
  <2> DEFINE valid == gnss # 0
             a == [app EXCEPT !.wasValid = valid]
  <2>1. PICK minute \in BOOLEAN, quiet \in BOOLEAN : Second(minute, quiet)
    BY <1>9
  <2>2. PICK r : app' = WithTrack(a, r.added)
    BY <2>1 DEF Second
  <2>3. valid \in BOOLEAN
    OBVIOUS
  <2> HIDE DEF valid
  <2>4. a \in AppRecords /\ a.flags = app.flags
    BY <1>2, <2>3 DEF AppRecords
  <2> HIDE DEF a
  <2>5. app'.flags = a.flags \/ app'.flags = a.flags \cup {"TRACK"}
    <3>1. CASE r.added
      BY <2>2, <2>4, <3>1 DEF WithTrack, AppRecords
    <3>2. CASE ~r.added
      BY <2>2, <3>2 DEF WithTrack
    <3> QED BY <3>1, <3>2
  <2> QED BY <1>1, <2>4, <2>5
<1>10. ~LeaveTracker
  <2> SUFFICES ASSUME LeaveTracker PROVE FALSE
    OBVIOUS
  <2> DEFINE a == [app EXCEPT !.ref = 0, !.shown = 0, !.deferred = FALSE,
                              !.flags = @ \cup {"MAP", "STATUS"}]
  <2>1. app' = InputDone(a, "map")
    BY DEF LeaveTracker
  <2>2. a.screen = app.screen /\ DOMAIN a = DOMAIN app /\ "screen" \in DOMAIN app
    BY <1>2 DEF AppRecords
  <2> HIDE DEF a
  <2>3. app'.screen = "map"
    BY <2>1, <2>2 DEF InputDone
  <2> QED BY <2>3
<1>11. ~(Pan \/ Centre \/ NextPage \/ Turns \/ EnterBook \/ LeaveBook \/ EnterTracker)
  BY DEF Pan, Centre, NextPage, Turns, EnterBook, LeaveBook, EnterTracker
<1> QED BY <1>4, <1>5, <1>6, <1>7, <1>8, <1>9, <1>10, <1>11 DEF Next, Buttons

\* Once the warning of the tracker mode is on the screen, nothing has the screen drawn
\* again while the mode lasts: neither the receiver, the logger, the supply, the card,
\* nor a redraw that was due before.
THEOREM TrackerStands == Spec => TrackerStill
<1>1. IInv /\ [Next]_vars
      => [app.screen = "tracker" /\ app'.screen = "tracker" /\ ~Needed => ~Needed']_vars
  BY StaysStill
<1> QED BY <1>1, IInvAlways, PTL DEF Spec, TrackerStill
=============================================================================
