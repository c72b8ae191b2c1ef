--------------------------- MODULE GnssRingProofs ---------------------------
(***************************************************************************)
(* Theorems about GnssRing, for every size of the ring and any number of   *)
(* bytes, errors and switches: the types, and that the driver implements   *)
(* ByteStream when no error comes between its look at the flag and its     *)
(* look at the counter (MidRead shows what happens when one does).         *)
(*                                                                         *)
(* The invariant follows the ring by the age of its slots: the slot before *)
(* the writer holds the newest byte, and so on back for as many bytes as   *)
(* were written since the channel was started.  What the reader has not    *)
(* had yet are the youngest of these, unless the writer has lapped it;     *)
(* then the slots it still counts on hold, in another order, bytes that it *)
(* has not had either.                                                     *)
(***************************************************************************)
EXTENDS GnssRing, SequenceTheorems, TLAPS

DmaType == [left : 0..RingSize, state : {"running", "suspended", "stopped"},
            channel : {"ready", "stuck"}]
DrvType == [powered : BOOLEAN, error : BOOLEAN, tail : Slots, lastHead : Slots,
            at : {"outside", "counter", "pop"}, head : Slots]
LossType == [gap : {"next", "later", "any"}, lapped : BOOLEAN]
UsedType == [errors : 0..ErrorsMax, switches : 0..SwitchesMax]

Typed ==
    /\ dma \in DmaType /\ drv \in DrvType /\ loss \in LossType /\ used \in UsedType
    /\ sent \in 0..BytesMax
    /\ buf \in [Slots -> 0..sent]
    /\ out \in Seq(0..sent)
    /\ drv.powered => (drv.error <=> dma.state = "stopped")
    /\ ~ drv.powered => dma.state = "stopped" /\ ~ drv.error /\ drv.at = "outside"

----------------------------------------------------------------------------
(* The slots of the ring.                                                  *)

\* Where the writer is, and which slot comes after one.
LEMMA Modulo ==
    ASSUME NEW N \in Nat \ {0}, NEW x \in 0..N
    PROVE  x % N = IF x = N THEN 0 ELSE x
OBVIOUS

Successor(s) == IF s + 1 = RingSize THEN 0 ELSE s + 1

LEMMA NextSlot ==
    ASSUME NEW s \in Slots
    PROVE  (s + 1) % RingSize = Successor(s) /\ Successor(s) \in Slots
<1>1. RingSize \in Nat \ {0} /\ s + 1 \in 0..RingSize
  BY GnssRingAssumption DEF Slots
<1>2. (s + 1) % RingSize = IF s + 1 = RingSize THEN 0 ELSE s + 1
  BY <1>1, Modulo
<1> QED
  BY <1>1, <1>2 DEF Successor, Slots

LEMMA HeadSlot ==
    ASSUME NEW left \in 0..RingSize
    PROVE  /\ HeadAt(left) = IF left = 0 THEN 0 ELSE RingSize - left
           /\ HeadAt(left) \in Slots
<1>1. RingSize \in Nat \ {0}
  BY GnssRingAssumption
<1>2. RingSize - (IF left = 0 THEN RingSize ELSE left) \in 0..RingSize
  BY <1>1
<1>3. HeadAt(left) = RingSize - (IF left = 0 THEN RingSize ELSE left)
  <2>1. RingSize - (IF left = 0 THEN RingSize ELSE left) # RingSize
    BY <1>1
  <2> QED
    BY <1>1, <1>2, <2>1, Modulo DEF HeadAt
<1> QED
  BY <1>1, <1>3 DEF Slots

----------------------------------------------------------------------------
(* The types.                                                              *)

LEMMA TypedImpliesTypeOK ==
    ASSUME Typed
    PROVE  TypeOK
<1>1. \A i \in DOMAIN out : out[i] \in 0..sent
  BY ElementOfSeq DEF Typed
<1> QED
  BY <1>1 DEF Typed, TypeOK, DmaType, DrvType, LossType, UsedType

\* A start always gets the channel running, in whatever state the error left it.
LEMMA RestartedRuns ==
    ASSUME NEW d \in DmaType, d.state = "stopped"
    PROVE  Restarted(d) = Running
<1>1. CASE d.channel = "ready"
  BY <1>1 DEF Restarted, Started, Forced, Running
<1>2. CASE d.channel = "stuck"
  <2>1. Started(d) = d
    BY <1>2 DEF Started
  <2>2. Forced(d) = [d EXCEPT !.channel = "ready", !.left = 0]
    BY DEF Forced
  <2>3. Forced(d).channel = "ready"
    BY <2>2 DEF DmaType
  <2> QED
    BY <2>1, <2>3 DEF Restarted, Started
<1> QED
  BY <1>1, <1>2 DEF DmaType

LEMMA RunningTyped ==
    Running \in DmaType /\ Running.state = "running" /\ Running.left = RingSize
BY GnssRingAssumption DEF Running, DmaType

LEMMA FreshTyped ==
    ASSUME NEW d \in DrvType
    PROVE  /\ Fresh(d) \in DrvType /\ Fresh(d).powered = d.powered /\ ~ Fresh(d).error
           /\ Fresh(d).tail = 0 /\ Fresh(d).lastHead = 0 /\ Fresh(d).at = "outside"
<1>1. 0 \in Slots /\ FALSE \in BOOLEAN
  BY GnssRingAssumption DEF Slots
<1> QED
  BY <1>1 DEF Fresh, DrvType

LEMMA InitTyped ==
    ASSUME Init
    PROVE  Typed
<1>1. 0 \in Slots /\ TRUE \in BOOLEAN /\ FALSE \in BOOLEAN
  BY GnssRingAssumption DEF Slots
<1>2. drv \in DrvType
  BY <1>1 DEF Init, DrvType
<1>3. loss \in LossType
  BY <1>1 DEF Init, LossType
<1>4. used \in UsedType /\ sent \in 0..BytesMax
  BY GnssRingAssumption DEF Init, UsedType
<1>5. buf \in [Slots -> 0..sent] /\ out \in Seq(0..sent)
  BY DEF Init
<1> QED
  BY <1>2, <1>3, <1>4, <1>5, RunningTyped DEF Init, Typed

\* Bytes sent and bytes given stay in range when more are sent.
LEMMA MoreSent ==
    ASSUME Typed
    PROVE  buf \in [Slots -> 0..sent + 1] /\ out \in Seq(0..sent + 1)
<1>1. 0..sent \subseteq 0..sent + 1
  BY GnssRingAssumption DEF Typed
<1>2. \A i \in 1..Len(out) : out[i] \in 0..sent + 1
  BY <1>1, ElementOfSeq DEF Typed
<1>3. out \in Seq(0..sent + 1)
  BY <1>2, SeqDef, LenProperties DEF Typed
<1> QED
  BY <1>1, <1>3 DEF Typed

\* The writer's next position.
LEMMA WriterMoves ==
    ASSUME NEW left \in 0..RingSize,
           NEW m, m = (IF left = 0 THEN RingSize ELSE left) - 1
    PROVE  /\ m \in 0..RingSize
           /\ HeadAt(m) = Successor(HeadAt(left))
<1>1. RingSize \in Nat /\ RingSize >= 2
  BY GnssRingAssumption
<1>2. m \in 0..RingSize
  BY <1>1
<1>3. HeadAt(m) = (IF m = 0 THEN 0 ELSE RingSize - m)
  BY <1>2, HeadSlot
<1>4. HeadAt(left) = (IF left = 0 THEN 0 ELSE RingSize - left)
  BY HeadSlot
<1> QED
  BY <1>1, <1>2, <1>3, <1>4 DEF Successor

\* A byte that goes into the ring.
LEMMA ByteWritten ==
    ASSUME Typed, Byte, dma.state = "running"
    PROVE  /\ Typed' /\ sent' = sent + 1
           /\ buf' = [buf EXCEPT ![HeadAt(dma.left)] = sent + 1]
           /\ dma'.state = "running" /\ HeadAt(dma'.left) = Successor(HeadAt(dma.left))
           /\ loss' = IF HeadAt(dma'.left) = drv.tail
                      THEN [gap |-> "later", lapped |-> TRUE] ELSE loss
           /\ UNCHANGED <<drv, out, used>>
<1> DEFINE m == (IF dma.left = 0 THEN RingSize ELSE dma.left) - 1
<1>1. /\ sent' = sent + 1 /\ sent' \in 0..BytesMax
      /\ buf' = [buf EXCEPT ![HeadAt(dma.left)] = sent + 1]
      /\ dma' = [dma EXCEPT !.left = m]
      /\ loss' = IF HeadAt(m) = drv.tail
                 THEN [gap |-> "later", lapped |-> TRUE] ELSE loss
      /\ UNCHANGED <<drv, out, used>> /\ drv.powered
  BY GnssRingAssumption DEF Byte, Typed
<1>2. dma.left \in 0..RingSize
  BY DEF Typed, DmaType
<1>3. m \in 0..RingSize /\ HeadAt(m) = Successor(HeadAt(dma.left))
  BY <1>2, WriterMoves
<1> HIDE DEF m
<1>4. dma' \in DmaType /\ dma'.left = m /\ dma'.state = dma.state
  BY <1>1, <1>3 DEF Typed, DmaType
<1>5. buf' \in [Slots -> 0..sent']
  <2>1. sent + 1 \in 0..sent + 1
    BY DEF Typed
  <2> QED
    BY <1>1, <2>1, MoreSent
<1>6. loss' \in LossType
  <2>1. TRUE \in BOOLEAN
    OBVIOUS
  <2>2. [gap |-> "later", lapped |-> TRUE] \in LossType
    BY <2>1 DEF LossType
  <2> QED
    BY <1>1, <2>2 DEF Typed
<1>7. Typed'
  BY <1>1, <1>4, <1>5, <1>6, MoreSent DEF Typed
<1> QED
  BY <1>1, <1>3, <1>4, <1>7

\* A byte that is lost.
LEMMA ByteLost ==
    ASSUME Typed, Byte, dma.state # "running"
    PROVE  Typed' /\ sent' = sent + 1 /\ UNCHANGED <<dma, buf, drv, out, loss, used>>
<1>1. /\ sent' = sent + 1 /\ sent' \in 0..BytesMax
      /\ UNCHANGED <<dma, buf, drv, out, loss, used>>
  BY GnssRingAssumption DEF Byte, Typed
<1> QED
  BY <1>1, MoreSent DEF Typed

\* The reload shows the same position, an error keeps it.
LEMMA ReloadTyped ==
    ASSUME Typed, Reload \/ LineError
    PROVE  /\ Typed' /\ HeadAt(dma'.left) = HeadAt(dma.left)
           /\ dma.state = "running" /\ dma'.state \in {"running", "suspended"}
           /\ UNCHANGED <<buf, drv, sent, out, loss>>
<1>1. RingSize \in Nat
  BY GnssRingAssumption
<1>2. CASE Reload
  <2>1. /\ dma' = [dma EXCEPT !.left = RingSize] /\ dma.state = "running" /\ dma.left = 0
        /\ UNCHANGED <<buf, drv, sent, out, loss, used>>
    BY <1>2 DEF Reload
  <2>2. dma' \in DmaType /\ dma'.left = RingSize /\ dma'.state = "running"
    <3>1. dma \in DmaType /\ RingSize \in 0..RingSize
      BY <1>1 DEF Typed
    <3> QED
      BY <2>1, <3>1 DEF DmaType
  <2>3. HeadAt(RingSize) = HeadAt(0)
    BY <1>1, HeadSlot
  <2> QED
    BY <2>1, <2>2, <2>3 DEF Typed
<1>3. CASE LineError
  <2>1. /\ dma' = [dma EXCEPT !.state = "suspended"] /\ dma.state = "running"
        /\ used' = [used EXCEPT !.errors = @ + 1] /\ used.errors < ErrorsMax
        /\ UNCHANGED <<buf, drv, sent, out, loss>>
    BY <1>3 DEF LineError
  <2>2. dma' \in DmaType /\ dma'.left = dma.left /\ dma'.state = "suspended"
    <3>1. dma \in DmaType
      BY DEF Typed
    <3> QED
      BY <2>1, <3>1 DEF DmaType
  <2>3. used' \in UsedType
    BY <2>1, GnssRingAssumption DEF Typed, UsedType
  <2> QED
    BY <2>1, <2>2, <2>3 DEF Typed
<1> QED
  BY <1>2, <1>3

LEMMA ErrorTyped ==
    ASSUME Typed, ErrorCallback
    PROVE  /\ Typed' /\ dma.state = "suspended" /\ drv.powered /\ ~ drv.error
           /\ MidRead \/ drv.at # "counter"
           /\ dma'.state = "stopped"
           /\ drv'.error /\ drv'.powered /\ drv'.at = drv.at /\ drv'.tail = drv.tail
           /\ drv'.head = drv.head /\ drv'.lastHead = drv.lastHead
           /\ loss'.gap = IF loss.lapped THEN "any" ELSE loss.gap
           /\ loss'.lapped = loss.lapped
           /\ UNCHANGED <<buf, sent, out>>
<1>1. dma.state = "suspended" /\ drv.powered /\ ~ drv.error
  BY DEF ErrorCallback, Typed
<1>2. PICK channel \in {"ready", "stuck"}, left \in {0, dma.left} :
         dma' = [left |-> left, state |-> "stopped", channel |-> channel]
  BY DEF ErrorCallback
<1>3. left \in 0..RingSize
  BY GnssRingAssumption DEF Typed, DmaType
<1>4. dma' \in DmaType /\ dma'.state = "stopped"
  BY <1>2, <1>3 DEF DmaType
<1>5. TRUE \in BOOLEAN /\ drv' = [drv EXCEPT !.error = TRUE]
  BY DEF ErrorCallback
<1>6. /\ drv' \in DrvType /\ drv'.error /\ drv'.powered = drv.powered /\ drv'.at = drv.at
      /\ drv'.tail = drv.tail /\ drv'.head = drv.head /\ drv'.lastHead = drv.lastHead
  BY <1>5 DEF Typed, DrvType
<1>7. /\ loss' \in LossType /\ loss'.lapped = loss.lapped
      /\ loss'.gap = IF loss.lapped THEN "any" ELSE loss.gap
  BY DEF ErrorCallback, Typed, LossType
<1>8. UNCHANGED <<buf, sent, out, used>> /\ (MidRead \/ drv.at # "counter")
  BY DEF ErrorCallback
<1> QED
  BY <1>1, <1>4, <1>6, <1>7, <1>8 DEF Typed

LEMMA PopTyped ==
    ASSUME Typed, drv.powered, NEW head \in Slots, Pop(head), UNCHANGED <<buf, sent, used>>
    PROVE  /\ Typed' /\ buf[drv.tail] \in 0..sent
           /\ out' = Append(out, buf[drv.tail]) /\ UNCHANGED <<dma, buf, sent>>
           /\ drv'.tail = Successor(drv.tail) /\ drv'.at = "outside"
           /\ drv'.lastHead = drv.lastHead /\ drv'.error = drv.error /\ drv'.powered
           /\ loss'.gap = IF loss.gap = "any" THEN "any" ELSE "next"
           /\ loss'.lapped = loss.lapped
<1>1. drv.tail \in Slots /\ drv \in DrvType /\ buf[drv.tail] \in 0..sent
  BY DEF Typed, DrvType
<1>2. (drv.tail + 1) % RingSize = Successor(drv.tail) /\ Successor(drv.tail) \in Slots
  BY <1>1, NextSlot
<1>3. drv' = [drv EXCEPT !.tail = Successor(drv.tail), !.at = "outside", !.head = head]
  BY <1>2 DEF Pop
<1>4. /\ drv' \in DrvType /\ drv'.tail = Successor(drv.tail) /\ drv'.at = "outside"
      /\ drv'.lastHead = drv.lastHead /\ drv'.error = drv.error
      /\ drv'.powered = drv.powered
  BY <1>1, <1>2, <1>3 DEF DrvType
<1>5. out' \in Seq(0..sent) /\ out' = Append(out, buf[drv.tail])
  BY <1>1, AppendProperties DEF Pop, Typed
<1>6. /\ loss' \in LossType /\ loss'.lapped = loss.lapped
      /\ loss'.gap = IF loss.gap = "any" THEN "any" ELSE "next"
  BY DEF Pop, Typed, LossType
<1>7. UNCHANGED dma
  BY DEF Pop
<1> QED
  BY <1>1, <1>4, <1>5, <1>6, <1>7 DEF Typed

\* The channel starts anew.
LEMMA RestartTyped ==
    ASSUME Typed, drv.powered, drv.error, NEW head, head = drv.tail, Drain(head),
           UNCHANGED <<buf, sent, used>>
    PROVE  /\ Typed' /\ dma' = Running /\ loss' = [gap |-> "later", lapped |-> FALSE]
           /\ drv'.tail = 0 /\ drv'.lastHead = 0 /\ ~ drv'.error /\ drv'.at = "outside"
           /\ drv'.powered
           /\ UNCHANGED <<buf, sent, out>>
<1>1. /\ drv' = Fresh(drv) /\ dma' = Restarted(dma)
      /\ loss' = [gap |-> "later", lapped |-> FALSE] /\ UNCHANGED out
  BY DEF Drain
<1>2. dma' = Running
  BY <1>1, RestartedRuns DEF Typed
<1>3. /\ drv' \in DrvType /\ drv'.tail = 0 /\ drv'.lastHead = 0 /\ ~ drv'.error
      /\ drv'.at = "outside" /\ drv'.powered
  BY <1>1, FreshTyped DEF Typed
<1>4. FALSE \in BOOLEAN
  OBVIOUS
<1>5. loss' \in LossType
  BY <1>1, <1>4 DEF LossType
<1> QED
  BY <1>1, <1>2, <1>3, <1>5, RunningTyped DEF Typed

\* The places of purrgo_gnss_read_byte where nothing is given out.
LEMMA AtTyped ==
    ASSUME Typed, drv.powered, NEW a \in {"outside", "counter", "pop"},
           drv' = [drv EXCEPT !.at = a], UNCHANGED <<dma, buf, sent, out, loss, used>>
    PROVE  /\ Typed' /\ drv'.at = a /\ drv'.tail = drv.tail
           /\ drv'.lastHead = drv.lastHead /\ drv'.error = drv.error /\ drv'.powered
<1>1. /\ drv' \in DrvType /\ drv'.at = a /\ drv'.tail = drv.tail /\ drv'.powered
      /\ drv'.lastHead = drv.lastHead /\ drv'.error = drv.error
  BY DEF Typed, DrvType
<1> QED
  BY <1>1 DEF Typed

LEMMA ReadCounterTyped ==
    ASSUME Typed, ReadCounter
    PROVE  /\ Typed' /\ drv.at = "counter" /\ drv.powered
           /\ drv'.at = "pop" /\ drv'.head = HeadAt(dma.left)
           /\ drv'.lastHead = HeadAt(dma.left) /\ drv'.tail = drv.tail
           /\ drv'.error = drv.error /\ drv'.powered
           /\ loss'.gap = loss.gap /\ ~ loss'.lapped
           /\ UNCHANGED <<dma, buf, sent, out>>
<1>1. HeadAt(dma.left) \in Slots /\ FALSE \in BOOLEAN
  BY HeadSlot DEF Typed, DmaType
<1>2. /\ drv' = [drv EXCEPT !.at = "pop", !.head = HeadAt(dma.left),
                            !.lastHead = HeadAt(dma.left)]
      /\ loss' = [loss EXCEPT !.lapped = FALSE] /\ drv.at = "counter"
      /\ UNCHANGED <<dma, buf, sent, out, used>>
  BY DEF ReadCounter
<1>3. /\ drv' \in DrvType /\ drv'.at = "pop" /\ drv'.head = HeadAt(dma.left)
      /\ drv'.lastHead = HeadAt(dma.left) /\ drv'.tail = drv.tail
      /\ drv'.error = drv.error /\ drv'.powered = drv.powered
  BY <1>1, <1>2 DEF Typed, DrvType
<1>4. loss' \in LossType /\ loss'.gap = loss.gap /\ ~ loss'.lapped
  BY <1>1, <1>2 DEF Typed, LossType
<1> QED
  BY <1>2, <1>3, <1>4 DEF Typed

LEMMA PowerOffTyped ==
    ASSUME Typed, PowerOff
    PROVE  /\ Typed' /\ ~ drv'.powered /\ ~ drv'.error /\ drv'.at = "outside"
           /\ drv'.tail = drv.tail /\ drv'.lastHead = drv.lastHead
           /\ UNCHANGED <<buf, sent, out, loss>>
<1>1. FALSE \in BOOLEAN /\ 0 \in 0..RingSize
  BY GnssRingAssumption
<1>2. /\ drv' = [drv EXCEPT !.powered = FALSE, !.error = FALSE]
      /\ dma' = [dma EXCEPT !.state = "stopped", !.left = 0]
      /\ used' = [used EXCEPT !.switches = @ + 1] /\ used.switches < SwitchesMax
      /\ drv.at = "outside" /\ UNCHANGED <<buf, sent, out, loss>>
  BY DEF PowerOff
<1>3. /\ drv' \in DrvType /\ ~ drv'.powered /\ ~ drv'.error /\ drv'.at = drv.at
      /\ drv'.tail = drv.tail /\ drv'.lastHead = drv.lastHead
  BY <1>1, <1>2 DEF Typed, DrvType
<1>4. dma' \in DmaType /\ dma'.state = "stopped"
  BY <1>1, <1>2 DEF Typed, DmaType
<1>5. used' \in UsedType
  BY <1>2, GnssRingAssumption DEF Typed, UsedType
<1> QED
  BY <1>2, <1>3, <1>4, <1>5 DEF Typed

LEMMA PowerOnTyped ==
    ASSUME Typed, PowerOn
    PROVE  /\ Typed' /\ dma' = Running /\ loss' = [gap |-> "later", lapped |-> FALSE]
           /\ drv'.tail = 0 /\ drv'.lastHead = 0 /\ ~ drv'.error /\ drv'.at = "outside"
           /\ drv'.powered
           /\ UNCHANGED <<buf, sent, out>>
<1>1. /\ drv' = [Fresh(drv) EXCEPT !.powered = TRUE] /\ dma' = Running
      /\ loss' = [gap |-> "later", lapped |-> FALSE] /\ UNCHANGED <<buf, sent, out, used>>
  BY DEF PowerOn
<1> DEFINE f == Fresh(drv)
<1>2. /\ f \in DrvType /\ ~ f.error /\ f.tail = 0 /\ f.lastHead = 0 /\ f.at = "outside"
  BY FreshTyped DEF Typed
<1>3. drv' = [f EXCEPT !.powered = TRUE]
  BY <1>1
<1> HIDE DEF f
<1>4. TRUE \in BOOLEAN /\ FALSE \in BOOLEAN
  OBVIOUS
<1>5. /\ drv' \in DrvType /\ drv'.powered /\ ~ drv'.error /\ drv'.tail = 0
      /\ drv'.lastHead = 0 /\ drv'.at = "outside"
  BY <1>2, <1>3, <1>4 DEF DrvType
<1>6. loss' \in LossType
  BY <1>1, <1>4 DEF LossType
<1> QED
  BY <1>1, <1>5, <1>6, RunningTyped DEF Typed

\* A call of purrgo_gnss_read_byte: it gives a byte out, starts the channel anew, or
\* goes on.
LEMMA LoopSteps ==
    ASSUME Typed, ReadFlag \/ Take
    PROVE  /\ drv.powered /\ UNCHANGED <<buf, sent, used>>
           /\ \/ drv.error /\ drv.at = "outside" /\ Drain(drv.lastHead)
              \/ drv.error /\ drv.at = "pop" /\ Drain(drv.head)
              \/ /\ ~ drv.error /\ drv.at = "pop" /\ drv.head # drv.tail
                 /\ Pop(drv.head)
              \/ /\ ~ drv.error /\ UNCHANGED <<dma, out, loss>>
                 /\ \E a \in {"outside", "counter"} : drv' = [drv EXCEPT !.at = a]
BY DEF Typed, ReadFlag, Take

LEMMA StepTyped ==
    ASSUME Typed, [Next]_vars
    PROVE  Typed'
<1>1. CASE UNCHANGED vars
  BY <1>1 DEF vars, Typed
<1>2. CASE Byte
  BY <1>2, ByteWritten, ByteLost
<1>3. CASE ReadFlag \/ Take
  <2>1. drv.head \in Slots /\ drv.lastHead \in Slots
    BY DEF Typed, DrvType
  <2>2. ASSUME NEW h \in Slots, Drain(h), drv.error
        PROVE  Typed'
    BY <1>3, <2>2, LoopSteps, PopTyped, RestartTyped DEF Drain
  <2> QED
    BY <1>3, <2>1, <2>2, LoopSteps, PopTyped, AtTyped
<1> QED
  BY <1>1, <1>2, <1>3, ReloadTyped, ErrorTyped, ReadCounterTyped, PowerOffTyped, PowerOnTyped
     DEF Next, Loop

\* The types, and: the flag is only up over a stopped channel, and a receiver that is
\* switched off leaves neither the flag nor a call of purrgo_gnss_read_byte behind.
THEOREM GnssRingTypes == Spec => []TypeOK
<1>1. Typed => TypeOK
  BY TypedImpliesTypeOK
<1> QED
  BY <1>1, InitTyped, StepTyped, PTL DEF Spec

----------------------------------------------------------------------------
(* Distances round the ring.                                               *)

\* How far it is from slot a on to slot b.
Dist(a, b) == IF b >= a THEN b - a ELSE b - a + RingSize

\* How many slots ago the writer at w was at s.
Age(w, s) == IF s < w THEN w - s ELSE w - s + RingSize

LEMMA DistRange ==
    ASSUME NEW a \in Slots, NEW b \in Slots
    PROVE  /\ Dist(a, b) \in 0..RingSize - 1 /\ (Dist(a, b) = 0 <=> a = b)
           /\ Age(a, b) \in 1..RingSize
           /\ a # b => Age(b, a) = Dist(a, b)
           /\ a = b => Age(b, a) = RingSize
BY GnssRingAssumption DEF Slots, Dist, Age

\* The reader moves on.
LEMMA TailMoves ==
    ASSUME NEW t \in Slots, NEW s \in Slots
    PROVE  Dist(Successor(t), s) = IF s = t THEN RingSize - 1 ELSE Dist(t, s) - 1
BY GnssRingAssumption DEF Slots, Dist, Successor

\* The writer moves on.
LEMMA HeadMoves ==
    ASSUME NEW w \in Slots, NEW s \in Slots
    PROVE  /\ Age(Successor(w), s) = IF s = w THEN 1 ELSE Age(w, s) + 1
           /\ Successor(w) = s => Dist(s, w) = RingSize - 1 /\ Dist(s, Successor(w)) = 0
           /\ Successor(w) # s => Dist(s, Successor(w)) = Dist(s, w) + 1
BY GnssRingAssumption DEF Slots, Age, Dist, Successor

\* A slot between the reader and the writer is as old as it is far from the writer.
LEMMA AgeInWindow ==
    ASSUME NEW t \in Slots, NEW w \in Slots, NEW s \in Slots, Dist(t, s) < Dist(t, w)
    PROVE  Age(w, s) = Dist(t, w) - Dist(t, s)
BY GnssRingAssumption DEF Slots, Age, Dist

----------------------------------------------------------------------------
(* The invariant.                                                          *)

W == HeadAt(dma.left)

Given == Stream!Given
Last == Stream!LastGiven

\* The slots that the reader counts on, and how many the writer is ahead.
InWindow(s) == Dist(drv.tail, s) < Dist(drv.tail, drv.lastHead)
Unread == Dist(drv.tail, W)

\* What the reader counts on it has not had, even where it was overwritten.
Known == \A s \in Slots : InWindow(s) => buf[s] # 0 /\ buf[s] \notin Given

Distinct == \A s, t \in Slots : buf[s] # 0 /\ buf[s] = buf[t] => s = t

\* The channel has written c bytes or more since its start, the last of them n.
Live(n, c) ==
    /\ dma.state = "running" => n = sent
    /\ c <= n /\ Unread <= c
    /\ \A s \in Slots : Age(W, s) <= c => buf[s] = n - Age(W, s) + 1
    /\ \A g \in Given : g <= n - Unread
    /\ loss.gap # "any" /\ (loss.gap = "next" => Last = n - Unread)
    /\ loss.lapped => c = RingSize
    /\ ~ loss.lapped => Dist(drv.tail, drv.lastHead) <= Unread
    /\ loss.lapped /\ drv.at = "pop" /\ drv.tail = W => \A g \in Given : g <= n - RingSize

\* After an error: the bytes from v on are left to be given out.
Draining(v) ==
    /\ \A g \in Given : g < v
    /\ \A s \in Slots : InWindow(s) => buf[s] = v + Dist(drv.tail, s)
    /\ loss.gap = "next" => v = Last + 1

RingInv ==
    /\ \A g \in Given : g \in 1..sent
    /\ Known /\ Distinct
    /\ drv.at = "pop" => drv.head = drv.lastHead
    /\ drv.at = "counter" => ~ drv.error
    /\ drv.powered /\ ~ drv.error => \E n \in 0..sent, c \in 0..RingSize : Live(n, c)
    /\ drv.error /\ loss.gap # "any" => \E v \in 1..sent + 1 : Draining(v)

IInv == Typed /\ RingInv

LEMMA Ranges ==
    ASSUME Typed
    PROVE  /\ drv.tail \in Slots /\ drv.lastHead \in Slots /\ drv.head \in Slots
           /\ W \in Slots /\ sent \in Nat
           /\ \A s \in Slots : buf[s] \in 0..sent
           /\ RingSize \in Nat /\ RingSize >= 2
BY HeadSlot, GnssRingAssumption DEF Typed, DrvType, DmaType, W

\* What the history says of the bytes that were given out.
LEMMA GivenAfter ==
    ASSUME out \in Seq(Nat), NEW b \in Nat, out' = Append(out, b)
    PROVE  Given' = Given \cup {b} /\ Last' = b
<1>1. /\ Len(out') = Len(out) + 1 /\ out'[Len(out')] = b /\ out' # <<>>
      /\ \A i \in 1..Len(out) : out'[i] = out[i]
      /\ Len(out) \in Nat
  BY AppendProperties, LenProperties
<1>2. Given' = {out'[i] : i \in 1..Len(out')} /\ Given = {out[i] : i \in 1..Len(out)}
  BY DEF Given, Stream!Given
<1>3. 1..Len(out') = 1..Len(out) \cup {Len(out')}
  BY <1>1
<1>4. Last' = b
  BY <1>1 DEF Last, Stream!LastGiven
<1> HIDE DEF Given, Last
<1>5. Given' = Given \cup {b}
  BY <1>1, <1>2, <1>3
<1> QED
  BY <1>4, <1>5

LEMMA LastIsGiven ==
    ASSUME Typed
    PROVE  Last = 0 \/ Last \in Given
<1>1. out # <<>> => Len(out) \in 1..Len(out)
  BY EmptySeq, LenProperties DEF Typed
<1> QED
  BY <1>1 DEF Last, Given, Stream!LastGiven, Stream!Given

LEMMA OutIsNat ==
    ASSUME Typed
    PROVE  out \in Seq(Nat)
<1>1. \A i \in 1..Len(out) : out[i] \in Nat
  BY ElementOfSeq DEF Typed
<1> QED
  BY <1>1, SeqDef, LenProperties DEF Typed

\* A channel that has just been started.
LEMMA StartedLive ==
    ASSUME Typed, \A g \in Given : g \in 1..sent, dma = Running, ~ loss.lapped,
           drv.tail = 0, drv.lastHead = 0, drv.at = "outside",
           loss.gap # "any", loss.gap = "next" => Last = sent
    PROVE  /\ \E n \in 0..sent, c \in 0..RingSize : Live(n, c)
           /\ Known
<1>1. W = 0 /\ dma.state = "running"
  BY HeadSlot, RunningTyped, GnssRingAssumption DEF W
<1>2. Unread = 0 /\ Dist(drv.tail, drv.lastHead) = 0 /\ 0 \in Slots
  BY <1>1, GnssRingAssumption DEF Unread, Dist, Slots
<1>3. \A s \in Slots : Age(W, s) \in 1..RingSize /\ Dist(drv.tail, s) \in 0..RingSize - 1
  BY <1>1, <1>2, DistRange
<1>4. sent \in 0..sent /\ 0 \in 0..RingSize /\ RingSize \in Nat /\ sent \in Nat
  BY Ranges
<1>5. \A s \in Slots : ~ Age(W, s) <= 0 /\ ~ Dist(drv.tail, s) < 0
  BY <1>3, <1>4
<1>6. Known
  BY <1>2, <1>5 DEF Known, InWindow
<1>7. Live(sent, 0)
  <2>1. \A g \in Given : g <= sent - Unread
    BY <1>2, <1>4
  <2>2. sent - Unread = sent
    BY <1>2, <1>4
  <2> QED
    BY <1>1, <1>2, <1>4, <1>5, <2>1, <2>2 DEF Live
<1> QED
  BY <1>4, <1>6, <1>7

LEMMA InitInv ==
    ASSUME Init
    PROVE  IInv
<1>1. Typed /\ out = <<>> /\ sent = 0 /\ dma = Running /\ buf = [i \in Slots |-> 0]
  BY InitTyped DEF Init
<1>2. Given = {} /\ Last = 0
  BY <1>1 DEF Given, Last, Stream!Given, Stream!LastGiven
<1>3. /\ drv.tail = 0 /\ drv.lastHead = 0 /\ drv.at = "outside" /\ ~ drv.error
      /\ loss.gap = "next" /\ ~ loss.lapped
  BY DEF Init
<1>4. Known /\ \E n \in 0..sent, c \in 0..RingSize : Live(n, c)
  BY <1>1, <1>2, <1>3, StartedLive
<1>5. Distinct
  BY <1>1 DEF Distinct
<1> QED
  BY <1>1, <1>2, <1>3, <1>4, <1>5 DEF IInv, RingInv

----------------------------------------------------------------------------
(* The steps.                                                              *)

LEMMA ByteWrittenKeepsInv ==
    ASSUME IInv, Byte, dma.state = "running"
    PROVE  RingInv'
<1> DEFINE w == W
<1>1. /\ sent' = sent + 1 /\ UNCHANGED <<drv, out>>
      /\ buf' = [buf EXCEPT ![w] = sent + 1] /\ dma'.state = "running"
      /\ W' = Successor(w)
      /\ loss' = IF W' = drv.tail THEN [gap |-> "later", lapped |-> TRUE] ELSE loss
  BY ByteWritten DEF IInv, W
<1>2. /\ drv.tail \in Slots /\ drv.lastHead \in Slots /\ w \in Slots /\ Successor(w) \in Slots
      /\ sent \in Nat /\ RingSize \in Nat /\ RingSize >= 2
      /\ \A s \in Slots : buf[s] \in 0..sent
      /\ buf \in [Slots -> 0..sent]
  BY Ranges, NextSlot DEF IInv, Typed
<1>3. Given' = Given /\ Last' = Last
  BY <1>1 DEF Given, Last, Stream!Given, Stream!LastGiven
<1>4. drv.powered /\ ~ drv.error
  BY DEF IInv, Typed
<1>5. PICK n \in 0..sent, c \in 0..RingSize : Live(n, c)
  BY <1>4 DEF IInv, RingInv
<1>6. n = sent
  BY <1>5 DEF Live
<1>7. buf'[w] = sent + 1 /\ \A s \in Slots : s # w => buf'[s] = buf[s]
  BY <1>1, <1>2
<1>8. \A g \in Given : g \in 1..sent
  BY DEF IInv, RingInv
<1>9. PICK m \in 0..RingSize : m = IF c = RingSize THEN c ELSE c + 1
  BY <1>2
<1>10. Live(sent, m)'
  <2> DEFINE d == Dist(drv.tail, w)
             e == Dist(drv.tail, Successor(w))
  <2>1. Unread = d /\ Unread' = e
    BY <1>1 DEF Unread
  <2>2. /\ d \in 0..RingSize - 1 /\ e \in 0..RingSize - 1
        /\ Successor(w) = drv.tail => d = RingSize - 1 /\ e = 0
        /\ Successor(w) # drv.tail => e = d + 1
    BY <1>2, DistRange, HeadMoves
  <2> HIDE DEF d, e
  <2>3. d <= c /\ c <= sent
    BY <1>5, <1>6, <2>1 DEF Live
  <2>4. m <= sent + 1 /\ e <= m
    BY <1>2, <1>9, <2>2, <2>3
  <2>5. \A s \in Slots : Age(Successor(w), s) <= m =>
           buf'[s] = sent + 1 - Age(Successor(w), s) + 1
    <3> TAKE s \in Slots
    <3> HAVE Age(Successor(w), s) <= m
    <3>1. CASE s = w
      <4>1. Age(Successor(w), s) = 1
        BY <1>2, <3>1, HeadMoves
      <4> QED
        BY <1>2, <1>7, <3>1, <4>1
    <3>2. CASE s # w
      <4>1. Age(Successor(w), s) = Age(w, s) + 1 /\ Age(w, s) \in 1..RingSize
        BY <1>2, <3>2, HeadMoves, DistRange
      <4>2. Age(w, s) <= c
        BY <1>2, <1>9, <4>1
      <4>3. buf[s] = sent - Age(w, s) + 1
        BY <1>5, <1>6, <4>2 DEF Live
      <4> QED
        BY <1>2, <1>7, <3>2, <4>1, <4>3
    <3> QED
      BY <3>1, <3>2
  <2>6. /\ \A g \in Given : g <= sent - d
        /\ loss.gap # "any" /\ (loss.gap = "next" => Last = sent - d)
        /\ loss.lapped => c = RingSize
        /\ ~ loss.lapped => Dist(drv.tail, drv.lastHead) <= d
        /\ loss.lapped /\ drv.at = "pop" /\ drv.tail = w
              => \A g \in Given : g <= sent - RingSize
    BY <1>5, <1>6, <2>1 DEF Live
  <2>7. /\ m <= sent' /\ Unread' <= m
        /\ \A s \in Slots : Age(W', s) <= m => buf'[s] = sent' - Age(W', s) + 1
    <3>1. \A s \in Slots : Age(Successor(w), s) \in Int
      BY <1>2, DistRange
    <3>2. sent' = sent + 1 /\ W' = Successor(w) /\ Unread' = e
      BY <1>1, <2>1
    <3>3. \A s \in Slots : Age(Successor(w), s) <= m
                              => buf'[s] = sent' - Age(Successor(w), s) + 1
      BY <1>2, <2>5, <3>1, <3>2
    <3> QED
      BY <2>4, <3>2, <3>3
  <2>8. CASE Successor(w) = drv.tail
    <3>1. loss'.gap = "later" /\ loss'.lapped
      BY <1>1, <2>8
    <3>2. m = RingSize
      BY <1>2, <1>9, <2>2, <2>3, <2>8
    <3>3. \A g \in Given : g <= sent + 1 - e /\ g <= sent + 1 - RingSize
      BY <1>2, <1>8, <2>2, <2>6, <2>8
    <3>4. \A g \in Given' : g <= sent' - Unread' /\ g <= sent' - RingSize
      BY <1>1, <1>2, <1>3, <2>1, <2>2, <3>3
    <3> QED
      BY <2>7, <3>1, <3>2, <3>4 DEF Live
  <2>9. CASE Successor(w) # drv.tail
    <3>1. loss' = loss
      BY <1>1, <2>9
    <3>2. \A g \in Given : g <= sent + 1 - e
      BY <1>2, <1>8, <2>2, <2>6, <2>9
    <3>3. \A g \in Given' : g <= sent' - Unread'
      BY <1>1, <1>2, <1>3, <2>1, <2>2, <3>2
    <3>4. sent - d = sent' - Unread'
      BY <1>1, <1>2, <2>1, <2>2, <2>9
    <3>5. loss'.gap # "any" /\ (loss'.gap = "next" => Last' = sent' - Unread')
      BY <1>3, <2>6, <3>1, <3>4
    <3>6. loss'.lapped => m = RingSize
      BY <1>9, <2>6, <3>1
    <3>7. ~ loss'.lapped => Dist(drv.tail, drv.lastHead)' <= Unread'
      <4>1. Dist(drv.tail, drv.lastHead) \in Int
        BY <1>2, DistRange
      <4>2. Dist(drv.tail, drv.lastHead)' = Dist(drv.tail, drv.lastHead)
        BY <1>1
      <4> QED
        BY <1>2, <2>1, <2>2, <2>6, <2>9, <3>1, <4>1, <4>2
    <3>8. drv'.tail # W'
      BY <1>1, <2>9
    <3> QED
      BY <2>7, <3>3, <3>5, <3>6, <3>7, <3>8 DEF Live
  <2> QED
    BY <2>8, <2>9
<1>11. Known'
  <2>1. \A s \in Slots : InWindow(s)' <=> InWindow(s)
    BY <1>1 DEF InWindow
  <2>2. Known
    BY DEF IInv, RingInv
  <2>3. sent + 1 \notin Given /\ sent + 1 # 0
    BY <1>2, <1>8
  <2> QED
    BY <1>3, <1>7, <2>1, <2>2, <2>3 DEF Known
<1>12. Distinct'
  <2>1. Distinct
    BY DEF IInv, RingInv
  <2>2. \A s \in Slots : buf[s] # sent + 1
    BY <1>2
  <2> QED
    BY <1>7, <2>1, <2>2 DEF Distinct
<1>13. \A g \in Given' : g \in 1..sent'
  BY <1>1, <1>2, <1>3, <1>8
<1>14. \E k \in 0..sent', j \in 0..RingSize : Live(k, j)'
  <2>1. sent' \in 0..sent'
    BY <1>1, <1>2
  <2> QED
    BY <1>9, <1>10, <2>1
<1> QED
  BY <1>1, <1>4, <1>11, <1>12, <1>13, <1>14 DEF IInv, RingInv

\* A step that leaves the ring and its reader as they are.
LEMMA RingUntouched ==
    ASSUME IInv, UNCHANGED <<buf, drv, out, loss>>, W' = W, sent' >= sent, sent' \in Nat,
           dma'.state = dma.state \/ (dma.state = "running" /\ dma'.state = "suspended"),
           dma'.state = "running" => sent' = sent
    PROVE  RingInv'
<1>1. Given' = Given /\ Last' = Last
  BY DEF Given, Last, Stream!Given, Stream!LastGiven
<1>2. sent \in Nat
  BY Ranges DEF IInv
<1>3. Unread' = Unread /\ \A s \in Slots : InWindow(s)' <=> InWindow(s)
  BY DEF Unread, InWindow
<1>4. \A n, c : Live(n, c) => Live(n, c)'
  BY <1>1, <1>3 DEF Live
<1>5. \A v : Draining(v) => Draining(v)'
  BY <1>1, <1>3 DEF Draining
<1>6. Known' /\ Distinct'
  BY <1>1, <1>3 DEF IInv, RingInv, Known, Distinct
<1>7. \A x : /\ x \in 0..sent => x \in 0..sent'
             /\ x \in 1..sent + 1 => x \in 1..sent' + 1
             /\ x \in 1..sent => x \in 1..sent'
  BY <1>2
<1>8. drv.powered /\ ~ drv.error => \E n \in 0..sent', c \in 0..RingSize : Live(n, c)'
  BY <1>4, <1>7 DEF IInv, RingInv
<1>9. drv.error /\ loss.gap # "any" => \E v \in 1..sent' + 1 : Draining(v)'
  BY <1>5, <1>7 DEF IInv, RingInv
<1>10. \A g \in Given' : g \in 1..sent'
  BY <1>1, <1>7 DEF IInv, RingInv
<1> QED
  BY <1>6, <1>8, <1>9, <1>10 DEF IInv, RingInv

LEMMA ErrorKeepsInv ==
    ASSUME IInv, ~ MidRead, ErrorCallback
    PROVE  RingInv'
<1>1. /\ dma.state = "suspended" /\ drv.powered /\ ~ drv.error /\ drv.at # "counter"
      /\ drv'.error /\ drv'.at = drv.at /\ drv'.tail = drv.tail
      /\ drv'.head = drv.head /\ drv'.lastHead = drv.lastHead
      /\ loss'.gap = IF loss.lapped THEN "any" ELSE loss.gap
      /\ UNCHANGED <<buf, sent, out>>
  BY ErrorTyped DEF IInv
<1>2. Given' = Given /\ Last' = Last
  BY <1>1 DEF Given, Last, Stream!Given, Stream!LastGiven
<1>3. \A s \in Slots : InWindow(s)' <=> InWindow(s)
  BY <1>1 DEF InWindow
<1>4. Known' /\ Distinct'
  BY <1>1, <1>2, <1>3 DEF IInv, RingInv, Known, Distinct
<1>5. ASSUME ~ loss.lapped
      PROVE  \E v \in 1..sent + 1 : Draining(v)'
  <2>1. PICK n \in 0..sent, c \in 0..RingSize : Live(n, c)
    BY <1>1 DEF IInv, RingInv
  <2>2. /\ drv.tail \in Slots /\ drv.lastHead \in Slots /\ W \in Slots
        /\ sent \in Nat /\ RingSize \in Nat
    BY Ranges DEF IInv
  <2>3. Unread \in 0..RingSize - 1 /\ Dist(drv.tail, drv.lastHead) \in 0..RingSize - 1
    BY <2>2, DistRange DEF Unread
  <2>4. /\ c <= n /\ Unread <= c
        /\ \A s \in Slots : Age(W, s) <= c => buf[s] = n - Age(W, s) + 1
        /\ \A g \in Given : g <= n - Unread
        /\ loss.gap = "next" => Last = n - Unread
        /\ Dist(drv.tail, drv.lastHead) <= Unread
    BY <1>5, <2>1 DEF Live
  <2>5. PICK v \in 1..sent + 1 : v = n - Unread + 1
    BY <2>2, <2>3, <2>4
  <2>6. \A g \in Given : g < v
    BY <2>2, <2>3, <2>4, <2>5 DEF IInv, RingInv
  <2>7. \A s \in Slots : InWindow(s) => buf[s] = v + Dist(drv.tail, s)
    <3> SUFFICES ASSUME NEW s \in Slots, InWindow(s)
                 PROVE  buf[s] = v + Dist(drv.tail, s)
      OBVIOUS
    <3>1. Dist(drv.tail, s) \in 0..RingSize - 1
      BY <2>2, DistRange
    <3>2. Dist(drv.tail, s) < Unread
      BY <2>3, <2>4, <3>1 DEF InWindow
    <3>3. Age(W, s) = Unread - Dist(drv.tail, s)
      BY <2>2, <3>2, AgeInWindow DEF Unread
    <3>4. Age(W, s) <= c
      BY <2>3, <2>4, <3>1, <3>3
    <3> QED
      BY <2>2, <2>3, <2>4, <2>5, <3>1, <3>3, <3>4
  <2>8. loss.gap = "next" => v = Last + 1
    BY <2>4, <2>5
  <2>9. Draining(v)'
    BY <1>1, <1>2, <1>3, <1>5, <2>6, <2>7, <2>8 DEF Draining
  <2> QED
    BY <2>5, <2>9
<1>6. drv'.error /\ loss'.gap # "any" => \E v \in 1..sent' + 1 : Draining(v)'
  BY <1>1, <1>5
<1> QED
  BY <1>1, <1>2, <1>4, <1>6 DEF IInv, RingInv

\* purrgo_gnss_ring_pop gives out a byte that came from the receiver and was not given
\* before, and what it still counts on stays so.
LEMMA PopIsNew ==
    ASSUME IInv, drv.tail # drv.lastHead, NEW head \in Slots, Pop(head),
           drv.powered, UNCHANGED <<buf, sent, used>>
    PROVE  /\ buf[drv.tail] \in 1..sent /\ buf[drv.tail] \notin Given
           /\ Given' = Given \cup {buf[drv.tail]} /\ Last' = buf[drv.tail]
           /\ \A g \in Given' : g \in 1..sent
           /\ Known' /\ Distinct'
           /\ \A s \in Slots : InWindow(s)' =>
                 /\ InWindow(s) /\ s # drv.tail
                 /\ Dist(drv.tail, s)' = Dist(drv.tail, s) - 1
<1> DEFINE b == buf[drv.tail]
<1>1. /\ drv'.tail = Successor(drv.tail) /\ drv'.lastHead = drv.lastHead
      /\ out' = Append(out, b) /\ UNCHANGED <<buf, sent>>
  BY PopTyped DEF IInv
<1>2. /\ drv.tail \in Slots /\ drv.lastHead \in Slots /\ b \in 0..sent /\ sent \in Nat
      /\ RingSize \in Nat
  BY Ranges DEF IInv
<1>3. /\ Dist(drv.tail, drv.tail) = 0 /\ Dist(drv.tail, drv.lastHead) # 0
      /\ Dist(drv.tail, drv.lastHead) \in 0..RingSize - 1
  BY <1>2, DistRange
<1>4. InWindow(drv.tail)
  BY <1>2, <1>3 DEF InWindow
<1>5. b # 0 /\ b \notin Given
  BY <1>2, <1>4 DEF IInv, RingInv, Known
<1>6. Given' = Given \cup {b} /\ Last' = b
  BY <1>1, <1>2, OutIsNat, GivenAfter DEF IInv
<1>7. \A s \in Slots : InWindow(s)' => /\ InWindow(s) /\ s # drv.tail
                                       /\ Dist(drv.tail, s)' = Dist(drv.tail, s) - 1
  <2> SUFFICES ASSUME NEW s \in Slots, InWindow(s)'
               PROVE  InWindow(s) /\ s # drv.tail
                      /\ Dist(drv.tail, s)' = Dist(drv.tail, s) - 1
    OBVIOUS
  <2>1. Dist(drv.tail, s)' = Dist(Successor(drv.tail), s)
    BY <1>1 DEF Dist
  <2>2. Dist(drv.tail, drv.lastHead)' = Dist(drv.tail, drv.lastHead) - 1
    <3>1. Dist(drv.tail, drv.lastHead)' = Dist(Successor(drv.tail), drv.lastHead)
      BY <1>1 DEF Dist
    <3> QED
      BY <1>2, <3>1, TailMoves
  <2>3. Dist(drv.tail, s)' < Dist(drv.tail, drv.lastHead)'
    BY DEF InWindow
  <2>4. Dist(drv.tail, s) \in 0..RingSize - 1
    BY <1>2, DistRange
  <2>5. s # drv.tail
    <3>1. s = drv.tail => Dist(drv.tail, s)' = RingSize - 1
      BY <1>2, <2>1, TailMoves
    <3> QED
      BY <1>2, <1>3, <2>2, <2>3, <3>1
  <2>6. Dist(drv.tail, s)' = Dist(drv.tail, s) - 1
    BY <1>2, <2>1, <2>5, TailMoves
  <2> QED
    BY <1>2, <1>3, <2>2, <2>3, <2>4, <2>5, <2>6 DEF InWindow
<1>8. Distinct
  BY DEF IInv, RingInv
<1>9. Known'
  <2> SUFFICES ASSUME NEW s \in Slots, InWindow(s)'
               PROVE  buf[s] # 0 /\ buf[s] \notin Given'
    BY <1>1 DEF Known
  <2>1. InWindow(s) /\ s # drv.tail
    BY <1>7
  <2>2. buf[s] # 0 /\ buf[s] \notin Given
    BY <2>1 DEF IInv, RingInv, Known
  <2>3. buf[s] # b
    BY <1>2, <1>8, <2>1, <2>2 DEF Distinct
  <2> QED
    BY <1>6, <2>2, <2>3
<1>10. Distinct'
  BY <1>1, <1>8 DEF Distinct
<1>11. b \in 1..sent
  BY <1>2, <1>5
<1> QED
  BY <1>5, <1>6, <1>7, <1>9, <1>10, <1>11 DEF IInv, RingInv

GiveStep == Stream!Give

LEMMA GiveIs ==
    ASSUME NEW b \in 1..sent, b \notin Given, loss.gap = "next" => b = Last + 1,
           loss.gap = "later" => b > Last, out' = Append(out, b),
           loss'.gap = IF loss.gap = "any" THEN "any" ELSE "next", UNCHANGED sent
    PROVE  GiveStep
BY DEF GiveStep, Stream!Give, Given, Last

\* While the channel is good, the reader takes the oldest byte that is there.
LEMMA LivePop ==
    ASSUME IInv, drv.at = "pop", ~ drv.error, drv.head # drv.tail, Pop(drv.head),
           UNCHANGED <<buf, sent, used>>
    PROVE  RingInv' /\ GiveStep
<1> DEFINE b == buf[drv.tail]
           e == Dist(Successor(drv.tail), W)
<1>1. drv.powered /\ drv.head = drv.lastHead /\ drv.head \in Slots
  BY Ranges DEF IInv, Typed, RingInv
<1>2. /\ drv'.tail = Successor(drv.tail) /\ drv'.lastHead = drv.lastHead
      /\ drv'.at = "outside" /\ ~ drv'.error /\ drv'.powered
      /\ out' = Append(out, b) /\ UNCHANGED <<dma, buf, sent>>
      /\ loss'.gap = IF loss.gap = "any" THEN "any" ELSE "next"
      /\ loss'.lapped = loss.lapped
  BY <1>1, PopTyped DEF IInv
<1>3. /\ b \in 1..sent /\ b \notin Given /\ Given' = Given \cup {b} /\ Last' = b
      /\ \A g \in Given' : g \in 1..sent
      /\ Known' /\ Distinct'
  BY <1>1, PopIsNew
<1>4. /\ drv.tail \in Slots /\ drv.lastHead \in Slots /\ W \in Slots
      /\ Successor(drv.tail) \in Slots
      /\ sent \in Nat /\ RingSize \in Nat /\ RingSize >= 2
  BY Ranges, NextSlot DEF IInv
<1>5. PICK n \in 0..sent, c \in 0..RingSize : Live(n, c)
  BY <1>1 DEF IInv, RingInv
<1>6. /\ dma.state = "running" => n = sent
      /\ c <= n /\ Unread <= c
      /\ \A s \in Slots : Age(W, s) <= c => buf[s] = n - Age(W, s) + 1
      /\ \A g \in Given : g <= n - Unread
      /\ loss.gap # "any" /\ (loss.gap = "next" => Last = n - Unread)
      /\ loss.lapped => c = RingSize
      /\ ~ loss.lapped => Dist(drv.tail, drv.lastHead) <= Unread
      /\ loss.lapped /\ drv.tail = W => \A g \in Given : g <= n - RingSize
  BY <1>5 DEF Live
<1>7. /\ Unread \in 0..RingSize - 1 /\ (Unread = 0 <=> drv.tail = W)
      /\ Age(W, drv.tail) = IF drv.tail = W THEN RingSize ELSE Unread
      /\ Dist(drv.tail, drv.lastHead) \in 1..RingSize - 1
      /\ e = IF drv.tail = W THEN RingSize - 1 ELSE Unread - 1
      /\ Unread' = e /\ W' = W
      /\ Dist(drv.tail, drv.lastHead)' = Dist(drv.tail, drv.lastHead) - 1
  <2>1. /\ Unread \in 0..RingSize - 1 /\ (Unread = 0 <=> drv.tail = W)
        /\ Age(W, drv.tail) = IF drv.tail = W THEN RingSize ELSE Unread
    BY <1>4, DistRange DEF Unread
  <2>2. Dist(drv.tail, drv.lastHead) \in 1..RingSize - 1
    <3>1. /\ Dist(drv.tail, drv.lastHead) \in 0..RingSize - 1
          /\ Dist(drv.tail, drv.lastHead) # 0
      BY <1>1, <1>4, DistRange
    <3> QED
      BY <1>4, <3>1
  <2>3. e = IF drv.tail = W THEN RingSize - 1 ELSE Unread - 1
    BY <1>4, TailMoves DEF Unread
  <2>4. W' = W
    BY <1>2 DEF W
  <2>5. Unread' = e
    BY <1>2, <2>4 DEF Unread, Dist
  <2>6. Dist(drv.tail, drv.lastHead)' = Dist(Successor(drv.tail), drv.lastHead)
    BY <1>2 DEF Dist
  <2>7. Dist(Successor(drv.tail), drv.lastHead) = Dist(drv.tail, drv.lastHead) - 1
    BY <1>1, <1>4, TailMoves
  <2> QED
    BY <2>1, <2>2, <2>3, <2>4, <2>5, <2>6, <2>7
<1> HIDE DEF b, e
<1>8. drv.tail = W => loss.lapped
  BY <1>4, <1>6, <1>7
<1>9. /\ b = n - e /\ e <= c /\ e \in 0..RingSize - 1
      /\ \A g \in Given : g < b
  <2>1. \A g \in Given : g \in Int
    BY DEF IInv, RingInv
  <2>2. Age(W, drv.tail) <= c
    BY <1>4, <1>6, <1>7, <1>8
  <2>3. b = n - Age(W, drv.tail) + 1
    BY <1>4, <1>6, <2>2 DEF b
  <2>4. CASE drv.tail = W
    BY <1>4, <1>6, <1>7, <1>8, <2>1, <2>3, <2>4
  <2>5. CASE drv.tail # W
    BY <1>4, <1>6, <1>7, <2>1, <2>3, <2>5
  <2> QED
    BY <2>4, <2>5
<1>10. loss.gap = "next" => b = Last + 1
  <2>1. CASE drv.tail # W
    BY <1>4, <1>6, <1>7, <1>9, <2>1
  <2>2. CASE drv.tail = W /\ loss.gap = "next"
    <3>1. Last = n /\ c = RingSize /\ Unread = 0
      BY <1>4, <1>6, <1>7, <1>8, <2>2
    <3>2. Last # 0
      BY <1>4, <1>6, <3>1
    <3>3. Last \in Given
      BY <3>2, LastIsGiven DEF IInv
    <3> QED
      BY <1>4, <1>6, <1>8, <2>2, <3>1, <3>3
  <2> QED
    BY <2>1, <2>2
<1>11. b > Last
  <2>1. CASE Last \in Given
    BY <1>4, <1>9, <2>1 DEF IInv, RingInv
  <2>2. CASE Last = 0
    BY <1>3, <1>4, <2>2
  <2> QED
    BY <2>1, <2>2, LastIsGiven DEF IInv
<1>12. Live(n, c)'
  <2>1. \A g \in Given' : g <= n - Unread'
    BY <1>3, <1>4, <1>7, <1>9 DEF IInv, RingInv
  <2>2. ~ loss.lapped => Dist(drv.tail, drv.lastHead)' <= Unread'
    BY <1>4, <1>6, <1>7, <1>8
  <2>3. Unread' <= c /\ Last' = n - Unread'
    BY <1>3, <1>7, <1>9
  <2>4. \A s \in Slots : Age(W', s) <= c => buf'[s] = n - Age(W', s) + 1
    BY <1>2, <1>6, <1>7
  <2> QED
    BY <1>2, <1>6, <2>1, <2>2, <2>3, <2>4 DEF Live
<1>13. RingInv'
  BY <1>2, <1>3, <1>5, <1>12 DEF RingInv
<1>14. GiveStep
  BY <1>2, <1>3, <1>10, <1>11, GiveIs DEF b
<1> QED
  BY <1>13, <1>14

\* After an error, the reader takes what it still counts on.
LEMMA DrainPop ==
    ASSUME IInv, drv.powered, drv.error, drv.lastHead # drv.tail, Pop(drv.lastHead),
           UNCHANGED <<buf, sent, used>>
    PROVE  RingInv' /\ GiveStep
<1> DEFINE b == buf[drv.tail]
<1>1. drv.lastHead \in Slots /\ drv.tail \in Slots /\ sent \in Nat /\ RingSize \in Nat
  BY Ranges DEF IInv
<1>2. /\ drv'.lastHead = drv.lastHead /\ drv'.at = "outside" /\ drv'.error
      /\ out' = Append(out, b) /\ UNCHANGED <<dma, buf, sent>>
      /\ loss'.gap = IF loss.gap = "any" THEN "any" ELSE "next"
  BY <1>1, PopTyped DEF IInv
<1>3. /\ b \in 1..sent /\ b \notin Given /\ Given' = Given \cup {b} /\ Last' = b
      /\ \A g \in Given' : g \in 1..sent
      /\ Known' /\ Distinct'
      /\ \A s \in Slots : InWindow(s)' => /\ InWindow(s) /\ s # drv.tail
                                          /\ Dist(drv.tail, s)' = Dist(drv.tail, s) - 1
  BY <1>1, PopIsNew
<1>4. CASE loss.gap = "any"
  <2>1. GiveStep
    BY <1>2, <1>3, <1>4, GiveIs
  <2> QED
    BY <1>2, <1>3, <1>4, <2>1 DEF RingInv
<1>5. CASE loss.gap # "any"
  <2>1. PICK v \in 1..sent + 1 : Draining(v)
    BY <1>5 DEF IInv, RingInv
  <2>2. InWindow(drv.tail) /\ Dist(drv.tail, drv.tail) = 0
    <3>1. /\ Dist(drv.tail, drv.tail) = 0 /\ Dist(drv.tail, drv.lastHead) # 0
          /\ Dist(drv.tail, drv.lastHead) \in 0..RingSize - 1
      BY <1>1, DistRange
    <3> QED
      BY <1>1, <3>1 DEF InWindow
  <2>3. b = v
    <3>1. b = v + 0
      BY <1>1, <2>1, <2>2 DEF Draining
    <3> QED
      BY <3>1
  <2>4. b > Last
    <3>1. CASE Last \in Given
      BY <1>1, <2>1, <2>3, <3>1 DEF IInv, RingInv, Draining
    <3>2. CASE Last = 0
      BY <1>1, <1>3, <3>2
    <3> QED
      BY <3>1, <3>2, LastIsGiven DEF IInv
  <2>5. GiveStep
    BY <1>2, <1>3, <2>1, <2>3, <2>4, GiveIs DEF Draining
  <2>6. PICK u \in 1..sent + 1 : u = b + 1
    BY <1>1, <1>3
  <2>7. \A g \in Given' : g < u
    BY <1>1, <1>3, <2>1, <2>3, <2>6 DEF IInv, RingInv, Draining
  <2>8. \A s \in Slots : InWindow(s)' => buf'[s] = u + Dist(drv.tail, s)'
    <3> SUFFICES ASSUME NEW s \in Slots, InWindow(s)'
                 PROVE  buf'[s] = u + Dist(drv.tail, s)'
      OBVIOUS
    <3>1. InWindow(s) /\ Dist(drv.tail, s)' = Dist(drv.tail, s) - 1
      BY <1>3
    <3>2. buf[s] = v + Dist(drv.tail, s)
      BY <2>1, <3>1 DEF Draining
    <3>3. Dist(drv.tail, s) \in 0..RingSize - 1
      BY <1>1, DistRange
    <3> HIDE DEF b
    <3> QED
      BY <1>1, <1>2, <2>3, <2>6, <3>1, <3>2, <3>3
  <2>9. Draining(u)'
    BY <1>3, <2>6, <2>7, <2>8 DEF Draining
  <2> QED
    BY <1>2, <1>3, <2>5, <2>6, <2>9 DEF RingInv
<1> QED
  BY <1>4, <1>5

\* The channel starts anew, after an error or with the receiver.
LEMMA StartKeepsInv ==
    ASSUME IInv, Typed', dma' = Running, loss' = [gap |-> "later", lapped |-> FALSE],
           drv'.tail = 0, drv'.lastHead = 0, ~ drv'.error, drv'.at = "outside",
           UNCHANGED <<buf, sent, out>>
    PROVE  RingInv'
<1>1. Given' = Given
  BY DEF Given, Stream!Given
<1>2. (\A g \in Given : g \in 1..sent)'
  BY <1>1 DEF IInv, RingInv
<1>3. ~ loss'.lapped /\ loss'.gap = "later"
  OBVIOUS
<1>4. W' = 0 /\ dma'.state = "running"
  BY HeadSlot, RunningTyped, GnssRingAssumption DEF W
<1>5. Unread' = 0 /\ Dist(drv.tail, drv.lastHead)' = 0 /\ 0 \in Slots
  BY <1>4, GnssRingAssumption DEF Unread, Dist, Slots
<1>6. \A s \in Slots : Age(0, s) \in 1..RingSize /\ Dist(0, s) \in 0..RingSize - 1
  BY <1>5, DistRange
<1>7. /\ sent \in Nat /\ 0 \in 0..RingSize /\ RingSize \in Nat
      /\ \A s \in Slots : ~ Age(0, s) <= 0 /\ ~ Dist(0, s) < 0
  BY <1>6, Ranges DEF IInv
<1>8. Known'
  <2>1. \A s \in Slots : ~ InWindow(s)'
    BY <1>5, <1>7 DEF InWindow
  <2> QED
    BY <2>1 DEF Known
<1>9. Live(sent, 0)'
  <2>1. \A g \in Given' : g <= sent - Unread'
    BY <1>2, <1>5, <1>7
  <2>2. \A s \in Slots : ~ Age(W', s) <= 0
    BY <1>4, <1>7
  <2> QED
    BY <1>3, <1>4, <1>5, <1>7, <2>1, <2>2 DEF Live
<1>10. \E n \in 0..sent', c \in 0..RingSize : Live(n, c)'
  BY <1>7, <1>9
<1>11. Distinct'
  BY DEF IInv, RingInv, Distinct
<1> QED
  BY <1>2, <1>8, <1>10, <1>11 DEF RingInv

LEMMA ReadCounterKeepsInv ==
    ASSUME IInv, ReadCounter
    PROVE  RingInv'
<1>1. /\ drv.at = "counter" /\ drv.powered /\ ~ drv.error
      /\ drv'.at = "pop" /\ drv'.head = W /\ drv'.lastHead = W /\ drv'.tail = drv.tail
      /\ ~ drv'.error /\ drv'.powered /\ loss'.gap = loss.gap /\ ~ loss'.lapped
      /\ UNCHANGED <<dma, buf, sent, out>>
  BY ReadCounterTyped DEF IInv, RingInv, W
<1>2. Given' = Given /\ Last' = Last /\ W' = W /\ Unread' = Unread
  BY <1>1 DEF Given, Last, Stream!Given, Stream!LastGiven, W, Unread, Dist
<1>3. /\ drv.tail \in Slots /\ W \in Slots /\ sent \in Nat /\ RingSize \in Nat
  BY Ranges DEF IInv
<1>4. PICK n \in 0..sent, c \in 0..RingSize : Live(n, c)
  BY <1>1 DEF IInv, RingInv
<1>5. /\ c <= n /\ Unread <= c
      /\ \A s \in Slots : Age(W, s) <= c => buf[s] = n - Age(W, s) + 1
      /\ \A g \in Given : g <= n - Unread
  BY <1>4 DEF Live
<1>6. Unread \in 0..RingSize - 1 /\ Dist(drv.tail, drv.lastHead)' = Unread
  BY <1>1, <1>3, DistRange DEF Unread, Dist
<1>7. Known'
  <2> SUFFICES ASSUME NEW s \in Slots, InWindow(s)'
               PROVE  buf[s] # 0 /\ buf[s] \notin Given
    BY <1>1, <1>2 DEF Known
  <2>1. Dist(drv.tail, s) < Unread /\ Dist(drv.tail, s) \in 0..RingSize - 1
    BY <1>1, <1>3, <1>6, DistRange DEF InWindow, Dist
  <2>2. Age(W, s) = Unread - Dist(drv.tail, s)
    BY <1>3, <2>1, AgeInWindow DEF Unread
  <2>3. buf[s] = n - Age(W, s) + 1
    BY <1>3, <1>5, <1>6, <2>1, <2>2
  <2>4. buf[s] > n - Unread /\ buf[s] >= 1
    BY <1>3, <1>5, <1>6, <2>1, <2>2, <2>3
  <2>5. \A g \in Given : g \in Int
    BY DEF IInv, RingInv
  <2> QED
    BY <1>3, <1>5, <1>6, <2>2, <2>3, <2>4, <2>5, <2>1
<1>8. Live(n, c)'
  BY <1>1, <1>2, <1>4, <1>6 DEF Live
<1>9. Distinct'
  BY <1>1 DEF IInv, RingInv, Distinct
<1>10. \E k \in 0..sent', j \in 0..RingSize : Live(k, j)'
  BY <1>1, <1>4, <1>8
<1> QED
  BY <1>1, <1>2, <1>7, <1>9, <1>10 DEF IInv, RingInv

\* Between the looks of a call that finds nothing to do, and when the receiver is
\* switched off.
LEMMA ReaderOnlyKeepsInv ==
    ASSUME IInv, UNCHANGED <<buf, sent, out, loss>>,
           drv'.tail = drv.tail, drv'.lastHead = drv.lastHead,
           ~ drv'.error, drv'.at \in {"outside", "counter"},
           drv'.powered => ~ drv.error /\ drv.powered /\ UNCHANGED dma
    PROVE  RingInv'
<1>1. Given' = Given /\ Last' = Last
  BY DEF Given, Last, Stream!Given, Stream!LastGiven
<1>2. \A s \in Slots : InWindow(s)' <=> InWindow(s)
  BY DEF InWindow
<1>3. Known' /\ Distinct'
  BY <1>1, <1>2 DEF IInv, RingInv, Known, Distinct
<1>4. ASSUME drv'.powered
      PROVE  \E n \in 0..sent', c \in 0..RingSize : Live(n, c)'
  <2>1. W' = W /\ Unread' = Unread
    BY <1>4 DEF W, Unread, Dist
  <2>2. Dist(drv.tail, drv.lastHead)' = Dist(drv.tail, drv.lastHead)
    BY DEF Dist
  <2>3. \A n, c : Live(n, c) => Live(n, c)'
    BY <1>1, <1>4, <2>1, <2>2 DEF Live
  <2> QED
    BY <1>4, <2>3 DEF IInv, RingInv
<1> QED
  BY <1>1, <1>3, <1>4 DEF IInv, RingInv

----------------------------------------------------------------------------
(* The steps, seen as steps of the stream.                                 *)

StreamStep == [Stream!Next]_(Stream!vars)

LEMMA Unseen ==
    ASSUME UNCHANGED <<sent, out>>, loss'.gap = loss.gap
    PROVE  StreamStep
BY DEF StreamStep, Stream!vars

LEMMA Loses ==
    ASSUME UNCHANGED <<sent, out>>, loss'.gap \in {"later", "any"}
    PROVE  StreamStep
BY DEF StreamStep, Stream!Next, Stream!Lose

LEMMA Gives ==
    ASSUME GiveStep
    PROVE  StreamStep
BY DEF StreamStep, GiveStep, Stream!Next

LEMMA ByteIsStreamStep ==
    ASSUME IInv, Byte
    PROVE  RingInv' /\ StreamStep
<1>1. CASE dma.state = "running"
  <2>1. /\ sent' = sent + 1 /\ UNCHANGED out /\ loss'.gap \in {loss.gap, "later"}
    BY <1>1, ByteWritten DEF IInv
  <2> QED
    BY <1>1, <2>1, ByteWrittenKeepsInv DEF StreamStep, Stream!Next, Stream!Send
<1>2. CASE dma.state # "running"
  <2>1. sent' = sent + 1 /\ UNCHANGED <<dma, buf, drv, out, loss>>
    BY <1>2, ByteLost DEF IInv
  <2>2. sent \in Nat
    BY Ranges DEF IInv
  <2>3. sent' >= sent /\ sent' \in Nat /\ W' = W
    BY <2>1, <2>2 DEF W
  <2>4. RingInv'
    BY <1>2, <2>1, <2>3, RingUntouched
  <2> QED
    BY <2>1, <2>4 DEF StreamStep, Stream!Next, Stream!Send
<1> QED
  BY <1>1, <1>2

LEMMA CallIsStreamStep ==
    ASSUME IInv, ReadFlag \/ Take
    PROVE  RingInv' /\ StreamStep
<1>1. drv.powered /\ UNCHANGED <<buf, sent, used>> /\ Typed
  BY LoopSteps DEF IInv
<1>2. drv.at = "pop" => drv.head = drv.lastHead
  BY DEF IInv, RingInv
<1>3. CASE drv.error /\ Drain(drv.lastHead)
  <2>1. CASE drv.lastHead # drv.tail
    BY <1>1, <1>3, <2>1, DrainPop, Gives DEF Drain
  <2>2. CASE drv.lastHead = drv.tail
    <3>1. /\ Typed' /\ dma' = Running /\ loss' = [gap |-> "later", lapped |-> FALSE]
          /\ drv'.tail = 0 /\ drv'.lastHead = 0 /\ ~ drv'.error /\ drv'.at = "outside"
          /\ UNCHANGED <<buf, sent, out>>
      BY <1>1, <1>3, <2>2, RestartTyped
    <3>2. RingInv'
      BY <3>1, StartKeepsInv
    <3>3. loss'.gap = "later"
      BY <3>1
    <3> QED
      BY <3>1, <3>2, <3>3, Loses
  <2> QED
    BY <2>1, <2>2
<1>4. CASE ~ drv.error /\ drv.at = "pop" /\ drv.head # drv.tail /\ Pop(drv.head)
  BY <1>1, <1>4, LivePop, Gives
<1>5. CASE /\ ~ drv.error /\ UNCHANGED <<dma, out, loss>>
           /\ \E a \in {"outside", "counter"} : drv' = [drv EXCEPT !.at = a]
  <2>1. PICK a \in {"outside", "counter"} : drv' = [drv EXCEPT !.at = a]
    BY <1>5
  <2>2. /\ drv'.at = a /\ drv'.tail = drv.tail /\ drv'.lastHead = drv.lastHead
        /\ drv'.error = drv.error
    BY <1>1, <1>5, <2>1, AtTyped
  <2>3. RingInv'
    BY <1>1, <1>5, <2>2, ReaderOnlyKeepsInv
  <2> QED
    BY <1>1, <1>5, <2>3, Unseen
<1> QED
  BY <1>1, <1>2, <1>3, <1>4, <1>5, LoopSteps

LEMMA NextIsStreamStep ==
    ASSUME IInv, ~ MidRead, [Next]_vars
    PROVE  IInv' /\ StreamStep
<1>1. Typed'
  BY StepTyped DEF IInv
<1>2. CASE UNCHANGED vars
  <2>1. UNCHANGED <<dma, buf, drv, sent, out, loss>> /\ W' = W
    BY <1>2 DEF vars, W
  <2>2. sent \in Nat /\ sent' = sent
    BY <2>1, Ranges DEF IInv
  <2>3. sent' >= sent
    BY <2>2
  <2> QED
    BY <1>1, <2>1, <2>2, <2>3, RingUntouched, Unseen DEF IInv
<1>3. CASE Reload \/ LineError
  <2>1. /\ UNCHANGED <<buf, drv, sent, out, loss>> /\ W' = W
        /\ dma.state = "running" /\ dma'.state \in {"running", "suspended"}
    BY <1>3, ReloadTyped DEF IInv, W
  <2>2. sent \in Nat /\ sent' = sent
    BY <2>1, Ranges DEF IInv
  <2>3. sent' >= sent
    BY <2>2
  <2>4. RingInv'
    BY <2>1, <2>2, <2>3, RingUntouched
  <2> QED
    BY <1>1, <2>1, <2>4, Unseen DEF IInv
<1>4. CASE ErrorCallback
  <2>1. UNCHANGED <<sent, out>> /\ loss'.gap = IF loss.lapped THEN "any" ELSE loss.gap
    BY <1>4, ErrorTyped DEF IInv
  <2>2. StreamStep
    BY <2>1, Unseen, Loses
  <2> QED
    BY <1>1, <1>4, <2>2, ErrorKeepsInv DEF IInv
<1>5. CASE ReadCounter
  <2>1. UNCHANGED <<sent, out>> /\ loss'.gap = loss.gap
    BY <1>5, ReadCounterTyped DEF IInv
  <2> QED
    BY <1>1, <1>5, <2>1, ReadCounterKeepsInv, Unseen DEF IInv
<1>6. CASE PowerOff
  <2>1. /\ ~ drv'.powered /\ ~ drv'.error /\ drv'.at = "outside"
        /\ drv'.tail = drv.tail /\ drv'.lastHead = drv.lastHead
        /\ UNCHANGED <<buf, sent, out, loss>>
    BY <1>6, PowerOffTyped DEF IInv
  <2>2. RingInv'
    BY <2>1, ReaderOnlyKeepsInv
  <2> QED
    BY <1>1, <2>1, <2>2, Unseen DEF IInv
<1>7. CASE PowerOn
  <2>1. /\ dma' = Running /\ loss' = [gap |-> "later", lapped |-> FALSE]
        /\ drv'.tail = 0 /\ drv'.lastHead = 0 /\ ~ drv'.error /\ drv'.at = "outside"
        /\ UNCHANGED <<buf, sent, out>>
    BY <1>7, PowerOnTyped DEF IInv
  <2>2. RingInv'
    BY <1>1, <2>1, StartKeepsInv
  <2>3. loss'.gap = "later"
    BY <2>1
  <2> QED
    BY <1>1, <2>1, <2>2, <2>3, Loses DEF IInv
<1>8. CASE Byte
  BY <1>1, <1>8, ByteIsStreamStep DEF IInv
<1>9. CASE ReadFlag \/ Take
  BY <1>1, <1>9, CallIsStreamStep DEF IInv
<1> QED
  BY <1>2, <1>3, <1>4, <1>5, <1>6, <1>7, <1>8, <1>9 DEF Next, Loop

----------------------------------------------------------------------------
(* The theorems.                                                           *)

\* purrgo_gnss_read_byte: the parser is given the receiver's bytes in their order and at
\* most once, and none is skipped without an overrun, an error of the line or a receiver
\* that was off: through laps of the ring, interrupts in the middle of a read, restarts
\* of the channel and power cycles, but for the one instant that MidRead stands for.
THEOREM GnssRingGivesStream ==
    ASSUME ~ MidRead
    PROVE  Spec => BytesInOrder
<1>1. IInv /\ [Next]_vars => IInv' /\ [Stream!Next]_(Stream!vars)
  BY NextIsStreamStep DEF StreamStep
<1>2. Init => IInv
  BY InitInv
<1>3. Init => Stream!Init
  BY DEF Init, Stream!Init
<1> QED
  BY <1>1, <1>2, <1>3, PTL DEF BytesInOrder, Stream!Spec, Spec

\* The bytes given out are new: what the stream's steps say of each of them, said of the
\* whole history.
AllNew == OnlyNewBytes /\ \A i \in DOMAIN out : out[i] \in Given

LEMMA GivingKeepsNew ==
    ASSUME Typed, AllNew, StreamStep
    PROVE  AllNew'
<1>1. CASE UNCHANGED out
  BY <1>1 DEF AllNew, OnlyNewBytes, Given, Stream!Given
<1>2. CASE GiveStep
  <2>1. PICK b \in 1..sent : b \notin Given /\ out' = Append(out, b)
    BY <1>2 DEF GiveStep, Stream!Give, Given
  <2>2. /\ Len(out') = Len(out) + 1 /\ out'[Len(out')] = b /\ Len(out) \in Nat
        /\ DOMAIN out = 1..Len(out) /\ DOMAIN out' = 1..Len(out')
        /\ \A i \in 1..Len(out) : out'[i] = out[i]
    BY <2>1, OutIsNat, AppendProperties, LenProperties
  <2>3. Given' = Given \cup {b}
    BY <2>1, OutIsNat, GivenAfter
  <2>4. b # 0
    BY <2>1
  <2>5. \A i \in DOMAIN out : out[i] \in Given /\ out[i] # 0 /\ \A j \in 1..i - 1 : out[i] # out[j]
    BY DEF AllNew, OnlyNewBytes
  <2>6. \A i \in DOMAIN out' :
           out'[i] \in Given' /\ out'[i] # 0 /\ \A j \in 1..i - 1 : out'[i] # out'[j]
    <3> SUFFICES ASSUME NEW i \in DOMAIN out'
                 PROVE  out'[i] \in Given' /\ out'[i] # 0
                        /\ \A j \in 1..i - 1 : out'[i] # out'[j]
      OBVIOUS
    <3>1. CASE i \in 1..Len(out)
      <4>1. \A j \in 1..i - 1 : j \in 1..Len(out)
        BY <2>2, <3>1
      <4> QED
        BY <2>2, <2>3, <2>5, <3>1, <4>1
    <3>2. CASE i = Len(out')
      <4>1. \A j \in 1..i - 1 : j \in 1..Len(out)
        BY <2>2, <3>2
      <4> QED
        BY <2>1, <2>2, <2>3, <2>4, <2>5, <3>2, <4>1
    <3> QED
      BY <2>2, <3>1, <3>2
  <2> QED
    BY <2>6 DEF AllNew, OnlyNewBytes
<1> QED
  BY <1>1, <1>2
     DEF StreamStep, GiveStep, Stream!Next, Stream!vars, Stream!Send, Stream!Lose

\* The comment at gnss_io.c:410-415, where it is true: the restart after an error takes
\* nothing away from the read that is under way, so every byte the parser is given has
\* come from the receiver and was not given before.  The run MCGnssRingMidRead shows that
\* the hypothesis is needed.
THEOREM GnssRingGivesNewBytes ==
    ASSUME ~ MidRead
    PROVE  Spec => []OnlyNewBytes
<1>1. IInv /\ [Next]_vars => IInv' /\ StreamStep
  BY NextIsStreamStep
<1>2. IInv /\ AllNew /\ StreamStep => AllNew'
  BY GivingKeepsNew DEF IInv
<1>3. Init => IInv /\ AllNew
  BY InitInv DEF Init, AllNew, OnlyNewBytes
<1>4. AllNew => OnlyNewBytes
  BY DEF AllNew
<1>5. IInv /\ AllNew /\ [Next]_vars => IInv' /\ AllNew'
  BY <1>1, <1>2
<1> QED
  BY <1>3, <1>4, <1>5, PTL DEF Spec
=============================================================================
