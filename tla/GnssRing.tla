------------------------------ MODULE GnssRing ------------------------------
(***************************************************************************)
(* gnss_io.c and gnss_ring.h: the DMA channel writes the bytes of the      *)
(* receiver into a ring, round and round, and the main loop takes them out *)
(* one call of purrgo_gnss_read_byte at a time.  Where the writer is, the  *)
(* loop learns from the counter of the channel; an error of the line stops *)
(* the channel, and two interrupts later the counter is zero and a flag is *)
(* up.  The loop then drains what it knows of and starts the channel anew. *)
(*                                                                         *)
(* A byte is its number in the order the receiver sent it, 0 what a slot   *)
(* holds that was never written.  The interrupts may come between any two  *)
(* reads of shared state in purrgo_gnss_read_byte, with one exception that *)
(* MidRead adds: between the first look at the flag and the counter.       *)
(***************************************************************************)
EXTENDS Integers, Sequences

CONSTANTS RingSize,   (* GNSS_RX_BUFFER_SIZE                                *)
          MidRead,    (* may an error come between flag and counter?        *)
          BytesMax,   (* bound: bytes the receiver sends                    *)
          ErrorsMax,  (* bound: errors of the line                          *)
          SwitchesMax (* bound: times the receiver is switched off          *)

ASSUME GnssRingAssumption ==
    /\ RingSize \in Nat /\ RingSize >= 2
    /\ MidRead \in BOOLEAN
    /\ {BytesMax, ErrorsMax, SwitchesMax} \subseteq Nat

VARIABLES
    dma,    (* the channel: how far, running or not, usable or stuck        *)
    buf,    (* gnss_rx_buffer                                               *)
    drv,    (* the statics of gnss_io.c and the locals of read_byte         *)
    sent,   (* how many bytes the receiver has sent                         *)
    out,    (* history: the bytes read_byte returned                        *)
    loss,   (* history: what may be missing from them                       *)
    used    (* how much of the bounds is used up                            *)

vars == <<dma, buf, drv, sent, out, loss, used>>

Slots == 0..RingSize - 1

TypeOK ==
    /\ dma \in [left : 0..RingSize, state : {"running", "suspended", "stopped"},
                channel : {"ready", "stuck"}]
    /\ buf \in [Slots -> 0..sent]
    /\ drv \in [powered : BOOLEAN, error : BOOLEAN, tail : Slots, lastHead : Slots,
                at : {"outside", "counter", "pop"}, head : Slots]
    /\ sent \in 0..BytesMax
    /\ \A i \in DOMAIN out : out[i] \in 0..sent
    /\ loss \in [gap : {"next", "later", "any"}, lapped : BOOLEAN]
    /\ used \in [errors : 0..ErrorsMax, switches : 0..SwitchesMax]
    /\ drv.error => dma.state = "stopped"
    /\ ~drv.powered => dma.state = "stopped" /\ ~drv.error /\ drv.at = "outside"

\* purrgo_gnss_ring_head_from_ndtr: a counter at zero is one just reloaded.
HeadAt(left) == (RingSize - (IF left = 0 THEN RingSize ELSE left)) % RingSize

Running == [left |-> RingSize, state |-> "running", channel |-> "ready"]

Init ==
    /\ dma = Running
    /\ buf = [i \in Slots |-> 0]
    /\ drv = [powered |-> TRUE, error |-> FALSE, tail |-> 0, lastHead |-> 0,
              at |-> "outside", head |-> 0]
    /\ sent = 0
    /\ out = <<>>
    /\ loss = [gap |-> "next", lapped |-> FALSE]
    /\ used = [errors |-> 0, switches |-> 0]

----------------------------------------------------------------------------
(* The hardware and its interrupts.                                        *)

\* A byte on the line: into the ring when the channel runs, else lost.  The ring
\* is lapped when the writer comes round to the reader.
Byte ==
    /\ drv.powered /\ sent < BytesMax
    /\ sent' = sent + 1
    /\ IF dma.state = "running"
       THEN LET left == (IF dma.left = 0 THEN RingSize ELSE dma.left) - 1
            IN  /\ buf' = [buf EXCEPT ![HeadAt(dma.left)] = sent + 1]
                /\ dma' = [dma EXCEPT !.left = left]
                /\ loss' = IF HeadAt(left) = drv.tail
                           THEN [gap |-> "later", lapped |-> TRUE] ELSE loss
       ELSE UNCHANGED <<buf, dma, loss>>
    /\ UNCHANGED <<drv, out, used>>

\* The block is done and its node is loaded again.
Reload ==
    /\ dma.state = "running" /\ dma.left = 0
    /\ dma' = [dma EXCEPT !.left = RingSize]
    /\ UNCHANGED <<buf, drv, sent, out, loss, used>>

\* The interrupt of the UART: the channel is told to suspend.
LineError ==
    /\ dma.state = "running" /\ used.errors < ErrorsMax
    /\ dma' = [dma EXCEPT !.state = "suspended"]
    /\ used' = [used EXCEPT !.errors = @ + 1]
    /\ UNCHANGED <<buf, drv, sent, out, loss>>

\* The interrupt of the channel: it has stopped, the counter is cleared, and
\* HAL_UART_ErrorCallback runs.  A second error in between may leave the channel
\* in a state no start accepts, the counter cleared or not.
ErrorCallback ==
    /\ dma.state = "suspended"
    /\ MidRead \/ drv.at # "counter"
    /\ \E channel \in {"ready", "stuck"}, left \in {0, dma.left} :
          /\ channel = "ready" => left = 0
          /\ dma' = [left |-> left, state |-> "stopped", channel |-> channel]
    /\ drv' = [drv EXCEPT !.error = TRUE]
    /\ loss' = IF loss.lapped THEN [loss EXCEPT !.gap = "any"] ELSE loss
    /\ UNCHANGED <<buf, sent, out, used>>

----------------------------------------------------------------------------
(* The main loop.                                                          *)

\* HAL_UART_Receive_DMA
Started(d) == IF d.channel = "ready" THEN Running ELSE d

\* gnss_dma_force_ready
Forced(d) == IF d.state = "running" THEN d ELSE [d EXCEPT !.channel = "ready", !.left = 0]

Restarted_Once(d) == Started(d)

\* gnss_rx_restart: a start that fails is tried once more on a channel made ready.
Restarted(d) == Started(Forced(Started(d)))

Fresh(d) == [d EXCEPT !.error = FALSE, !.tail = 0, !.lastHead = 0, !.at = "outside"]

\* purrgo_gnss_ring_pop
Pop(head) ==
    /\ out' = Append(out, buf[drv.tail])
    /\ drv' = [drv EXCEPT !.tail = (@ + 1) % RingSize, !.at = "outside", !.head = head]
    /\ loss' = IF loss.gap = "any" THEN loss ELSE [loss EXCEPT !.gap = "next"]
    /\ UNCHANGED dma

\* What is left from before the error is given out; then the channel starts anew.
Drain(head) ==
    IF head # drv.tail
    THEN Pop(head)
    ELSE /\ drv' = Fresh(drv)
         /\ dma' = Restarted(dma)
         /\ loss' = [gap |-> "later", lapped |-> FALSE]
         /\ UNCHANGED out

\* purrgo_gnss_read_byte up to its first look at the flag: with the flag up the
\* channel is stopped, and the rest of the call meets no interrupt.
ReadFlag ==
    /\ drv.powered /\ drv.at = "outside"
    /\ IF drv.error
       THEN Drain(drv.lastHead)
       ELSE drv' = [drv EXCEPT !.at = "counter"] /\ UNCHANGED <<dma, out, loss>>
    /\ UNCHANGED <<buf, sent, used>>

ReadCounter_ForgetsHead ==
    /\ drv.at = "counter"
    /\ drv' = [drv EXCEPT !.at = "pop", !.head = HeadAt(dma.left)]
    /\ loss' = [loss EXCEPT !.lapped = FALSE]
    /\ UNCHANGED <<dma, buf, sent, out, used>>

\* The counter, and gnss_last_head after it.
ReadCounter ==
    /\ drv.at = "counter"
    /\ drv' = [drv EXCEPT !.at = "pop", !.head = HeadAt(dma.left), !.lastHead = HeadAt(dma.left)]
    /\ loss' = [loss EXCEPT !.lapped = FALSE]
    /\ UNCHANGED <<dma, buf, sent, out, used>>

\* The second look at the flag, and the byte.
Take ==
    /\ drv.at = "pop"
    /\ IF drv.error THEN Drain(drv.head)
       ELSE IF drv.head # drv.tail THEN Pop(drv.head)
       ELSE drv' = [drv EXCEPT !.at = "outside"] /\ UNCHANGED <<dma, out, loss>>
    /\ UNCHANGED <<buf, sent, used>>

PowerOff_KeepsFlag ==
    /\ drv.powered /\ drv.at = "outside" /\ used.switches < SwitchesMax
    /\ drv' = [drv EXCEPT !.powered = FALSE]
    /\ dma' = [dma EXCEPT !.state = "stopped", !.left = 0]
    /\ used' = [used EXCEPT !.switches = @ + 1]
    /\ UNCHANGED <<buf, sent, out, loss>>

\* purrgo_gnss_power_off: the reader's mode and the end of work.
PowerOff ==
    /\ drv.powered /\ drv.at = "outside" /\ used.switches < SwitchesMax
    /\ drv' = [drv EXCEPT !.powered = FALSE, !.error = FALSE]
    /\ dma' = [dma EXCEPT !.state = "stopped", !.left = 0]
    /\ used' = [used EXCEPT !.switches = @ + 1]
    /\ UNCHANGED <<buf, sent, out, loss>>

\* purrgo_gnss_power_on with purrgo_gnss_init: the ring, the flag and the channel
\* as at boot, except for what is in the ring.
PowerOn ==
    /\ ~drv.powered
    /\ drv' = [Fresh(drv) EXCEPT !.powered = TRUE]
    /\ dma' = Running
    /\ loss' = [gap |-> "later", lapped |-> FALSE]
    /\ UNCHANGED <<buf, sent, out, used>>

Loop == ReadFlag \/ ReadCounter \/ Take

Next ==
    \/ Byte \/ Reload \/ LineError \/ ErrorCallback
    \/ Loop \/ PowerOff \/ PowerOn

\* The loop calls read_byte on every pass and a pending interrupt is served.
Fairness == WF_vars(Loop) /\ SF_vars(ErrorCallback)

Spec == Init /\ [][Next]_vars /\ Fairness

----------------------------------------------------------------------------
Stream == INSTANCE ByteStream WITH gap <- loss.gap

\* The parser is given the receiver's bytes in order and at most once, and none is
\* skipped without an overrun, an error or a switched off receiver: through laps of
\* the ring, interrupts in the middle of a read, restarts and power cycles.
BytesInOrder == Stream!Spec

\* What the parser is given has come from the receiver and was not given before:
\* the restart after an error takes no state away «под ногами» from the read that
\* is under way (the comment at gnss_io.c:410-415).
OnlyNewBytes ==
    \A i \in DOMAIN out : out[i] # 0 /\ \A j \in 1..i - 1 : out[i] # out[j]

\* Reception that an error has stopped runs again, however the error left the
\* channel, unless the receiver is switched off.
ReceptionResumes ==
    drv.powered /\ dma.state # "running" ~> ~drv.powered \/ dma.state = "running"
=============================================================================
