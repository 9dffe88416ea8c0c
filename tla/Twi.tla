-------------------------------- MODULE Twi --------------------------------
(***************************************************************************)
(* The TWI driver (_twi.c) and the controller it drives, the bus that      *)
(* joins the ARM to the AVR.                                               *)
(*                                                                         *)
(* twi_isr runs at AIC_PRIO_RT, below the tick: the tick can run between   *)
(* its three parts (the status read with the receive part, the transmit    *)
(* part, the error part), and the parts use the status read at the start.  *)
(* The controller and the far end of the bus are external: they are        *)
(* modelled as far as the driver sees them.  Of a controller's time only   *)
(* the order matters: a byte counts as delivered when it leaves THR.       *)
(***************************************************************************)
EXTENDS Integers, Sequences

CONSTANTS
  Faults,        \* faults of the bus: a subset of {"nack", "corrupt", "overrun"}
  Bad, NoByte    \* a corrupted byte, an empty register

ASSUME FaultsAssumption == Faults \subseteq {"nack", "corrupt", "overrun"}

VARIABLES
  twi_state,   \* mode, the buffer that ptr points into, the next index, len
  memory,      \* the contents of the buffers
  twi_isr,     \* the part of twi_isr to come, and the status it read
  wire,        \* the controller: direction, status and mask, THR and RHR
  got,         \* what the far end received in this transfer
  sending      \* what the far end sends in this transfer

twiVars == <<twi_state, memory, twi_isr, wire, got, sending>>

TwiModes == {"TWI_UNINITIALIZED", "TWI_FAILED", "TWI_READY", "TWI_TX_BUSY", "TWI_RX_BUSY"}
Flags == {"TXRDY", "RXRDY", "NACK", "OVRE"}

Ready == twi_state.mode = "TWI_READY"

TwiInit0 ==
  /\ twi_state = [mode |-> "TWI_UNINITIALIZED", buf |-> "raw_to_avr", i |-> 1, len |-> 0]
  /\ twi_isr = [part |-> "idle", status |-> {}]
  /\ wire = [dir |-> "off", sr |-> {"TXRDY"}, imr |-> {}, stop |-> FALSE,
             thr |-> NoByte, rhr |-> NoByte]
  /\ got = <<>>
  /\ sending = <<>>

\* nx__twi_init: the lines are freed, the controller is reset, twi_isr installed.
TwiInit ==
  /\ twi_state' = [twi_state EXCEPT !.mode = "TWI_READY"]
  /\ wire' = [wire EXCEPT !.imr = {}]
  /\ UNCHANGED <<memory, twi_isr, got, sending>>

\* nx__twi_write_async and nx__twi_read_async, called when Ready.
WriteAsync(buf, mem) ==
  /\ twi_state' = [mode |-> "TWI_TX_BUSY", buf |-> buf, i |-> 1, len |-> Len(mem[buf])]
  /\ wire' = [wire EXCEPT !.dir = "tx", !.stop = FALSE, !.imr = @ \union {"TXRDY"}]
  /\ memory' = mem
  /\ got' = <<>>
  /\ UNCHANGED <<twi_isr, sending>>

ReadAsync(buf, mem) ==
  /\ twi_state' = [mode |-> "TWI_RX_BUSY", buf |-> buf, i |-> 1, len |-> Len(mem[buf])]
  /\ wire' = [wire EXCEPT !.dir = "rx", !.stop = FALSE, !.imr = @ \union {"RXRDY"}]
  /\ memory' = mem
  /\ sending' = <<>>
  /\ UNCHANGED <<twi_isr, got>>

-----------------------------------------------------------------------------
(* twi_isr *)

\* The status is read, which clears the error flags, and a received byte stored.
IsrReceive ==
  /\ twi_isr.part = "idle"
  /\ wire.imr \intersect wire.sr # {}
  /\ twi_isr' = [part |-> "transmit", status |-> wire.sr]
  /\ LET read == wire.sr \ {"NACK", "OVRE"} IN
     IF twi_state.mode = "TWI_RX_BUSY" /\ "RXRDY" \in wire.sr
     THEN LET left == twi_state.len - 1 IN
          /\ memory' = [memory EXCEPT ![twi_state.buf][twi_state.i] = wire.rhr]
          /\ twi_state' = [twi_state EXCEPT !.i = @ + 1, !.len = left,
                                            !.mode = IF left = 0 THEN "TWI_READY" ELSE @]
          /\ wire' = [wire EXCEPT !.sr = read \ {"RXRDY"}, !.rhr = NoByte,
                                  !.stop = @ \/ left = 1,
                                  !.imr = IF left = 0 THEN {} ELSE @]
     ELSE /\ wire' = [wire EXCEPT !.sr = read]
          /\ UNCHANGED <<memory, twi_state>>
  /\ UNCHANGED <<got, sending>>

IsrTransmit ==
  /\ twi_isr.part = "transmit"
  /\ twi_isr' = [twi_isr EXCEPT !.part = "errors"]
  /\ IF twi_state.mode = "TWI_TX_BUSY" /\ "TXRDY" \in twi_isr.status
     THEN IF twi_state.len = 0
          THEN /\ twi_state' = [twi_state EXCEPT !.mode = "TWI_READY"]
               /\ wire' = [wire EXCEPT !.imr = {}]
          ELSE /\ twi_state' = [twi_state EXCEPT !.i = @ + 1, !.len = @ - 1]
               /\ wire' = [wire EXCEPT !.stop = @ \/ twi_state.len = 1,
                                       !.thr = memory[twi_state.buf][twi_state.i],
                                       !.sr = @ \ {"TXRDY"}]
     ELSE UNCHANGED <<twi_state, wire>>
  /\ UNCHANGED <<memory, got, sending>>

\* An error sets TWI_FAILED, which no code leaves.
IsrErrors ==
  /\ twi_isr.part = "errors"
  /\ twi_isr' = [part |-> "idle", status |-> {}]
  /\ IF twi_isr.status \intersect {"NACK", "OVRE"} # {}
     THEN /\ twi_state' = [twi_state EXCEPT !.mode = "TWI_FAILED"]
          /\ wire' = [wire EXCEPT !.stop = TRUE, !.imr = {}]
     ELSE UNCHANGED <<twi_state, wire>>
  /\ UNCHANGED <<memory, got, sending>>

-----------------------------------------------------------------------------
(* The controller *)

\* A byte leaves THR; the far end acknowledges it or, with a fault, does not.
WireOut ==
  /\ wire.dir = "tx"
  /\ wire.thr # NoByte
  /\ got' = Append(got, wire.thr)
  /\ wire' = [wire EXCEPT !.thr = NoByte, !.sr = @ \union {"TXRDY"},
                          !.dir = IF wire.stop THEN "off" ELSE @]
  /\ UNCHANGED <<twi_state, memory, twi_isr, sending>>

WireOutNack ==
  /\ "nack" \in Faults
  /\ wire.dir = "tx"
  /\ wire.thr # NoByte
  /\ wire' = [wire EXCEPT !.thr = NoByte, !.sr = @ \union {"TXRDY", "NACK"}, !.dir = "off"]
  /\ UNCHANGED <<twi_state, memory, twi_isr, got, sending>>

\* The far end sends the next byte of `status`, chosen at the first one.
\* With a fault it is corrupted, or comes before the last one was taken; the
\* interrupt that is late for that is also late to stop the transfer.
WireIn(status) ==
  LET full == "RXRDY" \in wire.sr
      byte == IF Len(sending) < Len(status) THEN status[Len(sending) + 1] ELSE Bad IN
  /\ wire.dir = "rx"
  /\ sending = SubSeq(status, 1, Len(sending))
  /\ full => "overrun" \in Faults
  /\ \E b \in {byte} \union (IF "corrupt" \in Faults THEN {Bad} ELSE {}),
        late \in {FALSE, "overrun" \in Faults} :
       wire' = [wire EXCEPT !.rhr = b,
                            !.sr = @ \union {"RXRDY"} \union IF full THEN {"OVRE"} ELSE {},
                            !.dir = IF wire.stop /\ ~late THEN "off" ELSE @]
  /\ sending' = IF Len(sending) < Len(status) THEN Append(sending, byte) ELSE sending
  /\ UNCHANGED <<twi_state, memory, twi_isr, got>>

\* Nobody answers the address of a read: no flag that the mask lets through.
WireInNack ==
  /\ "nack" \in Faults
  /\ wire.dir = "rx"
  /\ sending = <<>>
  /\ wire' = [wire EXCEPT !.dir = "off", !.sr = @ \union {"NACK"}]
  /\ UNCHANGED <<twi_state, memory, twi_isr, got, sending>>
=============================================================================
