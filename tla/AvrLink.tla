------------------------------ MODULE AvrLink ------------------------------
(***************************************************************************)
(* The link to the AVR coprocessor (avr.c) over the TWI driver: a state    *)
(* machine that the tick steps every millisecond.  It sends a handshake,   *)
(* waits, and from then on alternates between sending to_avr and reading   *)
(* the AVR's status; three corrupted statuses in a row start it again.     *)
(*                                                                         *)
(* A program writes to_avr at any moment (nx__avr_set_motor, in its three  *)
(* steps, and the power requests), and the AVR (external) obeys the last   *)
(* whole packet.  `halted` is set when an assertion fails.                 *)
(***************************************************************************)
EXTENDS Twi, AvrCommand

CONSTANTS
  Statuses,     \* what the AVR may report: records [buttons, last] of two words
  Requests,     \* the power requests the program may make
  Hello, Zero   \* a byte of the handshake, a byte that memset cleared

ASSUME RequestsAssumption == Requests \subseteq PowerModes

\* The link given up at the first bad checksum.
MaxFailedOne == 1
AVR_MAX_FAILED_CHECKSUMS == 3

VARIABLES
  avr_state,   \* mode and failed_consecutive_checksums
  from_avr,    \* the buttons, the battery and the version last reported
  obeyed,      \* external: the last packet the AVR received whole
  writer,      \* nx__avr_set_motor under way: its step, arguments, loaded bits
  halted       \* the assertion that failed, or "no"

linkVars == <<twiVars, to_avr, avr_state, from_avr, obeyed, writer, halted>>

AvrModes == {"AVR_UNINITIALIZED", "AVR_LINK_DOWN", "AVR_INIT", "AVR_WAIT_2MS",
             "AVR_WAIT_1MS", "AVR_SEND", "AVR_RECV"}

Idle == [step |-> "idle", motor |-> 0, brake |-> FALSE, loaded |-> {}]

-----------------------------------------------------------------------------
(* Packing and unpacking *)

\* The fields of to_avr are sent, but the power mode is forgotten.
PackedRunning(command) == << <<"AVR_RUN", command.speed>>, command.brake >>

\* avr_pack_to_avr: the power mode and the speeds come before the brakes.
Packed(command) == << <<command.power, command.speed>>, command.brake >>
Handshake == <<Hello, Hello>>

\* A status takes two bytes of the model; its checksum holds when both are its own.
BytesOf(status) == << <<status, 1>>, <<status, 2>> >>
NoStatus == [buttons |-> 0, last |-> 0]
Cleared == << <<NoStatus, 0>>, <<NoStatus, 0>> >>
\* The sum taken over all bytes but the last.
ChecksumShort(bytes) == \E s \in Statuses : bytes[1] = <<s, 1>>
ChecksumHolds(bytes) == \E s \in Statuses : bytes = BytesOf(s)

\* An empty register is told from a full one, a corrupted byte from a sound one.
ASSUME BytesAssumption ==
  /\ NoByte # Hello
  /\ \A c \in Command : Packed(c)[1] # NoByte /\ Packed(c)[2] # NoByte
  /\ \A s \in Statuses : Bad # <<s, 1>> /\ Bad # <<s, 2>>

ButtonOf(word) ==
  CASE word > 1023 -> "BUTTON_OK"
    [] word > 720 /\ word <= 1023 -> "BUTTON_CANCEL"
    [] word > 270 /\ word <= 720 -> "BUTTON_RIGHT"
    [] word > 60 /\ word <= 270 -> "BUTTON_LEFT"
    [] OTHER -> "BUTTON_NONE"

ChargeOf(word) == ((word % 1024) * 3545) \div 512

Unpacked(bytes) ==
  LET last == bytes[2][1].last IN
  [buttons |-> ButtonOf(bytes[1][1].buttons),
   charge  |-> ChargeOf(last),
   is_aa   |-> last >= 32768,
   major   |-> (last \div 8192) % 4,
   minor   |-> (last \div 1024) % 8]

-----------------------------------------------------------------------------
(* The state machine: nx__avr_fast_update, called by the tick *)

Mode(m) == avr_state' = [avr_state EXCEPT !.mode = m]

\* The assertion of the asynchronous transfers: a failed one halts the system.
Start(transfer, name) ==
  IF Ready
  THEN transfer /\ UNCHANGED halted
  ELSE halted' = name /\ UNCHANGED twiVars

\* The failed checksums are not forgotten.
LinkDownCounting ==
  /\ avr_state.mode = "AVR_LINK_DOWN"
  /\ Start(WriteAsync("handshake", memory), "nx__twi_write_async")
  /\ Mode("AVR_INIT")
  /\ UNCHANGED <<from_avr>>

LinkDown ==
  /\ avr_state.mode = "AVR_LINK_DOWN"
  /\ Start(WriteAsync("handshake", memory), "nx__twi_write_async")
  /\ avr_state' = [mode |-> "AVR_INIT", failed |-> 0]
  /\ UNCHANGED <<from_avr>>

Wait(from, to) ==
  /\ avr_state.mode = from
  /\ Mode(to)
  /\ UNCHANGED <<twiVars, from_avr, halted>>

\* The wait starts whether the handshake went out or not.
HandshakeUnsent == Wait("AVR_INIT", "AVR_WAIT_2MS")

HandshakeSent ==
  /\ Ready
  /\ Wait("AVR_INIT", "AVR_WAIT_2MS")

\* Falls through into AVR_RECV, which finds the transfer under way.
CommandSent ==
  /\ avr_state.mode = "AVR_SEND"
  /\ Ready
  /\ Mode("AVR_RECV")
  /\ Start(ReadAsync("raw_from_avr", [memory EXCEPT !["raw_from_avr"] = Cleared]),
           "nx__twi_read_async")
  /\ UNCHANGED <<from_avr>>

Failed == IF ChecksumHolds(memory["raw_from_avr"]) THEN 0 ELSE avr_state.failed + 1

StatusReceived ==
  /\ avr_state.mode = "AVR_RECV"
  /\ Ready
  /\ from_avr' = IF Failed = 0 THEN Unpacked(memory["raw_from_avr"]) ELSE from_avr
  /\ IF Failed >= AVR_MAX_FAILED_CHECKSUMS
     THEN /\ avr_state' = [mode |-> "AVR_LINK_DOWN", failed |-> Failed]
          /\ UNCHANGED <<twiVars, halted>>
     ELSE /\ avr_state' = [mode |-> "AVR_SEND", failed |-> Failed]
          /\ Start(WriteAsync("raw_to_avr", [memory EXCEPT !["raw_to_avr"] = Packed(to_avr)]),
                   "nx__twi_write_async")

\* The tick also finds nothing to do: not initialised, or the bus is busy.
Tick ==
  /\ halted = "no"
  /\ \/ LinkDown
     \/ HandshakeSent
     \/ Wait("AVR_WAIT_2MS", "AVR_WAIT_1MS")
     \/ Wait("AVR_WAIT_1MS", "AVR_SEND")
     \/ CommandSent
     \/ StatusReceived
  /\ UNCHANGED <<to_avr, obeyed, writer>>

-----------------------------------------------------------------------------
(* The program, the bus, the AVR *)

\* nx__avr_init: the tick already runs while it does.
InitTwi ==
  /\ twi_state.mode = "TWI_UNINITIALIZED"
  /\ TwiInit
  /\ UNCHANGED <<to_avr, avr_state, from_avr, obeyed, writer, halted>>

InitLink ==
  /\ avr_state.mode = "AVR_UNINITIALIZED"
  /\ twi_state.mode # "TWI_UNINITIALIZED"
  /\ Mode("AVR_LINK_DOWN")
  /\ UNCHANGED <<twiVars, to_avr, from_avr, obeyed, writer, halted>>

SetMotorSpeed(m, s, brake) ==
  /\ writer.step = "idle"
  /\ SetSpeed(m, s)
  /\ writer' = [step |-> "load", motor |-> m, brake |-> brake, loaded |-> {}]

SetMotorLoad ==
  /\ writer.step = "load"
  /\ writer' = [writer EXCEPT !.step = "store", !.loaded = to_avr.brake]
  /\ UNCHANGED to_avr

SetMotorStore ==
  /\ writer.step = "store"
  /\ StoreBrake(WithBrake(writer.loaded, writer.motor, writer.brake))
  /\ writer' = Idle

\* The call never returns: no other command follows from this program.
Power(p) ==
  /\ writer.step = "idle"
  /\ SetPower(p)
  /\ writer' = [Idle EXCEPT !.step = "powering down"]

Program ==
  /\ halted = "no"
  /\ \/ \E m \in MotorPorts, s \in Speeds, brake \in BOOLEAN : SetMotorSpeed(m, s, brake)
     \/ SetMotorLoad
     \/ SetMotorStore
     \/ \E p \in Requests : Power(p)
  /\ UNCHANGED <<twiVars, avr_state, from_avr, obeyed, halted>>

Isr ==
  /\ halted = "no"
  /\ IsrReceive \/ IsrTransmit \/ IsrErrors
  /\ UNCHANGED <<to_avr, avr_state, from_avr, obeyed, writer, halted>>

\* The AVR obeys a packet when its last byte is there.
BusOut ==
  /\ WireOut \/ WireOutNack
  /\ obeyed' = IF wire'.dir = "off" /\ Len(got') = 2 /\ got' # Handshake
               THEN [power |-> got'[1][1], speed |-> got'[1][2], brake |-> got'[2]]
               ELSE obeyed
  /\ UNCHANGED <<to_avr, avr_state, from_avr, writer, halted>>

BusIn ==
  /\ \/ \E s \in Statuses : WireIn(BytesOf(s))
     \/ WireInNack
  /\ UNCHANGED <<to_avr, avr_state, from_avr, obeyed, writer, halted>>

Init ==
  /\ TwiInit0
  /\ memory = [handshake |-> Handshake, raw_to_avr |-> <<Zero, Zero>>, raw_from_avr |-> Cleared]
  /\ to_avr = IdleCommand
  /\ avr_state = [mode |-> "AVR_UNINITIALIZED", failed |-> 0]
  /\ from_avr = [buttons |-> "BUTTON_NONE", charge |-> 0, is_aa |-> FALSE, major |-> 0, minor |-> 0]
  /\ obeyed = IdleCommand
  /\ writer = Idle
  /\ halted = "no"

Next == InitTwi \/ InitLink \/ Tick \/ Program \/ Isr \/ BusOut \/ BusIn

-----------------------------------------------------------------------------
(* Properties *)

TypeOK ==
  /\ twi_state \in [mode : TwiModes, buf : DOMAIN memory, i : 1 .. 3, len : 0 .. 2]
  /\ wire.sr \subseteq Flags /\ wire.imr \subseteq {"TXRDY", "RXRDY"}
  /\ Len(got) <= 2 /\ Len(sending) <= 2
  /\ to_avr \in Command /\ obeyed \in Command
  /\ avr_state \in [mode : AvrModes, failed : 0 .. AVR_MAX_FAILED_CHECKSUMS]
  /\ halted \in {"no", "nx__twi_write_async", "nx__twi_read_async"}

\* The bus is broken for good, in one of two ways: twi_isr met an error, or a
\* read was not acknowledged, which wakes nobody.
Stuck ==
  \/ twi_state.mode = "TWI_FAILED"
  \/ twi_state.mode = "TWI_RX_BUSY" /\ wire.dir = "off" /\ "RXRDY" \notin wire.sr

(* The tick's state machine and the interrupt's stay in step: no transfer is  *)
(* started on a bus that is not ready (the assertions of _twi.c), and what    *)
(* went out so far is the start of the buffer, which nobody repacks while it  *)
(* is on its way.                                                             *)
InStep ==
  /\ halted = "no"
  /\ avr_state.mode = "AVR_LINK_DOWN" => Ready
  /\ avr_state.mode \in {"AVR_WAIT_2MS", "AVR_WAIT_1MS"} => Ready \/ twi_state.mode = "TWI_FAILED"
  /\ twi_state.mode = "TWI_TX_BUSY" => avr_state.mode \in {"AVR_INIT", "AVR_SEND"}
  /\ twi_state.mode = "TWI_RX_BUSY" => avr_state.mode = "AVR_RECV"
  /\ wire.dir = "tx" =>
       got \o (IF wire.thr = NoByte THEN <<>> ELSE <<wire.thr>>)
         = SubSeq(memory[twi_state.buf], 1, twi_state.i - 1)

(* What the program reads of the AVR is what the AVR sent in the transfer just *)
(* ended, whole and uncorrupted: never the rest of an older one.               *)
StatusFresh ==
  from_avr' # from_avr => Len(sending) = 2 /\ from_avr' = Unpacked(sending)

(* Both directions of the link carry what was meant: packets out of step with *)
(* the state machine, or statuses of an older transfer, are never used.       *)
TransfersTrue == [][TypeOK' /\ InStep' /\ StatusFresh]_linkVars

(* The link never stops while the bus works, whatever statuses are corrupted: *)
(* it comes back to sending after every handshake.                            *)
LinkCycles ==
  <>[]Stuck \/ []<>(avr_state.mode = "AVR_SEND" /\ twi_state.mode = "TWI_TX_BUSY")

(* The last command the program leaves in to_avr reaches the AVR, the speed   *)
(* and the brakes of one moment, though the packet is built between the       *)
(* steps of nx__avr_set_motor; a request to power down is one of them.        *)
LastCommandArrives ==
  \/ <>[]Stuck
  \/ []<>(obeyed = to_avr)
  \/ []<><<to_avr' # to_avr>>_linkVars

Fairness ==
  /\ WF_linkVars(InitTwi) /\ WF_linkVars(InitLink)
  /\ WF_linkVars(Tick) /\ WF_linkVars(Isr)
  /\ WF_linkVars(BusOut) /\ WF_linkVars(BusIn)

Spec == Init /\ [][Next]_linkVars /\ Fairness
=============================================================================
