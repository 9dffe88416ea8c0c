--------------------------- MODULE AvrLinkProofs ---------------------------
(***************************************************************************)
(* Theorems about the link to the AVR and the TWI driver under it: the     *)
(* tick's state machine, the three parts of twi_isr and the bus stay in    *)
(* step, for any motors, speeds and statuses.                              *)
(***************************************************************************)
EXTENDS AvrLink, SequenceTheorems, TLAPS

---------------------------------------------------------------------------
(* The inductive invariant *)

Buffers == {"handshake", "raw_to_avr", "raw_from_avr"}
Directions == {"off", "tx", "rx"}
Parts == {"idle", "transmit", "errors"}

Commands == {Packed(c) : c \in Command}
Messages == {Handshake} \cup Commands

OutBytes == {NoByte} \cup {m[1] : m \in Messages} \cup {m[2] : m \in Messages}
InBytes == {NoByte, Bad} \cup {<<s, 1>> : s \in Statuses} \cup {<<s, 2>> : s \in Statuses}

Twis == [mode : TwiModes, buf : Buffers, i : 1..3, len : 0..2]
Isrs == [part : Parts, status : SUBSET Flags]
Wires == [dir : Directions, sr : SUBSET Flags, imr : SUBSET {"TXRDY", "RXRDY"},
          stop : BOOLEAN, thr : OutBytes, rhr : InBytes]
Links == [mode : AvrModes, failed : 0..3]

Shapes ==
    /\ twi_state \in Twis /\ twi_isr \in Isrs /\ wire \in Wires
    /\ got \in Seq(OutBytes) /\ Len(got) <= 2
    /\ sending \in Seq(InBytes) /\ Len(sending) <= 2
    /\ to_avr \in Command /\ obeyed \in Command
    /\ avr_state \in Links
    /\ avr_state.mode = "AVR_LINK_DOWN" \/ avr_state.failed < AVR_MAX_FAILED_CHECKSUMS

MemoryOK ==
    /\ DOMAIN memory = Buffers
    /\ memory["handshake"] = Handshake
    /\ \A b \in Buffers : \E x, y : memory[b] = <<x, y>>

\* A call of nx__avr_set_motor under way.
Writers == [step : {"load", "store"}, motor : MotorPorts, brake : BOOLEAN,
            loaded : SUBSET MotorPorts]
WriterOK == writer = Idle \/ writer.step = "powering down" \/ writer \in Writers

\* The status register and what twi_isr remembers of it.
Sr(t, r, n) ==
    /\ "TXRDY" \in wire.sr <=> t
    /\ "RXRDY" \in wire.sr <=> r
    /\ "NACK" \in wire.sr <=> n
    /\ "OVRE" \notin wire.sr

Refused == "NACK" \in twi_isr.status

IsrOK ==
    /\ "OVRE" \notin twi_isr.status
    /\ twi_isr.part = "idle" => twi_isr.status = {}
    /\ twi_isr.part = "transmit" => "TXRDY" \in twi_isr.status

Off ==
    /\ twi_state.mode = "TWI_UNINITIALIZED" /\ avr_state.mode = "AVR_UNINITIALIZED"
    /\ wire.dir = "off" /\ wire.imr = {} /\ wire.thr = NoByte /\ Sr(TRUE, FALSE, FALSE)
    /\ twi_isr.part = "idle"

\* What was read last is what the AVR sent, but for bytes the wire has spoilt.
Arrived ==
    \E s \in Statuses :
        /\ sending = BytesOf(s)
        /\ memory["raw_from_avr"][1] \in {<<s, 1>>, Bad}
        /\ memory["raw_from_avr"][2] \in {<<s, 2>>, Bad}

Rested ==
    /\ twi_state.mode = "TWI_READY"
    /\ wire.dir = "off" /\ wire.imr = {} /\ wire.thr = NoByte /\ Sr(TRUE, FALSE, FALSE)
    /\ Refused => /\ twi_isr.part = "errors"
                  /\ avr_state.mode \in {"AVR_INIT", "AVR_WAIT_2MS", "AVR_WAIT_1MS", "AVR_SEND"}
    /\ avr_state.mode = "AVR_RECV" => Arrived

Stage(i, stop, dir) ==
    /\ twi_state.i = i /\ twi_state.len = 3 - i /\ wire.stop = stop /\ wire.dir = dir

\* Byte by byte from THR to the far end.
Going ==
    LET m == memory[twi_state.buf] IN
    /\ ~Refused /\ Sr(wire.thr = NoByte, FALSE, FALSE)
    /\ twi_isr.part = "transmit" => wire.thr = NoByte
    /\ \/ Stage(1, FALSE, "tx") /\ wire.thr = NoByte /\ got = <<>>
       \/ Stage(2, FALSE, "tx") /\ wire.thr = m[1] /\ got = <<>>
       \/ Stage(2, FALSE, "tx") /\ wire.thr = NoByte /\ got = <<m[1]>>
       \/ Stage(3, TRUE, "tx") /\ wire.thr = m[2] /\ got = <<m[1]>>
       \/ Stage(3, TRUE, "off") /\ wire.thr = NoByte /\ got = <<m[1], m[2]>>

\* A byte was not acknowledged, and twi_isr is to find out.
Refusing ==
    /\ wire.dir = "off" /\ twi_state.i \in {2, 3} /\ twi_state.len = 3 - twi_state.i
    /\ \/ ~Refused /\ Sr(TRUE, FALSE, TRUE) /\ wire.thr = NoByte /\ twi_isr.part # "transmit"
       \/ Refused /\ Sr(TRUE, FALSE, FALSE) /\ wire.thr = NoByte /\ twi_isr.part = "transmit"
       \/ Refused /\ twi_isr.part = "errors"

Sending ==
    /\ twi_state.mode = "TWI_TX_BUSY" /\ wire.imr = {"TXRDY"}
    /\ \/ avr_state.mode = "AVR_INIT" /\ twi_state.buf = "handshake"
       \/ /\ avr_state.mode = "AVR_SEND" /\ twi_state.buf = "raw_to_avr"
          /\ memory["raw_to_avr"] \in Commands
    /\ Going \/ Refusing

\* Byte by byte from the far end to the buffer.
Reading ==
    /\ twi_state.mode = "TWI_RX_BUSY" /\ avr_state.mode = "AVR_RECV"
    /\ twi_state.buf = "raw_from_avr" /\ wire.imr = {"RXRDY"} /\ wire.thr = NoByte
    /\ Refused => twi_isr.part = "errors"
    /\ \/ Stage(1, FALSE, "rx") /\ Sr(TRUE, FALSE, FALSE) /\ sending = <<>>
       \/ Stage(1, FALSE, "off") /\ Sr(TRUE, FALSE, TRUE) /\ sending = <<>>
       \/ \E s \in Statuses :
              \/ /\ Stage(1, FALSE, "rx") /\ Sr(TRUE, TRUE, FALSE)
                 /\ sending = << <<s, 1>> >> /\ wire.rhr \in {<<s, 1>>, Bad}
              \/ /\ Stage(2, TRUE, "rx") /\ Sr(TRUE, FALSE, FALSE)
                 /\ sending = << <<s, 1>> >> /\ memory["raw_from_avr"][1] \in {<<s, 1>>, Bad}
              \/ /\ Stage(2, TRUE, "off") /\ Sr(TRUE, TRUE, FALSE)
                 /\ sending = BytesOf(s) /\ memory["raw_from_avr"][1] \in {<<s, 1>>, Bad}
                 /\ wire.rhr \in {<<s, 2>>, Bad}

Broken ==
    /\ twi_state.mode = "TWI_FAILED"
    /\ wire.dir # "tx" /\ wire.imr = {} /\ twi_isr.part = "idle"
    /\ avr_state.mode \notin {"AVR_UNINITIALIZED", "AVR_LINK_DOWN"}

LinkInv ==
    /\ Shapes /\ MemoryOK /\ WriterOK /\ IsrOK
    /\ halted = "no"
    /\ Off \/ Rested \/ Sending \/ Reading \/ Broken
---------------------------------------------------------------------------
(* What the steps need of the bytes *)

LEMMA PutFirst == \A x : Append(<<>>, x) = <<x>>
<1> QED
    OBVIOUS

LEMMA PutSecond == \A x, y : Append(<<x>>, y) = <<x, y>>
<1> TAKE x, y
<1> DEFINE S == {x, y}
           s == Append(<<x>>, y)
<1>1. <<x>> \in Seq(S) /\ y \in S
    OBVIOUS
<1>2. s \in Seq(S) /\ Len(s) = 2 /\ s[1] = x /\ s[2] = y
    BY <1>1
<1>3. <<x, y>> \in Seq(S) /\ Len(<<x, y>>) = 2
    OBVIOUS
<1> HIDE DEF s, S
<1>4. \A i \in 1 .. Len(s) : s[i] = <<x, y>>[i]
    BY <1>2
<1>5. s = <<x, y>>
    BY <1>2, <1>3, <1>4, SeqEqual
<1> QED
    BY <1>5 DEF s

LEMMA FirstOf == \A x, y, z : <<z>> = SubSeq(<<x, y>>, 1, 1) => z = x
<1> TAKE x, y, z
<1> DEFINE S == {x, y}
           s == <<x, y>>
<1>1. s \in Seq(S) /\ Len(s) = 2 /\ s[1] = x
    OBVIOUS
<1> HIDE DEF s
<1>2. SubSeq(s, 1, 1)[1] = s[1]
    BY <1>1, SubSeqProperties
<1> QED
    BY <1>1, <1>2 DEF s

LEMMA WhatIsSent ==
    ASSUME LinkInv, Sending
    PROVE  /\ memory[twi_state.buf] \in Messages
           /\ \E x, y : memory[twi_state.buf] = <<x, y>>
<1>1. twi_state.buf \in Buffers
    BY DEF LinkInv, Shapes, Twis
<1>2. memory["handshake"] = Handshake
    BY DEF LinkInv, MemoryOK
<1>3. memory[twi_state.buf] \in Messages
    BY <1>2 DEF Sending, Messages
<1> QED
    BY <1>1, <1>3 DEF LinkInv, MemoryOK

LEMMA MessageBytes ==
    ASSUME NEW m \in Messages
    PROVE  /\ m[1] \in OutBytes /\ m[2] \in OutBytes
           /\ m[1] # NoByte /\ m[2] # NoByte /\ Len(m) = 2
<1>1. CASE m = Handshake
    BY <1>1, BytesAssumption DEF Handshake, Messages, OutBytes
<1>2. ASSUME NEW c \in Command, m = Packed(c)
      PROVE  m[1] # NoByte /\ m[2] # NoByte /\ Len(m) = 2
    <2>1. m[1] # NoByte /\ m[2] # NoByte
        BY <1>2, BytesAssumption
    <2>2. Len(m) = 2
        BY <1>2 DEF Packed
    <2> QED
        BY <2>1, <2>2
<1>3. m[1] \in OutBytes /\ m[2] \in OutBytes
    BY DEF OutBytes
<1> QED
    BY <1>1, <1>2, <1>3 DEF Messages, Commands

---------------------------------------------------------------------------
(* The steps of the controller *)

\* Only a transfer under way puts bytes on the bus.
LEMMA OnTheWay ==
    ASSUME LinkInv, wire.dir = "tx", wire.thr # NoByte
    PROVE  Sending /\ Going
<1>1. ~Off /\ ~Rested /\ ~Reading /\ ~Broken
    BY DEF Off, Rested, Reading, Broken
<1>2. Sending
    BY <1>1 DEF LinkInv
<1>3. ~Refusing
    BY DEF Refusing
<1> QED
    BY <1>2, <1>3 DEF Sending

LEMMA WireOutKeeps ==
    ASSUME LinkInv, WireOut, UNCHANGED <<to_avr, avr_state, writer, halted>>,
           obeyed' \in Command
    PROVE  LinkInv'
<1> DEFINE m == memory[twi_state.buf]
<1>1. Sending /\ Going
    BY OnTheWay DEF WireOut
<1>2. /\ wire \in Wires /\ got \in Seq(OutBytes) /\ twi_isr \in Isrs
    BY DEF LinkInv, Shapes
<1>3. m \in Messages /\ m[1] # NoByte /\ m[2] # NoByte
    BY <1>1, WhatIsSent, MessageBytes
<1>4. /\ wire'.thr = NoByte /\ wire'.rhr = wire.rhr /\ wire'.stop = wire.stop
      /\ wire'.sr = wire.sr \cup {"TXRDY"} /\ wire'.imr = wire.imr
      /\ wire'.dir = IF wire.stop THEN "off" ELSE "tx"
    BY <1>2 DEF WireOut, Wires
<1>5. NoByte \in OutBytes /\ wire.thr \in OutBytes
    BY <1>2 DEF OutBytes, Wires
<1>6. wire' \in Wires
    BY <1>2, <1>5 DEF WireOut, Wires, Directions, Flags
<1>7. UNCHANGED <<twi_state, memory, twi_isr, sending>>
    BY DEF WireOut
<1>8. got' = Append(got, wire.thr)
    BY DEF WireOut
<1>9. \/ twi_state.i = 2 /\ twi_state.len = 1 /\ wire.stop = FALSE /\ wire.thr = m[1] /\ got = <<>>
      \/ twi_state.i = 3 /\ twi_state.len = 0 /\ wire.stop = TRUE /\ wire.thr = m[2] /\ got = <<m[1]>>
    BY <1>1 DEF Going, Stage, WireOut
<1>10. got' \in Seq(OutBytes) /\ Len(got') <= 2
    BY <1>2, <1>5, <1>8, <1>9
<1>11. Shapes'
    BY <1>6, <1>7, <1>10 DEF LinkInv, Shapes
<1>12. Sr(TRUE, FALSE, FALSE)'
    BY <1>1, <1>4 DEF Going, Sr
<1>13. Going'
    <2>1. /\ ~Refused' /\ (wire.thr = NoByte)' = TRUE
          /\ (twi_isr.part = "transmit" => wire.thr = NoByte)'
        BY <1>1, <1>4, <1>7 DEF Going, Refused
    <2>2. Sr(wire.thr = NoByte, FALSE, FALSE)'
        BY <1>4, <1>12 DEF Sr
    <2>3. memory[twi_state.buf]' = m /\ twi_state' = twi_state
        BY <1>7
    <2>4. CASE wire.stop = FALSE
        <3>1. Stage(2, FALSE, "tx")'
            BY <1>4, <1>7, <1>9, <2>4 DEF Stage
        <3>2. got' = <<m[1]>>
            BY <1>8, <1>9, <2>4, PutFirst
        <3> QED
            BY <1>4, <2>1, <2>2, <2>3, <3>1, <3>2 DEF Going
    <2>5. CASE wire.stop = TRUE
        <3>1. Stage(3, TRUE, "off")'
            BY <1>4, <1>7, <1>9, <2>5 DEF Stage
        <3>2. got' = <<m[1], m[2]>>
            BY <1>8, <1>9, <2>5, PutSecond
        <3> QED
            BY <1>4, <2>1, <2>2, <2>3, <3>1, <3>2 DEF Going
    <2> QED
        BY <1>9, <2>4, <2>5
<1>14. Sending'
    BY <1>1, <1>4, <1>7, <1>13 DEF Sending
<1> QED
    BY <1>7, <1>11, <1>14 DEF LinkInv, MemoryOK, WriterOK, IsrOK

LEMMA WireOutNackKeeps ==
    ASSUME LinkInv, WireOutNack, UNCHANGED <<to_avr, avr_state, writer, halted>>,
           obeyed' \in Command
    PROVE  LinkInv'
<1>1. Sending /\ Going
    BY OnTheWay DEF WireOutNack
<1>2. wire \in Wires
    BY DEF LinkInv, Shapes
<1>3. /\ wire'.thr = NoByte /\ wire'.dir = "off" /\ wire'.imr = wire.imr
      /\ wire'.sr = wire.sr \cup {"TXRDY", "NACK"}
    BY <1>2 DEF WireOutNack, Wires
<1>4. wire' \in Wires
    BY <1>2 DEF WireOutNack, Wires, Directions, Flags, OutBytes
<1>5. UNCHANGED <<twi_state, memory, twi_isr, got, sending>>
    BY DEF WireOutNack
<1>6. Shapes'
    BY <1>4, <1>5 DEF LinkInv, Shapes
<1>7. Sr(TRUE, FALSE, TRUE)'
    BY <1>1, <1>3 DEF Going, Sr
<1>8. twi_state.i \in {2, 3} /\ twi_state.len = 3 - twi_state.i
    BY <1>1 DEF Going, Stage, WireOutNack
<1>9. ~Refused' /\ twi_isr'.part # "transmit"
    BY <1>1, <1>5 DEF Going, Refused, WireOutNack
<1>10. Refusing'
    BY <1>3, <1>5, <1>7, <1>8, <1>9 DEF Refusing
<1>11. Sending'
    BY <1>1, <1>3, <1>5, <1>10 DEF Sending
<1> QED
    BY <1>5, <1>6, <1>11 DEF LinkInv, MemoryOK, WriterOK, IsrOK

LEMMA WireInKeeps ==
    ASSUME LinkInv, "overrun" \notin Faults, NEW status \in Statuses,
           WireIn(BytesOf(status)),
           UNCHANGED <<to_avr, avr_state, obeyed, writer, halted>>
    PROVE  LinkInv'
<1> DEFINE b == BytesOf(status)
           byte == IF Len(sending) < Len(b) THEN b[Len(sending) + 1] ELSE Bad
<1>0. b = << <<status, 1>>, <<status, 2>> >> /\ Len(b) = 2
    BY DEF BytesOf
<1>1. wire \in Wires /\ sending \in Seq(InBytes) /\ Len(sending) <= 2
    BY DEF LinkInv, Shapes
<1>2. /\ wire.dir = "rx" /\ "RXRDY" \notin wire.sr
      /\ sending = SubSeq(b, 1, Len(sending))
    BY DEF WireIn
<1>3. PICK x \in {byte, Bad} :
        wire' = [wire EXCEPT !.rhr = x, !.sr = wire.sr \cup {"RXRDY"},
                             !.dir = IF wire.stop THEN "off" ELSE wire.dir]
    BY <1>2 DEF WireIn
<1>4. UNCHANGED <<twi_state, memory, twi_isr, got>>
    BY DEF WireIn
<1>5. sending' = IF Len(sending) < 2 THEN Append(sending, byte) ELSE sending
    BY <1>0 DEF WireIn
<1>6. byte \in InBytes /\ x \in InBytes
    BY <1>0, <1>1 DEF InBytes
<1> HIDE DEF byte
<1>7. wire' \in Wires
    BY <1>1, <1>3, <1>6 DEF Wires, Directions, Flags
<1>8. /\ wire'.rhr = x /\ wire'.sr = wire.sr \cup {"RXRDY"} /\ wire'.stop = wire.stop
      /\ wire'.dir = (IF wire.stop THEN "off" ELSE "rx")
      /\ wire'.imr = wire.imr /\ wire'.thr = wire.thr
    BY <1>1, <1>2, <1>3 DEF Wires
<1>9. sending' \in Seq(InBytes) /\ Len(sending') <= 2
    BY <1>1, <1>5, <1>6
<1>10. Shapes'
    BY <1>4, <1>7, <1>9 DEF LinkInv, Shapes
<1>11. ~Off /\ ~Rested
    BY <1>2 DEF Off, Rested
<1>15. MemoryOK' /\ WriterOK' /\ IsrOK' /\ halted' = "no"
    BY <1>4 DEF LinkInv, MemoryOK, WriterOK, IsrOK
<1>12. CASE Broken
    <2>1. Broken'
        BY <1>2, <1>4, <1>8, <1>12 DEF Broken
    <2> QED
        BY <1>10, <1>15, <2>1 DEF LinkInv
<1>13. ~Sending
    BY <1>2 DEF Sending, Going, Refusing, Stage
<1>14. CASE Reading
    <2>5. /\ (twi_state.mode = "TWI_RX_BUSY" /\ avr_state.mode = "AVR_RECV")'
          /\ (twi_state.buf = "raw_from_avr" /\ wire.imr = {"RXRDY"} /\ wire.thr = NoByte)'
          /\ (Refused => twi_isr.part = "errors")'
        BY <1>4, <1>8, <1>14 DEF Reading, Refused
    <2>1. ASSUME Stage(1, FALSE, "rx") /\ Sr(TRUE, FALSE, FALSE) /\ sending = <<>>
          PROVE  Reading'
        <3>1. byte = <<status, 1>>
            BY <1>0, <2>1 DEF byte
        <3>2. sending' = << <<status, 1>> >>
            BY <1>5, <2>1, <3>1, PutFirst
        <3>3. Stage(1, FALSE, "rx")' /\ Sr(TRUE, TRUE, FALSE)'
            BY <1>4, <1>8, <2>1 DEF Stage, Sr
        <3>4. wire'.rhr \in {<<status, 1>>, Bad}
            BY <1>8, <3>1
        <3> QED
            BY <2>5, <3>2, <3>3, <3>4 DEF Reading
    <2>2. ASSUME NEW s \in Statuses, Stage(2, TRUE, "rx"), Sr(TRUE, FALSE, FALSE),
                 sending = << <<s, 1>> >>, memory["raw_from_avr"][1] \in {<<s, 1>>, Bad}
          PROVE  Reading'
        <3>1. s = status
            BY <1>0, <1>2, <2>2, FirstOf
        <3>2. byte = <<s, 2>>
            BY <1>0, <2>2, <3>1 DEF byte
        <3>3. sending' = << <<s, 1>>, <<s, 2>> >>
            BY <1>5, <2>2, <3>2, PutSecond
        <3>4. Stage(2, TRUE, "off")' /\ Sr(TRUE, TRUE, FALSE)'
            BY <1>4, <1>8, <2>2 DEF Stage, Sr
        <3>5. wire'.rhr \in {<<s, 2>>, Bad}
            BY <1>8, <3>2
        <3>6. sending' = BytesOf(s)
            BY <3>3 DEF BytesOf
        <3>8. memory'["raw_from_avr"][1] \in {<<s, 1>>, Bad}
            BY <1>4, <2>2
        <3> QED
            BY <2>5, <3>4, <3>5, <3>6, <3>8 DEF Reading
    <2>3. \/ Stage(1, FALSE, "rx") /\ Sr(TRUE, FALSE, FALSE) /\ sending = <<>>
          \/ \E s \in Statuses :
                /\ Stage(2, TRUE, "rx") /\ Sr(TRUE, FALSE, FALSE)
                /\ sending = << <<s, 1>> >> /\ memory["raw_from_avr"][1] \in {<<s, 1>>, Bad}
        <3>1. ~Stage(1, FALSE, "off") /\ ~Stage(2, TRUE, "off")
            BY <1>2 DEF Stage
        <3>2. ~Sr(TRUE, TRUE, FALSE)
            BY <1>2 DEF Sr
        <3> QED
            BY <1>14, <3>1, <3>2 DEF Reading
    <2>4. Reading'
        <3>1. CASE Stage(1, FALSE, "rx") /\ Sr(TRUE, FALSE, FALSE) /\ sending = <<>>
            BY <2>1, <3>1
        <3>2. ASSUME NEW s \in Statuses, 
                     /\ Stage(2, TRUE, "rx") /\ Sr(TRUE, FALSE, FALSE)
                     /\ sending = << <<s, 1>> >> /\ memory["raw_from_avr"][1] \in {<<s, 1>>, Bad}
              PROVE  Reading'
            BY <2>2, <3>2, Zenon
        <3> QED
            BY <2>3, <3>1, <3>2, Zenon
    <2> QED
        BY <1>10, <1>15, <2>4 DEF LinkInv
<1> QED
    BY <1>11, <1>12, <1>13, <1>14 DEF LinkInv

LEMMA WireInNackKeeps ==
    ASSUME LinkInv, WireInNack, UNCHANGED <<to_avr, avr_state, obeyed, writer, halted>>
    PROVE  LinkInv'
<1>1. wire \in Wires
    BY DEF LinkInv, Shapes
<1>2. wire.dir = "rx" /\ sending = <<>>
    BY DEF WireInNack
<1>3. /\ wire'.thr = wire.thr /\ wire'.dir = "off" /\ wire'.imr = wire.imr
      /\ wire'.sr = wire.sr \cup {"NACK"} /\ wire'.stop = wire.stop
    BY <1>1 DEF WireInNack, Wires
<1>4. wire' \in Wires
    BY <1>1 DEF WireInNack, Wires, Directions, Flags
<1>5. UNCHANGED <<twi_state, memory, twi_isr, got, sending>>
    BY DEF WireInNack
<1>6. Shapes'
    BY <1>4, <1>5 DEF LinkInv, Shapes
<1>7. ~Off /\ ~Rested
    BY <1>2 DEF Off, Rested
<1>8. CASE Broken
    <2>1. Broken'
        BY <1>3, <1>5, <1>8 DEF Broken
    <2> QED
        BY <1>5, <1>6, <2>1 DEF LinkInv, MemoryOK, WriterOK, IsrOK
<1>9. ~Sending
    BY <1>2 DEF Sending, Going, Refusing, Stage
<1>10. CASE Reading
    <2>1. Stage(1, FALSE, "rx") /\ Sr(TRUE, FALSE, FALSE)
        BY <1>2, <1>10 DEF Reading, BytesOf, Stage
    <2>2. Stage(1, FALSE, "off")' /\ Sr(TRUE, FALSE, TRUE)'
        BY <1>3, <1>5, <2>1 DEF Stage, Sr
    <2>3. Reading'
        BY <1>2, <1>3, <1>5, <1>10, <2>2 DEF Reading, Refused
    <2> QED
        BY <1>5, <1>6, <2>3 DEF LinkInv, MemoryOK, WriterOK, IsrOK
<1> QED
    BY <1>7, <1>8, <1>9, <1>10 DEF LinkInv

---------------------------------------------------------------------------
(* The three parts of twi_isr *)

\* Storing into a buffer of two bytes.
LEMMA StoreFirst == \A x, y, z : [<<x, y>> EXCEPT ![1] = z] = <<z, y>>
<1> QED
    OBVIOUS

LEMMA StoreSecond == \A x, y, z : [<<x, y>> EXCEPT ![2] = z] = <<x, z>>
<1> QED
    OBVIOUS

LEMMA ReceiveWhileSending ==
    ASSUME LinkInv, Sending, IsrReceive, UNCHANGED <<to_avr, avr_state, obeyed, writer, halted>>
    PROVE  LinkInv'
<1>1. wire \in Wires /\ twi_isr \in Isrs
    BY DEF LinkInv, Shapes
<1>2. /\ twi_state.mode = "TWI_TX_BUSY" /\ "TXRDY" \in wire.sr /\ wire.imr = {"TXRDY"}
      /\ twi_isr.part = "idle"
    BY DEF Sending, IsrReceive
<1>3. /\ UNCHANGED <<memory, twi_state, got, sending>>
      /\ wire' = [wire EXCEPT !.sr = wire.sr \ {"NACK", "OVRE"}]
      /\ twi_isr' = [part |-> "transmit", status |-> wire.sr]
    BY <1>2 DEF IsrReceive
<1>4. /\ wire'.sr = wire.sr \ {"NACK", "OVRE"} /\ wire'.imr = wire.imr
      /\ wire'.dir = wire.dir /\ wire'.stop = wire.stop /\ wire'.thr = wire.thr
    BY <1>1, <1>3 DEF Wires
<1>5. wire' \in Wires
    BY <1>1, <1>3 DEF Wires
<1>6. twi_isr' \in Isrs
    BY <1>1, <1>3 DEF Wires, Isrs, Parts
<1>7. Shapes'
    BY <1>3, <1>5, <1>6 DEF LinkInv, Shapes
<1>8. MemoryOK' /\ WriterOK' /\ halted' = "no"
    BY <1>3 DEF LinkInv, MemoryOK, WriterOK
<1>9. /\ twi_isr'.part = "transmit" /\ twi_isr'.status = wire.sr
      /\ Refused' <=> "NACK" \in wire.sr
    BY <1>3 DEF Refused
<1>10. ASSUME "OVRE" \notin wire.sr
       PROVE  IsrOK'
    BY <1>2, <1>9, <1>10 DEF IsrOK
<1>11. ASSUME Going
       PROVE  Going' /\ "OVRE" \notin wire.sr
    <2>1. Sr(wire.thr = NoByte, FALSE, FALSE)
        BY <1>11 DEF Going
    <2>2. Sr(wire.thr = NoByte, FALSE, FALSE)' /\ wire.thr = NoByte /\ ~Refused'
        BY <1>2, <1>4, <1>9, <2>1 DEF Sr
    <2> QED
        BY <1>3, <1>4, <1>9, <1>11, <2>1, <2>2 DEF Going, Sr, Stage
<1>12. ASSUME Refusing
       PROVE  Refusing' /\ "OVRE" \notin wire.sr
    <2>1. Sr(TRUE, FALSE, TRUE) /\ wire.thr = NoByte
        BY <1>2, <1>12 DEF Refusing
    <2>2. Sr(TRUE, FALSE, FALSE)' /\ Refused'
        BY <1>4, <1>9, <2>1 DEF Sr
    <2> QED
        BY <1>3, <1>4, <1>9, <1>12, <2>1, <2>2 DEF Refusing, Sr
<1>13. Sending' /\ "OVRE" \notin wire.sr
    BY <1>3, <1>4, <1>11, <1>12 DEF Sending
<1> QED
    BY <1>7, <1>8, <1>10, <1>13 DEF LinkInv

LEMMA ReceiveWhileReading ==
    ASSUME LinkInv, Reading, IsrReceive, UNCHANGED <<to_avr, avr_state, obeyed, writer, halted>>
    PROVE  LinkInv'
<1> DEFINE raw == memory["raw_from_avr"]
<1>1. wire \in Wires /\ twi_isr \in Isrs /\ twi_state \in Twis
    BY DEF LinkInv, Shapes
<1>2. /\ twi_state.mode = "TWI_RX_BUSY" /\ "RXRDY" \in wire.sr /\ wire.imr = {"RXRDY"}
      /\ twi_isr.part = "idle" /\ twi_state.buf = "raw_from_avr"
    BY DEF Reading, IsrReceive
<1>3. PICK s \in Statuses :
         \/ /\ Stage(1, FALSE, "rx") /\ Sr(TRUE, TRUE, FALSE)
            /\ sending = << <<s, 1>> >> /\ wire.rhr \in {<<s, 1>>, Bad}
         \/ /\ Stage(2, TRUE, "off") /\ Sr(TRUE, TRUE, FALSE)
            /\ sending = BytesOf(s) /\ raw[1] \in {<<s, 1>>, Bad}
            /\ wire.rhr \in {<<s, 2>>, Bad}
    <2>1. ~Sr(TRUE, FALSE, FALSE) /\ ~Sr(TRUE, FALSE, TRUE)
        BY <1>2 DEF Sr
    <2> QED
        BY <2>1 DEF Reading
<1> DEFINE left == twi_state.len - 1
<1>4. /\ twi_isr' = [part |-> "transmit", status |-> wire.sr]
      /\ memory' = [memory EXCEPT !["raw_from_avr"] = [raw EXCEPT ![twi_state.i] = wire.rhr]]
      /\ twi_state' = [twi_state EXCEPT !.i = twi_state.i + 1, !.len = left,
                          !.mode = IF left = 0 THEN "TWI_READY" ELSE twi_state.mode]
      /\ wire' = [wire EXCEPT !.sr = (wire.sr \ {"NACK", "OVRE"}) \ {"RXRDY"}, !.rhr = NoByte,
                              !.stop = wire.stop \/ left = 1,
                              !.imr = IF left = 0 THEN {} ELSE wire.imr]
      /\ UNCHANGED <<got, sending>>
    BY <1>2 DEF IsrReceive
<1>5. (twi_state.i = 1 /\ twi_state.len = 2) \/ (twi_state.i = 2 /\ twi_state.len = 1)
    <2>1. Stage(1, FALSE, "rx") \/ Stage(2, TRUE, "off")
        BY <1>3
    <2> QED
        BY <2>1 DEF Stage
<1>6. /\ twi_isr'.part = "transmit" /\ twi_isr'.status = wire.sr /\ twi_isr' \in Isrs
    BY <1>1, <1>4 DEF Isrs, Parts, Wires
<1>7. /\ wire'.sr = (wire.sr \ {"NACK", "OVRE"}) \ {"RXRDY"} /\ wire'.rhr = NoByte
      /\ wire'.stop = (wire.stop \/ left = 1) /\ wire'.dir = wire.dir /\ wire'.thr = wire.thr
      /\ wire'.imr = IF left = 0 THEN {} ELSE wire.imr
    BY <1>1, <1>4 DEF Wires
<1>8. /\ twi_state'.i = twi_state.i + 1 /\ twi_state'.len = left /\ twi_state'.buf = "raw_from_avr"
      /\ twi_state'.mode = IF left = 0 THEN "TWI_READY" ELSE "TWI_RX_BUSY"
    BY <1>1, <1>2, <1>4 DEF Twis
<1>9. wire' \in Wires
    BY <1>1, <1>4 DEF Wires, InBytes
<1>10. twi_state' \in Twis
    <2>1. (IF left = 0 THEN "TWI_READY" ELSE twi_state.mode) \in TwiModes
        BY <1>1 DEF Twis, TwiModes
    <2>2. left \in 0 .. 2 /\ twi_state.i + 1 \in 1 .. 3
        BY <1>5
    <2> HIDE DEF left
    <2> QED
        BY <1>1, <1>4, <2>1, <2>2 DEF Twis
<1>11. Shapes'
    BY <1>4, <1>6, <1>9, <1>10 DEF LinkInv, Shapes
<1>12. PICK x, y : raw = <<x, y>>
    BY DEF LinkInv, MemoryOK, Buffers
<1>13. memory'["raw_from_avr"] = [raw EXCEPT ![twi_state.i] = wire.rhr]
    BY <1>4 DEF LinkInv, MemoryOK, Buffers
<1>14. memory'["raw_from_avr"] = IF twi_state.i = 1 THEN <<wire.rhr, y>> ELSE <<x, wire.rhr>>
    BY <1>5, <1>12, <1>13, StoreFirst, StoreSecond
<1>15. MemoryOK'
    <2>1. \A b \in Buffers \ {"raw_from_avr"} : memory'[b] = memory[b]
        BY <1>4 DEF LinkInv, MemoryOK
    <2>2. DOMAIN memory' = Buffers
        BY <1>4 DEF LinkInv, MemoryOK
    <2>3. "handshake" \in Buffers \ {"raw_from_avr"}
        BY DEF Buffers
    <2>4. \E v, w : memory'["raw_from_avr"] = <<v, w>>
        BY <1>14
    <2>5. \A b \in Buffers : \E v, w : memory'[b] = <<v, w>>
        BY <2>1, <2>4 DEF LinkInv, MemoryOK
    <2>6. memory'["handshake"] = Handshake'
        BY <2>1, <2>3 DEF LinkInv, MemoryOK
    <2> QED
        BY <2>2, <2>5, <2>6 DEF MemoryOK
<1>16. Sr(TRUE, TRUE, FALSE) /\ wire.thr = NoByte /\ avr_state.mode = "AVR_RECV"
    BY <1>3 DEF Reading
<1>17. WriterOK' /\ halted' = "no" /\ avr_state'.mode = "AVR_RECV"
    BY <1>16 DEF LinkInv, WriterOK
<1>18. Sr(TRUE, FALSE, FALSE)' /\ IsrOK' /\ ~Refused' /\ wire'.thr = NoByte
    BY <1>6, <1>7, <1>16 DEF Sr, IsrOK, Refused
<1>19. ASSUME twi_state.i = 1
       PROVE  Reading'
    <2>1. Stage(1, FALSE, "rx") /\ sending = << <<s, 1>> >> /\ wire.rhr \in {<<s, 1>>, Bad}
        BY <1>3, <1>19 DEF Stage
    <2>2. Stage(2, TRUE, "rx")' /\ wire'.imr = {"RXRDY"} /\ twi_state'.mode = "TWI_RX_BUSY"
        <3>1. left = 1
            BY <1>5, <1>19
        <3> HIDE DEF left
        <3>2. wire'.imr = {"RXRDY"} /\ twi_state'.mode = "TWI_RX_BUSY"
            BY <1>2, <1>7, <1>8, <3>1
        <3>5. wire'.stop = TRUE
            <4>1. wire'.stop = (wire.stop \/ left = 1)
                BY <1>7
            <4>2. (wire.stop \/ left = 1) = TRUE
                BY <3>1
            <4> QED
                BY <4>1, <4>2, Zenon
        <3>3. twi_state'.i = 2 /\ twi_state'.len = 1
            BY <1>8, <1>19, <3>1
        <3>4. wire'.dir = "rx"
            BY <1>7, <2>1 DEF Stage
        <3> QED
            BY <3>2, <3>3, <3>4, <3>5 DEF Stage
    <2>3. sending' = << <<s, 1>> >> /\ memory'["raw_from_avr"][1] \in {<<s, 1>>, Bad}
        BY <1>4, <1>14, <1>19, <2>1
    <2> QED
        BY <1>8, <1>17, <1>18, <2>2, <2>3 DEF Reading
<1>20. ASSUME twi_state.i = 2
       PROVE  Rested'
    <2>1. /\ Stage(2, TRUE, "off") /\ sending = BytesOf(s) /\ raw[1] \in {<<s, 1>>, Bad}
          /\ wire.rhr \in {<<s, 2>>, Bad}
        BY <1>3, <1>20 DEF Stage
    <2>2. wire'.dir = "off" /\ wire'.imr = {} /\ twi_state'.mode = "TWI_READY"
        BY <1>5, <1>7, <1>8, <1>20, <2>1 DEF Stage
    <2>3. memory'["raw_from_avr"] = <<x, wire.rhr>> /\ raw[1] = x
        BY <1>12, <1>14, <1>20
    <2>4. sending' = BytesOf(s)
        BY <1>4, <2>1
    <2>5. Arrived'
        BY <2>1, <2>3, <2>4 DEF Arrived
    <2> QED
        BY <1>17, <1>18, <2>2, <2>5 DEF Rested
<1> QED
    BY <1>5, <1>11, <1>15, <1>17, <1>18, <1>19, <1>20 DEF LinkInv

LEMMA IsrReceiveKeeps ==
    ASSUME LinkInv, IsrReceive, UNCHANGED <<to_avr, avr_state, obeyed, writer, halted>>
    PROVE  LinkInv'
<1>1. ~Off /\ ~Rested /\ ~Broken
    BY DEF Off, Rested, Broken, IsrReceive
<1> QED
    BY <1>1, ReceiveWhileSending, ReceiveWhileReading DEF LinkInv

LEMMA TransmitWhileSending ==
    ASSUME LinkInv, Sending, IsrTransmit, UNCHANGED <<to_avr, avr_state, obeyed, writer, halted>>
    PROVE  LinkInv'
<1> DEFINE m == memory[twi_state.buf]
           byte == m[twi_state.i]
<1>1. wire \in Wires /\ twi_isr \in Isrs /\ twi_state \in Twis
    BY DEF LinkInv, Shapes
<1>2. /\ twi_isr.part = "transmit" /\ "TXRDY" \in twi_isr.status
      /\ twi_state.mode = "TWI_TX_BUSY"
    BY DEF IsrTransmit, LinkInv, IsrOK, Sending
<1>3. /\ twi_isr' = [twi_isr EXCEPT !.part = "errors"]
      /\ UNCHANGED <<memory, got, sending>>
    BY DEF IsrTransmit
<1>4. /\ twi_isr'.part = "errors" /\ twi_isr'.status = twi_isr.status /\ twi_isr' \in Isrs
      /\ Refused' <=> Refused
    BY <1>1, <1>3 DEF Isrs, Parts, Refused
<1>5. IsrOK' /\ MemoryOK' /\ WriterOK' /\ halted' = "no"
    BY <1>2, <1>3, <1>4 DEF LinkInv, MemoryOK, WriterOK, IsrOK
<1>6. m \in Messages /\ m[1] \in OutBytes /\ m[2] \in OutBytes /\ m[1] # NoByte /\ m[2] # NoByte
    BY WhatIsSent, MessageBytes
<1>7. /\ twi_state.i \in 1 .. 3 /\ twi_state.len = 3 - twi_state.i
      /\ wire.thr = NoByte /\ Sr(TRUE, FALSE, FALSE)
    BY <1>2 DEF Sending, Going, Refusing, Stage, Sr
<1>8. ASSUME twi_state.len = 0
      PROVE  LinkInv'
    <2>1. /\ twi_state' = [twi_state EXCEPT !.mode = "TWI_READY"]
          /\ wire' = [wire EXCEPT !.imr = {}]
        BY <1>2, <1>8 DEF IsrTransmit
    <2>2. /\ twi_state' \in Twis /\ twi_state'.mode = "TWI_READY"
        BY <1>1, <2>1 DEF Twis, TwiModes
    <2>3. wire' \in Wires /\ wire'.dir = wire.dir /\ wire'.imr = {} /\ wire'.thr = wire.thr /\ wire'.sr = wire.sr
        BY <1>1, <2>1 DEF Wires
    <2>4. Shapes'
        BY <1>3, <1>4, <2>2, <2>3 DEF LinkInv, Shapes
    <2>5. wire.dir = "off"
        <3>1. Going => wire.dir = "off"
            BY <1>7, <1>8, <1>6 DEF Going, Stage
        <3> QED
            BY <3>1 DEF Sending, Refusing
    <2>6. avr_state'.mode \in {"AVR_INIT", "AVR_SEND"}
        BY DEF Sending
    <2>7. Rested'
        BY <1>4, <1>7, <2>2, <2>3, <2>5, <2>6 DEF Rested, Sr
    <2> QED
        BY <1>5, <2>4, <2>7 DEF LinkInv
<1>9. ASSUME twi_state.len # 0
      PROVE  LinkInv'
    <2>1. /\ twi_state' = [twi_state EXCEPT !.i = twi_state.i + 1, !.len = twi_state.len - 1]
          /\ wire' = [wire EXCEPT !.stop = wire.stop \/ twi_state.len = 1,
                                  !.thr = byte, !.sr = wire.sr \ {"TXRDY"}]
        BY <1>2, <1>9 DEF IsrTransmit
    <2>2. /\ twi_state' \in Twis /\ twi_state'.mode = twi_state.mode /\ twi_state'.buf = twi_state.buf
          /\ twi_state'.i = twi_state.i + 1 /\ twi_state'.len = twi_state.len - 1
        <3>1. twi_state.i + 1 \in 1 .. 3 /\ twi_state.len - 1 \in 0 .. 2
            BY <1>7, <1>9
        <3> QED
            BY <1>1, <2>1, <3>1 DEF Twis
    <2>3. byte = (IF twi_state.i = 1 THEN m[1] ELSE m[2]) /\ byte \in OutBytes /\ byte # NoByte
        BY <1>6, <1>7, <1>9
    <2> HIDE DEF byte
    <2>4. wire' \in Wires /\ wire'.dir = wire.dir /\ wire'.imr = wire.imr /\ wire'.thr = byte
          /\ wire'.sr = wire.sr \ {"TXRDY"}
        BY <1>1, <2>1, <2>3 DEF Wires
    <2>5. Shapes'
        BY <1>3, <1>4, <2>2, <2>4 DEF LinkInv, Shapes
    <2>6. ASSUME Going
          PROVE  Going'
        <3>1. Sr(FALSE, FALSE, FALSE)' /\ ~Refused'
            BY <1>4, <1>7, <2>4, <2>6 DEF Going, Sr
        <3>2. wire'.stop = (wire.stop \/ twi_state.len = 1)
            BY <1>1, <2>1 DEF Wires
        <3>3. ASSUME twi_state.i = 1
              PROVE  Going'
            <4>1. Stage(1, FALSE, "tx") /\ got = <<>> /\ twi_state.len = 2
                BY <1>7, <2>6, <3>3 DEF Going, Stage
            <4>2. wire'.stop = FALSE
                <5>1. (wire.stop \/ twi_state.len = 1) = FALSE
                    BY <4>1 DEF Stage
                <5> QED
                    BY <3>2, <5>1, Zenon
            <4>3. Stage(2, FALSE, "tx")'
                BY <1>7, <2>2, <2>4, <3>3, <4>1, <4>2 DEF Stage
            <4>4. got' = <<>> /\ wire'.thr = m[1]
                BY <1>3, <2>3, <2>4, <3>3, <4>1
            <4> QED
                BY <1>3, <1>4, <2>2, <2>3, <2>4, <3>1, <4>3, <4>4 DEF Going, Sr
        <3>4. ASSUME twi_state.i = 2
              PROVE  Going'
            <4>1. Stage(2, FALSE, "tx") /\ got = <<m[1]>> /\ twi_state.len = 1
                BY <1>6, <1>7, <2>6, <3>4 DEF Going, Stage
            <4>2. wire'.stop = TRUE
                <5>1. (wire.stop \/ twi_state.len = 1) = TRUE
                    BY <4>1
                <5> QED
                    BY <3>2, <5>1, Zenon
            <4>3. Stage(3, TRUE, "tx")'
                BY <1>7, <2>2, <2>4, <3>4, <4>1, <4>2 DEF Stage
            <4>4. got' = <<m[1]>> /\ wire'.thr = m[2]
                BY <1>3, <2>3, <2>4, <3>4, <4>1
            <4> QED
                BY <1>3, <1>4, <2>2, <2>3, <2>4, <3>1, <4>3, <4>4 DEF Going, Sr
        <3> QED
            BY <1>7, <1>9, <3>3, <3>4
    <2>7. ASSUME Refusing
          PROVE  Refusing'
        <3>1. Refused /\ wire.dir = "off" /\ twi_state.i \in {2, 3}
            BY <1>2, <1>7, <2>7 DEF Refusing
        <3>2. twi_state'.i = 3 /\ twi_state'.len = 0
            BY <1>7, <1>9, <2>2, <3>1
        <3> QED
            BY <1>4, <2>4, <3>1, <3>2 DEF Refusing
    <2>8. Sending'
        BY <1>3, <2>2, <2>4, <2>6, <2>7 DEF Sending
    <2> QED
        BY <1>5, <2>5, <2>8 DEF LinkInv
<1> QED
    BY <1>8, <1>9

LEMMA IsrTransmitKeeps ==
    ASSUME LinkInv, IsrTransmit, UNCHANGED <<to_avr, avr_state, obeyed, writer, halted>>
    PROVE  LinkInv'
<1>1. ~Off /\ ~Broken
    BY DEF Off, Broken, IsrTransmit
<1>2. ASSUME Rested \/ Reading
      PROVE  LinkInv'
    <2>1. twi_state.mode # "TWI_TX_BUSY" /\ ~Refused
        BY <1>2 DEF Rested, Reading, IsrTransmit
    <2>2. /\ UNCHANGED <<twi_state, wire, memory, got, sending>>
          /\ twi_isr' = [twi_isr EXCEPT !.part = "errors"]
        BY <2>1 DEF IsrTransmit
    <2>3. twi_isr'.part = "errors" /\ twi_isr'.status = twi_isr.status /\ twi_isr' \in Isrs
        BY <2>2 DEF LinkInv, Shapes, Isrs, Parts
    <2>4. ~Refused'
        BY <2>1, <2>3 DEF Refused
    <2>5. Shapes'
        BY <2>2, <2>3 DEF LinkInv, Shapes
    <2>8. IsrOK' /\ MemoryOK' /\ WriterOK' /\ halted' = "no"
        <3>1. IsrOK'
            BY <2>3 DEF LinkInv, IsrOK
        <3> QED
            BY <2>2, <3>1 DEF LinkInv, MemoryOK, WriterOK
    <2>6. Rested => Rested'
        BY <2>2, <2>4 DEF Rested, Sr, Arrived
    <2>7. Reading => Reading'
        BY <2>2, <2>4 DEF Reading, Stage, Sr
    <2> QED
        BY <1>2, <2>5, <2>6, <2>7, <2>8 DEF LinkInv
<1> QED
    BY <1>1, <1>2, TransmitWhileSending DEF LinkInv

LEMMA IsrErrorsKeeps ==
    ASSUME LinkInv, IsrErrors, UNCHANGED <<to_avr, avr_state, obeyed, writer, halted>>
    PROVE  LinkInv'
<1>1. ~Off /\ ~Broken
    BY DEF Off, Broken, IsrErrors
<1>2. wire \in Wires /\ twi_state \in Twis /\ twi_isr.part = "errors"
    BY DEF LinkInv, Shapes, IsrErrors
<1>3. /\ UNCHANGED <<memory, got, sending>>
      /\ twi_isr' = [part |-> "idle", status |-> {}]
    BY DEF IsrErrors
<1>4. twi_isr'.part = "idle" /\ twi_isr'.status = {} /\ twi_isr' \in Isrs /\ ~Refused'
    BY <1>3 DEF Isrs, Parts, Refused
<1>5. IsrOK' /\ MemoryOK' /\ WriterOK' /\ halted' = "no"
    BY <1>3, <1>4 DEF LinkInv, MemoryOK, WriterOK, IsrOK
<1>6. ASSUME Refused
      PROVE  LinkInv'
    <2>1. /\ twi_state' = [twi_state EXCEPT !.mode = "TWI_FAILED"]
          /\ wire' = [wire EXCEPT !.stop = TRUE, !.imr = {}]
        BY <1>6 DEF IsrErrors, Refused
    <2>2. twi_state' \in Twis /\ twi_state'.mode = "TWI_FAILED"
        BY <1>2, <2>1 DEF Twis, TwiModes
    <2>3. wire' \in Wires /\ wire'.dir = wire.dir /\ wire'.imr = {}
        BY <1>2, <2>1 DEF Wires
    <2>4. Shapes'
        BY <1>3, <1>4, <2>2, <2>3 DEF LinkInv, Shapes
    <2>5. wire.dir # "tx" /\ avr_state.mode \notin {"AVR_UNINITIALIZED", "AVR_LINK_DOWN"}
        <3>1. CASE Rested
            BY <1>6, <3>1 DEF Rested
        <3>2. CASE Sending
            BY <1>6, <3>2 DEF Sending, Going, Refusing
        <3>3. CASE Reading
            BY <3>3 DEF Reading, Stage
        <3> QED
            BY <1>1, <3>1, <3>2, <3>3 DEF LinkInv
    <2>6. Broken'
        BY <1>4, <2>2, <2>3, <2>5 DEF Broken
    <2> QED
        BY <1>5, <2>4, <2>6 DEF LinkInv
<1>7. ASSUME ~Refused
      PROVE  LinkInv'
    <2>1. UNCHANGED <<twi_state, wire>>
        BY <1>7 DEF IsrErrors, Refused, LinkInv, IsrOK
    <2>2. Shapes'
        BY <1>3, <1>4, <2>1 DEF LinkInv, Shapes
    <2>3. Rested => Rested'
        BY <1>3, <1>4, <2>1 DEF Rested, Sr, Arrived
    <2>4. Reading => Reading'
        BY <1>3, <1>4, <2>1 DEF Reading, Stage, Sr
    <2>5. Going => Going'
        BY <1>3, <1>4, <2>1 DEF Going, Stage, Sr
    <2>6. Refusing => Refusing'
        BY <1>3, <1>4, <1>7, <2>1 DEF Refusing, Sr
    <2>7. Sending => Sending'
        BY <1>3, <2>1, <2>5, <2>6 DEF Sending
    <2> QED
        BY <1>1, <1>5, <2>2, <2>3, <2>4, <2>7 DEF LinkInv
<1> QED
    BY <1>6, <1>7

---------------------------------------------------------------------------
(* The initialisation and the program *)

LEMMA InitTwiKeeps ==
    ASSUME LinkInv, InitTwi
    PROVE  LinkInv'
<1>1. Off /\ ~Refused
    BY DEF InitTwi, LinkInv, IsrOK, Off, Rested, Sending, Reading, Broken, Refused
<1>2. wire \in Wires /\ twi_state \in Twis
    BY DEF LinkInv, Shapes
<1>3. /\ twi_state' = [twi_state EXCEPT !.mode = "TWI_READY"] /\ wire' = [wire EXCEPT !.imr = {}]
      /\ UNCHANGED <<memory, twi_isr, got, sending, to_avr, avr_state, obeyed, writer, halted>>
    BY DEF InitTwi, TwiInit
<1>4. twi_state' \in Twis /\ twi_state'.mode = "TWI_READY"
    BY <1>2, <1>3 DEF Twis, TwiModes
<1>5. /\ wire' \in Wires /\ wire'.dir = wire.dir /\ wire'.imr = {}
      /\ wire'.thr = wire.thr /\ wire'.sr = wire.sr
    BY <1>2, <1>3 DEF Wires
<1>6. Shapes'
    BY <1>3, <1>4, <1>5 DEF LinkInv, Shapes
<1>7. Rested'
    BY <1>1, <1>3, <1>4, <1>5 DEF Off, Rested, Refused, Sr
<1> QED
    BY <1>3, <1>6, <1>7 DEF LinkInv, MemoryOK, WriterOK, IsrOK

LEMMA InitLinkKeeps ==
    ASSUME LinkInv, InitLink
    PROVE  LinkInv'
<1>1. Rested /\ ~Refused
    BY DEF InitLink, LinkInv, Off, Rested, Sending, Reading, Broken
<1>2. avr_state \in Links
    BY DEF LinkInv, Shapes
<1>3. /\ avr_state' = [avr_state EXCEPT !.mode = "AVR_LINK_DOWN"]
      /\ UNCHANGED <<twi_state, wire, memory, twi_isr, got, sending, to_avr, obeyed, writer, halted>>
    BY DEF InitLink, Mode, twiVars
<1>4. avr_state' \in Links /\ avr_state'.mode = "AVR_LINK_DOWN"
    BY <1>2, <1>3 DEF Links, AvrModes
<1>5. Shapes'
    BY <1>3, <1>4 DEF LinkInv, Shapes
<1>6. Rested'
    BY <1>1, <1>3, <1>4 DEF Rested, Refused, Sr
<1> QED
    BY <1>3, <1>5, <1>6 DEF LinkInv, MemoryOK, WriterOK, IsrOK

LEMMA ProgramKeeps ==
    ASSUME LinkInv, Program
    PROVE  LinkInv'
<1>1. UNCHANGED <<twi_state, wire, memory, twi_isr, got, sending, avr_state, obeyed, halted>>
    BY DEF Program, twiVars
<1>2. to_avr \in Command
    BY DEF LinkInv, Shapes
<1>3. ASSUME NEW m \in MotorPorts, NEW s \in Speeds, NEW brake \in BOOLEAN,
             SetMotorSpeed(m, s, brake)
      PROVE  to_avr' \in Command /\ WriterOK'
    <2>1. to_avr' = [to_avr EXCEPT !.speed[m] = s]
        BY <1>3 DEF SetMotorSpeed, SetSpeed
    <2>2. to_avr' \in Command
        BY <1>2, <2>1 DEF Command
    <2>3. writer' = [step |-> "load", motor |-> m, brake |-> brake, loaded |-> {}]
        BY <1>3 DEF SetMotorSpeed
    <2> QED
        BY <2>2, <2>3 DEF WriterOK, Writers
<1>4. ASSUME SetMotorLoad
      PROVE  to_avr' \in Command /\ WriterOK'
    <2>1. writer \in Writers
        BY <1>4 DEF SetMotorLoad, LinkInv, WriterOK, Idle
    <2>2. writer' = [writer EXCEPT !.step = "store", !.loaded = to_avr.brake] /\ to_avr' = to_avr
        BY <1>4 DEF SetMotorLoad
    <2>3. writer' \in Writers
        BY <1>2, <2>1, <2>2 DEF Writers, Command
    <2> QED
        BY <1>2, <2>2, <2>3 DEF WriterOK
<1>5. ASSUME SetMotorStore
      PROVE  to_avr' \in Command /\ WriterOK'
    <2>1. writer \in Writers
        BY <1>5 DEF SetMotorStore, LinkInv, WriterOK, Idle
    <2> DEFINE bits == WithBrake(writer.loaded, writer.motor, writer.brake)
    <2>2. to_avr' = [to_avr EXCEPT !.brake = bits] /\ writer' = Idle
        BY <1>5 DEF SetMotorStore, StoreBrake
    <2>3. bits \in SUBSET MotorPorts
        BY <2>1 DEF Writers, WithBrake
    <2> HIDE DEF bits
    <2>4. to_avr' \in Command
        BY <1>2, <2>2, <2>3 DEF Command
    <2> QED
        BY <2>2, <2>4 DEF WriterOK, Idle
<1>6. ASSUME NEW q \in Requests, Power(q)
      PROVE  to_avr' \in Command /\ WriterOK'
    <2>1. to_avr' = [to_avr EXCEPT !.power = q] /\ writer' = [Idle EXCEPT !.step = "powering down"]
        BY <1>6 DEF Power, SetPower
    <2>2. to_avr' \in Command
        BY <1>2, <2>1, RequestsAssumption DEF Command
    <2>3. writer'.step = "powering down"
        BY <2>1 DEF Idle
    <2> QED
        BY <2>2, <2>3 DEF WriterOK
<1>7. to_avr' \in Command /\ WriterOK'
    BY <1>3, <1>4, <1>5, <1>6 DEF Program
<1>8. Shapes' /\ MemoryOK' /\ IsrOK' /\ halted' = "no"
    BY <1>1, <1>7 DEF LinkInv, Shapes, MemoryOK, IsrOK
<1>9. (Off => Off') /\ (Broken => Broken')
    BY <1>1 DEF Off, Broken, Sr
<1>10. Rested => Rested'
    BY <1>1 DEF Rested, Arrived, Refused, Sr
<1>11. Reading => Reading'
    BY <1>1 DEF Reading, Refused, Stage, Sr
<1>12. (Going => Going') /\ (Refusing => Refusing')
    BY <1>1 DEF Going, Refusing, Refused, Stage, Sr
<1>13. Sending => Sending'
    BY <1>1, <1>12 DEF Sending
<1> QED
    BY <1>7, <1>8, <1>9, <1>10, <1>11, <1>13 DEF LinkInv

---------------------------------------------------------------------------
(* The tick *)

\* When the tick finds the bus ready, nothing is under way.
LEMMA ReadyRests ==
    ASSUME LinkInv, avr_state.mode # "AVR_UNINITIALIZED", Ready
    PROVE  Rested
<1> QED
    BY DEF LinkInv, Ready, Off, Sending, Reading, Broken

\* A transmission started: nothing of it has gone out.
LEMMA WriteStarts ==
    ASSUME LinkInv, Rested, ~Refused, NEW buf \in Buffers, NEW mem,
           NEW x, NEW y, mem[buf] = <<x, y>>, WriteAsync(buf, mem)
    PROVE  /\ twi_state' \in Twis /\ wire' \in Wires /\ twi_isr' = twi_isr /\ sending' = sending
           /\ memory' = mem /\ got' = <<>>
           /\ twi_state'.mode = "TWI_TX_BUSY" /\ twi_state'.buf = buf /\ wire'.imr = {"TXRDY"}
           /\ Going'
<1>1. wire \in Wires
    BY DEF LinkInv, Shapes
<1>2. Len(mem[buf]) = 2
    OBVIOUS
<1>3. /\ twi_state' = [mode |-> "TWI_TX_BUSY", buf |-> buf, i |-> 1, len |-> 2]
      /\ wire' = [wire EXCEPT !.dir = "tx", !.stop = FALSE, !.imr = wire.imr \cup {"TXRDY"}]
      /\ memory' = mem /\ got' = <<>> /\ twi_isr' = twi_isr /\ sending' = sending
    BY <1>2 DEF WriteAsync
<1>4. wire' \in Wires
    BY <1>1, <1>3 DEF Wires, Directions
<1>5. /\ wire'.dir = "tx" /\ wire'.stop = FALSE /\ wire'.imr = {"TXRDY"} /\ wire'.thr = NoByte
      /\ wire'.sr = wire.sr
    BY <1>1, <1>3 DEF Wires, Rested
<1>6. twi_state' \in Twis
    BY <1>3 DEF Twis, TwiModes
<1>7. Stage(1, FALSE, "tx")'
    BY <1>3, <1>5 DEF Stage
<1>8. Sr(TRUE, FALSE, FALSE)' /\ (wire'.thr = NoByte) = TRUE /\ ~Refused'
    BY <1>3, <1>5 DEF Rested, Sr, Refused
<1>9. Going'
    BY <1>3, <1>5, <1>7, <1>8 DEF Going, Sr
<1> QED
    BY <1>3, <1>4, <1>5, <1>6, <1>9

LEMMA LinkDownKeeps ==
    ASSUME LinkInv, LinkDown, UNCHANGED <<to_avr, obeyed, writer>>
    PROVE  LinkInv'
<1>1. Rested /\ ~Refused
    BY DEF LinkDown, LinkInv, Off, Rested, Sending, Reading, Broken
<1>2. Ready
    BY <1>1 DEF Rested, Ready
<1>3. WriteAsync("handshake", memory) /\ halted' = "no"
    BY <1>2 DEF LinkDown, Start, LinkInv
<1>4. memory["handshake"] = <<Hello, Hello>> /\ "handshake" \in Buffers
    BY DEF LinkInv, MemoryOK, Handshake, Buffers
<1>5. /\ twi_state' \in Twis /\ wire' \in Wires /\ twi_isr' = twi_isr /\ sending' = sending
      /\ memory' = memory /\ got' = <<>>
      /\ twi_state'.mode = "TWI_TX_BUSY" /\ twi_state'.buf = "handshake" /\ wire'.imr = {"TXRDY"}
      /\ Going'
    BY <1>1, <1>3, <1>4, WriteStarts
<1>6. avr_state' = [mode |-> "AVR_INIT", failed |-> 0]
    BY DEF LinkDown
<1>7. avr_state' \in Links /\ avr_state'.mode = "AVR_INIT" /\ avr_state'.failed = 0
    BY <1>6 DEF Links, AvrModes
<1>8. got' \in Seq(OutBytes) /\ Len(got') <= 2
    BY <1>5
<1>9. Shapes'
    BY <1>5, <1>7, <1>8 DEF LinkInv, Shapes, AVR_MAX_FAILED_CHECKSUMS
<1>10. Sending'
    BY <1>5, <1>7 DEF Sending
<1>11. MemoryOK' /\ WriterOK' /\ IsrOK'
    BY <1>5 DEF LinkInv, MemoryOK, WriterOK, IsrOK
<1> QED
    BY <1>3, <1>9, <1>10, <1>11 DEF LinkInv

\* The waits for the handshake, and after it.
LEMMA WaitKeeps ==
    ASSUME LinkInv, NEW from, NEW to \in AvrModes, Wait(from, to),
           from \notin {"AVR_UNINITIALIZED", "AVR_LINK_DOWN", "AVR_RECV", "AVR_SEND"},
           from = "AVR_INIT" => Ready,
           to \in {"AVR_WAIT_2MS", "AVR_WAIT_1MS", "AVR_SEND"},
           UNCHANGED <<to_avr, obeyed, writer>>
    PROVE  LinkInv'
<1>1. /\ avr_state.mode = from /\ avr_state' = [avr_state EXCEPT !.mode = to]
      /\ UNCHANGED <<twi_state, wire, memory, twi_isr, got, sending, halted>>
    BY DEF Wait, Mode, twiVars
<1>2. avr_state \in Links /\ avr_state.failed < AVR_MAX_FAILED_CHECKSUMS
    BY <1>1 DEF LinkInv, Shapes
<1>3. avr_state' \in Links /\ avr_state'.mode = to /\ avr_state'.failed = avr_state.failed
    BY <1>1, <1>2 DEF Links
<1>4. Shapes'
    BY <1>1, <1>2, <1>3 DEF LinkInv, Shapes, AVR_MAX_FAILED_CHECKSUMS
<1>5. ~Off /\ ~Sending /\ ~Reading
    BY <1>1 DEF Off, Sending, Reading, Ready
<1>6. Rested => Rested'
    BY <1>1, <1>3 DEF Rested, Refused, Sr
<1>7. Broken => Broken'
    BY <1>1, <1>3 DEF Broken
<1> QED
    BY <1>1, <1>4, <1>5, <1>6, <1>7 DEF LinkInv, MemoryOK, WriterOK, IsrOK

LEMMA CommandSentKeeps ==
    ASSUME LinkInv, CommandSent, UNCHANGED <<to_avr, obeyed, writer>>
    PROVE  LinkInv'
<1> DEFINE mem == [memory EXCEPT !["raw_from_avr"] = Cleared]
<1>1. Rested /\ avr_state.mode = "AVR_SEND" /\ Ready
    BY ReadyRests DEF CommandSent
<1>2. ReadAsync("raw_from_avr", mem) /\ halted' = "no"
    BY <1>1 DEF CommandSent, Start, LinkInv
<1>3. /\ wire \in Wires /\ avr_state \in Links /\ DOMAIN memory = Buffers
      /\ "raw_from_avr" \in Buffers /\ avr_state.failed < AVR_MAX_FAILED_CHECKSUMS
    BY <1>1 DEF LinkInv, Shapes, MemoryOK, Buffers
<1>4. mem["raw_from_avr"] = Cleared /\ Len(Cleared) = 2
    BY <1>3 DEF Cleared
<1>5. /\ twi_state' = [mode |-> "TWI_RX_BUSY", buf |-> "raw_from_avr", i |-> 1, len |-> 2]
      /\ wire' = [wire EXCEPT !.dir = "rx", !.stop = FALSE, !.imr = wire.imr \cup {"RXRDY"}]
      /\ memory' = mem /\ sending' = <<>> /\ twi_isr' = twi_isr /\ got' = got
    BY <1>2, <1>4 DEF ReadAsync
<1>6. wire' \in Wires
    BY <1>3, <1>5 DEF Wires, Directions
<1>7. /\ wire'.dir = "rx" /\ wire'.stop = FALSE /\ wire'.imr = {"RXRDY"} /\ wire'.thr = NoByte
      /\ wire'.sr = wire.sr
    BY <1>1, <1>3, <1>5 DEF Wires, Rested
<1>8. twi_state' \in Twis
    BY <1>3, <1>5 DEF Twis, TwiModes
<1>9. avr_state' = [avr_state EXCEPT !.mode = "AVR_RECV"]
    BY DEF CommandSent, Mode
<1>10. /\ avr_state' \in Links /\ avr_state'.mode = "AVR_RECV"
       /\ avr_state'.failed = avr_state.failed
    BY <1>3, <1>9 DEF Links, AvrModes
<1>11. sending' \in Seq(InBytes) /\ Len(sending') <= 2
    BY <1>5
<1>12. Shapes'
    BY <1>3, <1>5, <1>6, <1>8, <1>10, <1>11 DEF LinkInv, Shapes, AVR_MAX_FAILED_CHECKSUMS
<1>13. Stage(1, FALSE, "rx")' /\ Sr(TRUE, FALSE, FALSE)'
    BY <1>1, <1>5, <1>7 DEF Stage, Rested, Sr
<1>14. (Refused => twi_isr.part = "errors")'
    BY <1>1, <1>5 DEF Rested, Refused
<1>15. Reading'
    BY <1>5, <1>7, <1>10, <1>13, <1>14 DEF Reading
<1>16. MemoryOK'
    <2>1. DOMAIN memory' = Buffers /\ \A b \in Buffers \ {"raw_from_avr"} : memory'[b] = memory[b]
        BY <1>3, <1>5
    <2>2. memory'["raw_from_avr"] = << <<NoStatus, 0>>, <<NoStatus, 0>> >>
        BY <1>4, <1>5 DEF Cleared
    <2>3. "handshake" \in Buffers \ {"raw_from_avr"}
        BY DEF Buffers
    <2>4. memory'["handshake"] = Handshake
        BY <2>1, <2>3 DEF LinkInv, MemoryOK
    <2>5. \A b \in Buffers : \E v, w : memory'[b] = <<v, w>>
        BY <2>1, <2>2 DEF LinkInv, MemoryOK
    <2> QED
        BY <2>1, <2>4, <2>5 DEF MemoryOK
<1>17. WriterOK' /\ IsrOK'
    BY <1>5 DEF LinkInv, WriterOK, IsrOK
<1> QED
    BY <1>2, <1>12, <1>15, <1>16, <1>17 DEF LinkInv

\* What the link reads is judged when it is there.
LEMMA StatusArrives ==
    ASSUME LinkInv, StatusReceived
    PROVE  /\ Rested /\ ~Refused /\ Arrived /\ Ready
           /\ Failed \in 0 .. AVR_MAX_FAILED_CHECKSUMS
<1>1. Rested /\ avr_state.mode = "AVR_RECV" /\ Ready
    BY ReadyRests DEF StatusReceived
<1>2. avr_state \in Links /\ avr_state.failed < AVR_MAX_FAILED_CHECKSUMS
    BY <1>1 DEF LinkInv, Shapes
<1>3. avr_state.failed \in 0 .. 2
    BY <1>2 DEF Links, AVR_MAX_FAILED_CHECKSUMS
<1>4. Failed \in 0 .. AVR_MAX_FAILED_CHECKSUMS
    BY <1>3 DEF Failed, AVR_MAX_FAILED_CHECKSUMS
<1> QED
    BY <1>1, <1>4 DEF Rested

LEMMA StatusReceivedKeeps ==
    ASSUME LinkInv, StatusReceived, UNCHANGED <<to_avr, obeyed, writer>>
    PROVE  LinkInv'
<1> DEFINE mem == [memory EXCEPT !["raw_to_avr"] = Packed(to_avr)]
<1>1. Rested /\ ~Refused /\ Ready /\ Failed \in 0 .. AVR_MAX_FAILED_CHECKSUMS
    BY StatusArrives
<1>2. DOMAIN memory = Buffers /\ "raw_to_avr" \in Buffers /\ to_avr \in Command
    BY DEF LinkInv, MemoryOK, Buffers, Shapes
<1>3. ASSUME Failed >= AVR_MAX_FAILED_CHECKSUMS
      PROVE  LinkInv'
    <2>1. /\ avr_state' = [mode |-> "AVR_LINK_DOWN", failed |-> Failed]
          /\ UNCHANGED <<twi_state, wire, memory, twi_isr, got, sending, halted>>
        BY <1>3 DEF StatusReceived, twiVars
    <2>2. avr_state' \in Links /\ avr_state'.mode = "AVR_LINK_DOWN"
        BY <1>1, <2>1 DEF Links, AvrModes, AVR_MAX_FAILED_CHECKSUMS
    <2>3. Shapes'
        BY <2>1, <2>2 DEF LinkInv, Shapes
    <2>4. Rested'
        BY <1>1, <2>1, <2>2 DEF Rested, Refused, Sr
    <2> QED
        BY <2>1, <2>3, <2>4 DEF LinkInv, MemoryOK, WriterOK, IsrOK
<1>4. ASSUME ~(Failed >= AVR_MAX_FAILED_CHECKSUMS)
      PROVE  LinkInv'
    <2>1. /\ avr_state' = [mode |-> "AVR_SEND", failed |-> Failed]
          /\ WriteAsync("raw_to_avr", mem) /\ halted' = "no"
        BY <1>1, <1>4 DEF StatusReceived, Start, LinkInv
    <2>2. mem["raw_to_avr"] = << <<to_avr.power, to_avr.speed>>, to_avr.brake >>
        BY <1>2 DEF Packed
    <2>3. mem["raw_to_avr"] = Packed(to_avr)
        BY <1>2
    <2> HIDE DEF mem
    <2>4. /\ twi_state' \in Twis /\ wire' \in Wires /\ twi_isr' = twi_isr /\ sending' = sending
          /\ memory' = mem /\ got' = <<>>
          /\ twi_state'.mode = "TWI_TX_BUSY" /\ twi_state'.buf = "raw_to_avr" /\ wire'.imr = {"TXRDY"}
          /\ Going'
        BY <1>1, <1>2, <2>1, <2>2, WriteStarts
    <2>5. avr_state' \in Links /\ avr_state'.mode = "AVR_SEND" /\ avr_state'.failed < AVR_MAX_FAILED_CHECKSUMS
        BY <1>1, <1>4, <2>1 DEF Links, AvrModes, AVR_MAX_FAILED_CHECKSUMS
    <2>6. got' \in Seq(OutBytes) /\ Len(got') <= 2
        BY <2>4
    <2>7. Shapes'
        BY <2>4, <2>5, <2>6 DEF LinkInv, Shapes, AVR_MAX_FAILED_CHECKSUMS
    <2>8. memory'["raw_to_avr"] \in Commands
        BY <1>2, <2>3, <2>4 DEF Commands
    <2>9. Sending'
        BY <2>4, <2>5, <2>8 DEF Sending
    <2>10. MemoryOK'
        <3>1. DOMAIN memory' = Buffers /\ \A b \in Buffers \ {"raw_to_avr"} : memory'[b] = memory[b]
            BY <1>2, <2>4 DEF mem
        <3>2. "handshake" \in Buffers \ {"raw_to_avr"}
            BY DEF Buffers
        <3>3. memory'["handshake"] = Handshake
            BY <3>1, <3>2 DEF LinkInv, MemoryOK
        <3>4. \E v, w : memory'["raw_to_avr"] = <<v, w>>
            BY <2>2, <2>4
        <3>5. \A b \in Buffers : \E v, w : memory'[b] = <<v, w>>
            BY <3>1, <3>4 DEF LinkInv, MemoryOK
        <3> QED
            BY <3>1, <3>3, <3>5 DEF MemoryOK
    <2>11. WriterOK' /\ IsrOK'
        BY <2>4 DEF LinkInv, WriterOK, IsrOK
    <2> QED
        BY <2>1, <2>7, <2>9, <2>10, <2>11 DEF LinkInv
<1> QED
    BY <1>3, <1>4

LEMMA TickKeeps ==
    ASSUME LinkInv, Tick
    PROVE  LinkInv'
<1>1. UNCHANGED <<to_avr, obeyed, writer>>
    BY DEF Tick
<1>2. CASE LinkDown
    BY <1>1, <1>2, LinkDownKeeps
<1>3. CASE HandshakeSent
    <2>1. Ready /\ Wait("AVR_INIT", "AVR_WAIT_2MS")
        BY <1>3 DEF HandshakeSent
    <2> QED
        BY <1>1, <2>1, WaitKeeps DEF AvrModes
<1>4. CASE Wait("AVR_WAIT_2MS", "AVR_WAIT_1MS")
    BY <1>1, <1>4, WaitKeeps DEF AvrModes
<1>5. CASE Wait("AVR_WAIT_1MS", "AVR_SEND")
    BY <1>1, <1>5, WaitKeeps DEF AvrModes
<1>6. CASE CommandSent
    BY <1>1, <1>6, CommandSentKeeps
<1>7. CASE StatusReceived
    BY <1>1, <1>7, StatusReceivedKeeps
<1> QED
    BY <1>2, <1>3, <1>4, <1>5, <1>6, <1>7 DEF Tick

---------------------------------------------------------------------------
(* The bus, and the AVR behind it *)

\* The AVR has received two bytes: they are the whole of what was sent.
LEMMA Delivered ==
    ASSUME LinkInv, WireOut, Len(got') = 2
    PROVE  got' \in Messages
<1> DEFINE m == memory[twi_state.buf]
<1>1. Sending /\ Going
    BY OnTheWay DEF WireOut
<1>2. m \in Messages
    BY <1>1, WhatIsSent
<1>3. PICK x, y : m = <<x, y>>
    BY <1>1, WhatIsSent
<1>4. \/ wire.thr = m[1] /\ got = <<>>
      \/ wire.thr = m[2] /\ got = <<m[1]>>
    BY <1>1 DEF Going, WireOut
<1>5. got' = Append(got, wire.thr)
    BY DEF WireOut
<1>6. CASE wire.thr = m[1] /\ got = <<>>
    BY <1>5, <1>6, PutFirst
<1>7. CASE wire.thr = m[2] /\ got = <<m[1]>>
    <2>1. got' = <<m[1], m[2]>>
        BY <1>5, <1>7, PutSecond
    <2>2. got' = m
        BY <1>3, <2>1
    <2> QED
        BY <1>2, <2>2
<1> QED
    BY <1>4, <1>6, <1>7

\* What the AVR obeys is a command, and one that the program has given.
LEMMA ObeysCommands ==
    ASSUME LinkInv, BusOut
    PROVE  obeyed' \in Command
<1>1. obeyed \in Command
    BY DEF LinkInv, Shapes
<1>2. ASSUME wire'.dir = "off", Len(got') = 2, got' # Handshake
      PROVE  obeyed' \in Command
    <2>1. ~WireOutNack
        <3> SUFFICES ASSUME WireOutNack PROVE FALSE
            OBVIOUS
        <3>1. Going /\ wire.dir = "tx" /\ wire.thr # NoByte /\ got' = got
            BY OnTheWay DEF WireOutNack
        <3>2. got = <<>> \/ got = <<memory[twi_state.buf][1]>>
            BY <3>1 DEF Going
        <3> QED
            BY <1>2, <3>1, <3>2
    <2>2. got' \in Messages
        BY <1>2, <2>1, Delivered DEF BusOut
    <2>3. PICK c \in Command : got' = Packed(c)
        BY <1>2, <2>2 DEF Messages, Commands
    <2>4. got'[1][1] = c.power /\ got'[1][2] = c.speed /\ got'[2] = c.brake
        BY <2>3 DEF Packed
    <2>5. obeyed' = [power |-> c.power, speed |-> c.speed, brake |-> c.brake]
        BY <1>2, <2>4 DEF BusOut
    <2> QED
        BY <2>5 DEF Command
<1>3. ASSUME ~(wire'.dir = "off" /\ Len(got') = 2 /\ got' # Handshake)
      PROVE  obeyed' \in Command
    BY <1>1, <1>3 DEF BusOut
<1> QED
    BY <1>2, <1>3

LEMMA NextKeeps ==
    ASSUME LinkInv, "overrun" \notin Faults, [Next]_linkVars
    PROVE  LinkInv'
<1>1. CASE InitTwi
    BY <1>1, InitTwiKeeps
<1>2. CASE InitLink
    BY <1>2, InitLinkKeeps
<1>3. CASE Tick
    BY <1>3, TickKeeps
<1>4. CASE Program
    BY <1>4, ProgramKeeps
<1>5. CASE Isr
    BY <1>5, IsrReceiveKeeps, IsrTransmitKeeps, IsrErrorsKeeps DEF Isr
<1>6. CASE BusOut
    BY <1>6, ObeysCommands, WireOutKeeps, WireOutNackKeeps DEF BusOut
<1>7. CASE BusIn
    BY <1>7, WireInKeeps, WireInNackKeeps DEF BusIn
<1>8. CASE UNCHANGED linkVars
    <2>1. UNCHANGED <<twi_state, wire, memory, twi_isr, got, sending, avr_state, to_avr, obeyed, writer, halted>>
        BY <1>8 DEF linkVars, twiVars
    <2>2. Shapes' /\ MemoryOK' /\ WriterOK' /\ IsrOK' /\ halted' = "no"
        BY <2>1 DEF LinkInv, Shapes, MemoryOK, WriterOK, IsrOK
    <2>3. (Off => Off') /\ (Broken => Broken')
        BY <2>1 DEF Off, Broken, Sr
    <2>4. Rested => Rested'
        BY <2>1 DEF Rested, Arrived, Refused, Sr
    <2>5. Reading => Reading'
        BY <2>1 DEF Reading, Refused, Stage, Sr
    <2>6. (Going => Going') /\ (Refusing => Refusing')
        BY <2>1 DEF Going, Refusing, Refused, Stage, Sr
    <2>7. Sending => Sending'
        BY <2>1, <2>6 DEF Sending
    <2> QED
        BY <2>2, <2>3, <2>4, <2>5, <2>7 DEF LinkInv
<1> QED
    BY <1>1, <1>2, <1>3, <1>4, <1>5, <1>6, <1>7, <1>8 DEF Next

LEMMA InitHolds == Init => LinkInv
<1> SUFFICES ASSUME Init PROVE LinkInv
    OBVIOUS
<1> DEFINE t == [mode |-> "TWI_UNINITIALIZED", buf |-> "raw_to_avr", i |-> 1, len |-> 0]
           r == [part |-> "idle", status |-> {}]
           w == [dir |-> "off", sr |-> {"TXRDY"}, imr |-> {}, stop |-> FALSE,
                 thr |-> NoByte, rhr |-> NoByte]
           a == [mode |-> "AVR_UNINITIALIZED", failed |-> 0]
<1>1. /\ twi_state = t /\ twi_isr = r /\ wire = w /\ avr_state = a /\ got = <<>> /\ sending = <<>>
      /\ to_avr = IdleCommand /\ obeyed = IdleCommand /\ writer = Idle /\ halted = "no"
      /\ memory = [handshake |-> Handshake, raw_to_avr |-> <<Zero, Zero>>, raw_from_avr |-> Cleared]
    BY DEF Init, TwiInit0
<1>2. t \in Twis
    BY DEF Twis, TwiModes, Buffers
<1>3. r \in Isrs
    BY DEF Isrs, Parts
<1>4. w \in Wires
    BY DEF Wires, Directions, Flags, OutBytes, InBytes
<1>5. a \in Links
    BY DEF Links, AvrModes
<1>6. IdleCommand \in Command
    BY CommandAssumption DEF IdleCommand, Command, PowerModes
<1>7. got \in Seq(OutBytes) /\ Len(got) <= 2 /\ sending \in Seq(InBytes) /\ Len(sending) <= 2
    BY <1>1
<1>8. avr_state.failed < AVR_MAX_FAILED_CHECKSUMS
    BY <1>1 DEF AVR_MAX_FAILED_CHECKSUMS
<1>9. Shapes
    BY <1>1, <1>2, <1>3, <1>4, <1>5, <1>6, <1>7, <1>8 DEF Shapes
<1>10. MemoryOK
    BY <1>1 DEF MemoryOK, Buffers, Handshake, Cleared
<1>11. Off /\ IsrOK /\ WriterOK
    BY <1>1 DEF Off, Sr, IsrOK, WriterOK
<1> QED
    BY <1>1, <1>9, <1>10, <1>11 DEF LinkInv

---------------------------------------------------------------------------
(* The theorem *)

LEMMA PairSlices ==
    ASSUME NEW m, NEW x, NEW y, m = <<x, y>>
    PROVE  /\ SubSeq(m, 1, 0) = <<>> /\ SubSeq(m, 1, 1) = <<x>> /\ SubSeq(m, 1, 2) = <<x, y>>
<1> DEFINE S == {x, y}
<1>1. m \in Seq(S) /\ Len(m) = 2 /\ m[1] = x /\ m[2] = y
    OBVIOUS
<1>2. <<x>> \in Seq(S) /\ Len(<<x>>) = 1 /\ <<x>>[1] = x
    OBVIOUS
<1> HIDE DEF S
<1>3. SubSeq(m, 1, 0) = <<>>
    BY SubSeqEmpty
<1>4. ASSUME NEW n \in 1 .. 2
      PROVE  /\ SubSeq(m, 1, n) \in Seq(S) /\ Len(SubSeq(m, 1, n)) = n
             /\ \A i \in 1 .. n : SubSeq(m, 1, n)[i] = m[i]
    <2>1. \A i \in 1 .. n : m[i] \in S
        BY <1>1
    <2> QED
        BY <2>1, SubSeqProperties
<1>5. SubSeq(m, 1, 1) = <<x>>
    <2> DEFINE s == SubSeq(m, 1, 1)
               t == <<x>>
    <2>1. s \in Seq(S) /\ t \in Seq(S) /\ Len(s) = 1 /\ Len(t) = 1 /\ s[1] = x /\ t[1] = x
        BY <1>1, <1>2, <1>4
    <2> HIDE DEF s, t
    <2>2. s = t
        BY <2>1, SeqEqual
    <2> QED
        BY <2>2 DEF s, t
<1>6. SubSeq(m, 1, 2) = m
    <2> DEFINE s == SubSeq(m, 1, 2)
    <2>1. s \in Seq(S) /\ Len(s) = 2 /\ s[1] = m[1] /\ s[2] = m[2]
        BY <1>1, <1>4
    <2> HIDE DEF s
    <2>2. \A i \in 1 .. Len(s) : s[i] = m[i]
        BY <2>1
    <2>3. s = m
        BY <1>1, <2>1, <2>2, SeqEqual
    <2> QED
        BY <2>3 DEF s
<1> QED
    BY <1>3, <1>5, <1>6

LEMMA Joined ==
    ASSUME NEW x, NEW y
    PROVE  /\ <<>> \o <<>> = <<>> /\ <<>> \o <<x>> = <<x>> /\ <<x>> \o <<>> = <<x>>
           /\ <<x>> \o <<y>> = <<x, y>>
<1> DEFINE S == {x, y}
<1>1. <<x>> \in Seq(S) /\ <<>> \in Seq(S) /\ y \in S
    OBVIOUS
<1>2. <<x>> \o <<y>> = Append(<<x>>, y)
    BY <1>1, AppendIsConcat
<1>3. /\ <<>> \o <<>> = <<>> /\ <<>> \o <<x>> = <<x>> /\ <<x>> \o <<>> = <<x>>
    BY <1>1, ConcatEmptySeq
<1> QED
    BY <1>2, <1>3, PutSecond

LEMMA TypesHold ==
    ASSUME LinkInv
    PROVE  TypeOK
<1> QED
    BY DEF LinkInv, Shapes, MemoryOK, TypeOK, Twis, Wires, Links, AVR_MAX_FAILED_CHECKSUMS

LEMMA StepsHold ==
    ASSUME LinkInv
    PROVE  InStep
<1>1. avr_state.mode = "AVR_LINK_DOWN" => Ready
    BY DEF LinkInv, Off, Rested, Sending, Reading, Broken, Ready
<1>2. avr_state.mode \in {"AVR_WAIT_2MS", "AVR_WAIT_1MS"} => Ready \/ twi_state.mode = "TWI_FAILED"
    BY DEF LinkInv, Off, Rested, Sending, Reading, Broken, Ready
<1>3. twi_state.mode = "TWI_TX_BUSY" => avr_state.mode \in {"AVR_INIT", "AVR_SEND"}
    BY DEF LinkInv, Off, Rested, Sending, Reading, Broken
<1>4. twi_state.mode = "TWI_RX_BUSY" => avr_state.mode = "AVR_RECV"
    BY DEF LinkInv, Off, Rested, Sending, Reading, Broken
<1>5. ASSUME wire.dir = "tx"
      PROVE  got \o (IF wire.thr = NoByte THEN <<>> ELSE <<wire.thr>>)
               = SubSeq(memory[twi_state.buf], 1, twi_state.i - 1)
    <2> DEFINE m == memory[twi_state.buf]
               rest == IF wire.thr = NoByte THEN <<>> ELSE <<wire.thr>>
    <2>1. Sending /\ ~Refusing
        BY <1>5 DEF LinkInv, Off, Rested, Reading, Stage, Broken, Refusing
    <2>2. Going
        BY <2>1 DEF Sending
    <2>3. m \in Messages /\ m[1] # NoByte /\ m[2] # NoByte
        BY <2>1, WhatIsSent, MessageBytes
    <2>4. PICK x, y : m = <<x, y>>
        BY <2>1, WhatIsSent
    <2>5. x # NoByte /\ y # NoByte /\ m[1] = x /\ m[2] = y
        BY <2>3, <2>4
    <2>6. \/ twi_state.i = 1 /\ got = <<>> /\ wire.thr = NoByte
          \/ twi_state.i = 2 /\ got = <<>> /\ wire.thr = x
          \/ twi_state.i = 2 /\ got = <<x>> /\ wire.thr = NoByte
          \/ twi_state.i = 3 /\ got = <<x>> /\ wire.thr = y
        BY <1>5, <2>2, <2>5 DEF Going, Stage
    <2>7. SubSeq(m, 1, 0) = <<>> /\ SubSeq(m, 1, 1) = <<x>> /\ SubSeq(m, 1, 2) = <<x, y>>
        BY <2>4, PairSlices
    <2>8. \/ twi_state.i = 1 /\ got = <<>> /\ rest = <<>>
          \/ twi_state.i = 2 /\ got = <<>> /\ rest = <<x>>
          \/ twi_state.i = 2 /\ got = <<x>> /\ rest = <<>>
          \/ twi_state.i = 3 /\ got = <<x>> /\ rest = <<y>>
        BY <2>5, <2>6
    <2> HIDE DEF m, rest
    <2>9. /\ <<>> \o <<>> = <<>> /\ <<>> \o <<x>> = <<x>> /\ <<x>> \o <<>> = <<x>>
          /\ <<x>> \o <<y>> = <<x, y>>
        BY PutSecond, Joined
    <2>10. ASSUME twi_state.i = 1, got = <<>> /\ rest = <<>>
          PROVE  got \o rest = SubSeq(m, 1, twi_state.i - 1)
        <3>1. twi_state.i - 1 = 0
            BY <2>10
        <3> QED
            BY <2>7, <2>9, <2>10, <3>1
    <2>11. ASSUME twi_state.i = 2, got = <<>> /\ rest = <<x>>
          PROVE  got \o rest = SubSeq(m, 1, twi_state.i - 1)
        <3>1. twi_state.i - 1 = 1
            BY <2>11
        <3> QED
            BY <2>7, <2>9, <2>11, <3>1
    <2>12. ASSUME twi_state.i = 2, got = <<x>> /\ rest = <<>>
          PROVE  got \o rest = SubSeq(m, 1, twi_state.i - 1)
        <3>1. twi_state.i - 1 = 1
            BY <2>12
        <3> QED
            BY <2>7, <2>9, <2>12, <3>1
    <2>13. ASSUME twi_state.i = 3, got = <<x>> /\ rest = <<y>>
          PROVE  got \o rest = SubSeq(m, 1, twi_state.i - 1)
        <3>1. twi_state.i - 1 = 2
            BY <2>13
        <3> QED
            BY <2>7, <2>9, <2>13, <3>1
    <2>14. got \o rest = SubSeq(m, 1, twi_state.i - 1)
        BY <2>8, <2>10, <2>11, <2>12, <2>13
    <2> QED
        BY <2>14 DEF m, rest
<1> QED
    BY <1>1, <1>2, <1>3, <1>4, <1>5 DEF InStep, LinkInv

LEMMA StatusesAreFresh ==
    ASSUME LinkInv, Next
    PROVE  StatusFresh
<1> SUFFICES ASSUME from_avr' # from_avr
             PROVE  Len(sending) = 2 /\ from_avr' = Unpacked(sending)
    BY DEF StatusFresh
<1> DEFINE raw == memory["raw_from_avr"]
<1>1. StatusReceived
    BY DEF Next, InitTwi, InitLink, Tick, Program, Isr, BusOut, BusIn,
           LinkDown, HandshakeSent, Wait, CommandSent
<1>2. Failed = 0 /\ from_avr' = Unpacked(raw)
    BY <1>1 DEF StatusReceived
<1>3. Arrived /\ avr_state.failed \in Nat
    BY <1>1, StatusArrives DEF LinkInv, Shapes, Links
<1>4. ChecksumHolds(raw)
    BY <1>2, <1>3 DEF Failed
<1>5. PICK s \in Statuses : raw = BytesOf(s)
    BY <1>4 DEF ChecksumHolds
<1>6. PICK q \in Statuses : sending = BytesOf(q) /\ raw[1] \in {<<q, 1>>, Bad}
    BY <1>3 DEF Arrived
<1>7. raw[1] = <<s, 1>>
    BY <1>5 DEF BytesOf
<1>8. s = q
    BY <1>6, <1>7, BytesAssumption
<1>9. Len(sending) = 2 /\ raw = sending
    BY <1>5, <1>6, <1>8 DEF BytesOf
<1> QED
    BY <1>2, <1>9

\* avr.c, _twi.c: whatever the program asks for, the bus refuses and the wire
\* corrupts, the tick's state machine and twi_isr keep in step, no assertion
\* fails, and a status is used only when it is, whole and uncorrupted, the one
\* the AVR sent in the transfer just ended.
THEOREM TransfersAreTrue ==
    ASSUME "overrun" \notin Faults
    PROVE  Spec => TransfersTrue
<1>1. Init => LinkInv
    BY InitHolds
<1>2. LinkInv /\ [Next]_linkVars => LinkInv'
    BY NextKeeps
<1>3. LinkInv /\ LinkInv' /\ [Next]_linkVars => [TypeOK' /\ InStep' /\ StatusFresh]_linkVars
    <2>1. LinkInv' => TypeOK' /\ InStep'
        BY TypesHold, StepsHold, PTL
    <2>2. LinkInv /\ Next => StatusFresh
        BY StatusesAreFresh
    <2> QED
        BY <2>1, <2>2
<1> QED
    BY <1>1, <1>2, <1>3, PTL DEF Spec, TransfersTrue

=============================================================================
