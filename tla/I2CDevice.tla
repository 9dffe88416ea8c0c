----------------------------- MODULE I2CDevice -----------------------------
(***************************************************************************)
(* A device at the end of an I2C port, as the driver expects one: external *)
(* to the repository.  It is a memory of Registers bytes with a pointer    *)
(* that each byte moves on.  It reacts to the edges of the two lines: SDA  *)
(* is sampled when SCL rises and changed when SCL falls; a change of SDA   *)
(* while SCL is high is a START or a STOP.  A byte has Bits bits: the      *)
(* driver's loops over the bits of a byte do the same for any number.      *)
(***************************************************************************)
EXTENDS Integers, Sequences

CONSTANTS
  Bits,       \* the bits of a byte, the address and the read bit included
  Registers   \* the size of the memory

ASSUME DeviceAssumption == Bits \in Nat \ {0, 1} /\ Registers \in Nat \ {0}

Byte == 0 .. 2^Bits - 1
Bit(byte, pos) == (byte \div 2^pos) % 2

\* The device's own address, and the two address bytes that name it.
WriteAddress == 2
ReadAddress == 3

\* `low`: it holds SDA low.  `stretch`: it holds SCL low.  `k` counts the bits
\* of the byte that is under way in direction dir.
NewDevice(present, regs) ==
  [present |-> present, phase |-> "idle", dir |-> "in", k |-> 0, byte |-> 0,
   what |-> "address", low |-> FALSE, stretch |-> FALSE, acked |-> FALSE,
   pointer |-> 0, regs |-> regs]

Started(d) ==
  [d EXCEPT !.phase = IF d.present THEN "bits" ELSE "idle", !.dir = "in", !.k = 0,
            !.byte = 0, !.what = "address", !.low = FALSE]

Stopped(d) == [d EXCEPT !.phase = "idle", !.low = FALSE]

\* SCL rises: a bit, or the master's acknowledgement, is sampled.
Sampled(d, sda) ==
  CASE d.phase = "bits" /\ d.dir = "in" ->
         [d EXCEPT !.k = @ + 1, !.byte = (2 * @ + sda) % 2^Bits]
    [] d.phase = "bits" /\ d.dir = "out" -> [d EXCEPT !.k = @ + 1]
    [] d.phase = "ack" /\ d.dir = "out" -> [d EXCEPT !.acked = (sda = 0)]
    [] OTHER -> d

After(d) == (d.pointer + 1) % Registers
Sending(d) ==
  [d EXCEPT !.phase = "bits", !.dir = "out", !.k = 0, !.byte = d.regs[d.pointer],
            !.low = (Bit(d.regs[d.pointer], Bits - 1) = 0)]

\* SCL falls after the last bit of a byte that came in: it is acknowledged.
Taken(d, stretch) ==
  CASE d.what = "address" /\ d.byte \notin {WriteAddress, ReadAddress} -> Stopped(d)
    [] d.what = "address" /\ d.byte \in {WriteAddress, ReadAddress} ->
         [d EXCEPT !.phase = "ack", !.low = TRUE, !.stretch = stretch,
                   !.what = IF d.byte = ReadAddress THEN "sending" ELSE "pointer"]
    [] d.what = "pointer" ->
         [d EXCEPT !.phase = "ack", !.low = TRUE, !.stretch = stretch,
                   !.what = "data", !.pointer = d.byte % Registers]
    [] OTHER ->
         [d EXCEPT !.phase = "ack", !.low = TRUE, !.stretch = stretch,
                   !.regs[d.pointer] = d.byte, !.pointer = After(d)]

ByteIn(d) == d.phase = "bits" /\ d.k = Bits /\ d.dir = "in"

\* SCL falls: the device drives the next bit, or lets the line go.
Clocked(d, stretch) ==
  CASE ByteIn(d) -> Taken(d, stretch)
    [] d.phase = "bits" /\ d.k = Bits /\ d.dir = "out" ->
         [d EXCEPT !.phase = "ack", !.low = FALSE]
    [] d.phase = "bits" /\ d.k \in 1 .. Bits - 1 /\ d.dir = "out" ->
         [d EXCEPT !.low = (Bit(d.byte, Bits - 1 - d.k) = 0)]
    [] d.phase = "ack" /\ d.dir = "in" /\ d.what = "sending" -> Sending(d)
    [] d.phase = "ack" /\ d.dir = "in" /\ d.what # "sending" ->
         [d EXCEPT !.phase = "bits", !.k = 0, !.byte = 0, !.low = FALSE]
    [] d.phase = "ack" /\ d.dir = "out" ->
         IF d.acked THEN Sending([d EXCEPT !.pointer = After(d)]) ELSE Stopped(d)
    [] OTHER -> d

Level(master, held) == IF held THEN 0 ELSE master

\* The device after the master has set the lines from <<scl0, sda0>> to
\* <<scl1, sda1>>, one of them at a time.
Reacted(d, scl0, sda0, scl1, sda1, stretch) ==
  LET a0 == Level(scl0, d.stretch)  a1 == Level(scl1, d.stretch)
      b0 == Level(sda0, d.low)      b1 == Level(sda1, d.low) IN
  CASE a0 = 1 /\ a1 = 1 /\ b0 = 1 /\ b1 = 0 -> Started(d)
    [] a0 = 1 /\ a1 = 1 /\ b0 = 0 /\ b1 = 1 -> Stopped(d)
    [] a0 = 0 /\ a1 = 1 -> Sampled(d, b1)
    [] a0 = 1 /\ a1 = 0 -> Clocked(d, stretch)
    [] OTHER -> d
=============================================================================
