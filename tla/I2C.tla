-------------------------------- MODULE I2C --------------------------------
(***************************************************************************)
(* The I2C driver (i2c.c) with the memory interface above it               *)
(* (i2c_memory.c), on several sensor ports at once.  Four times in a bit   *)
(* the timer interrupt looks at the lines of every port and moves each     *)
(* port's state machine one state on; a program queues the sub-            *)
(* transactions of a read or a write meanwhile and waits for them.         *)
(*                                                                         *)
(* The interrupt is one step: only the tick interrupts it, and the tick    *)
(* touches nothing here.  It can come between any two steps of the         *)
(* program, also between the load and the store of i2c_txn_count.          *)
(***************************************************************************)
EXTENDS I2CDevice, FiniteSets

CONSTANTS
  Ports,          \* the sensor ports with a registered device
  LegoPorts,      \* those registered with lego_compat
  MaxCalls,       \* bound: the transactions started, over all ports
  I2C_PAUSE_LEN,  \* the length of a pause, in interrupts
  ReadSize,       \* the bytes a read asks for
  Modes,          \* what is called: nx_i2c_memory_read ("read"), nx_i2c_memory_write
                  \* ("write"), nx_i2c_start_transaction to write ("send")
  Addresses,      \* the internal addresses that are used
  Values,         \* the values written
  Tasks,          \* the ports are used by tasks that preempt each other, not by one program
  Stretching,     \* the ports whose device may hold the clock low
  Reregistering,  \* the ports that may be unregistered and registered again, once
  Quick,          \* rule: no interrupt comes within nx_i2c_register
  Gap,            \* bound: interrupts come between unregistering and registering
  Devices         \* of each port, the devices there may be and the state they are in

ASSUME PortsAssumption ==
  /\ IsFiniteSet(Ports) /\ LegoPorts \subseteq Ports /\ Stretching \subseteq Ports
  /\ Reregistering \subseteq Ports /\ {Quick, Gap, Tasks} \subseteq BOOLEAN
  /\ Addresses \subseteq 0 .. Registers - 1
  /\ MaxCalls \in Nat /\ I2C_PAUSE_LEN \in Nat \ {0} /\ ReadSize \in 1 .. Registers

VARIABLES
  i2c_state,       \* of each port, the fields of struct i2c_port, and the pins
  i2c_txn_count,   \* the sub-transactions that are counted as pending
  timer,           \* the timer interrupt is enabled
  prog,            \* of each port, the program's call
  device,          \* external: the device on each port
  calls,           \* bound: the transactions started
  fresh            \* bound: the ports that may still be unregistered

i2cVars == <<i2c_state, i2c_txn_count, timer, prog, device, calls, fresh>>

BusStates ==
  {"I2C_OFF", "I2C_IDLE", "I2C_CONFIG", "I2C_PAUSE", "I2C_RECLOCK0", "I2C_RECLOCK1",
   "I2C_READ_ACK0", "I2C_READ_ACK1", "I2C_READ_ACK2", "I2C_WRITE_ACK0", "I2C_WRITE_ACK1",
   "I2C_WRITE_ACK2", "I2C_SEND_START_BIT0", "I2C_SEND_START_BIT1", "I2C_SCL_LOW",
   "I2C_SAMPLE0", "I2C_SAMPLE1", "I2C_SAMPLE2", "I2C_SEND_STOP_BIT0", "I2C_SEND_STOP_BIT1"}
TxnStates ==
  {"TXN_NONE", "TXN_WAITING", "TXN_START", "TXN_TRANSMIT_BYTE", "TXN_WRITE_ACK",
   "TXN_READ_ACK", "TXN_STOP"}
Results == {"TXN_STAT_SUCCESS", "TXN_STAT_UNKNOWN", "TXN_STAT_IN_PROGRESS", "TXN_STAT_FAILED"}

Top == Bits - 1

\* nx_i2c_register after power-up: an idle port whose pins are outputs and high.
Registered ==
  [bus |-> "I2C_IDLE", txn |-> "TXN_NONE", txns |-> <<>>, current |-> 0,
   processed |-> 0, byte |-> 0, pos |-> Top, ticks |-> 0, next |-> "I2C_IDLE",
   buf |-> [i \in 0 .. ReadSize - 1 |-> 0], on |-> TRUE, scl |-> 1, sda |-> 1]

N(p) == Len(p.txns)
Txn(p) == p.txns[p.current + 1]

Busy(p) == p.bus \notin {"I2C_OFF", "I2C_IDLE"} \/ p.current < N(p)

-----------------------------------------------------------------------------
(* The calls *)

Sub(mode, data, size, pre, post) ==
  [mode |-> mode, data |-> data, size |-> size, pre |-> pre, post |-> post,
   result |-> "TXN_STAT_SUCCESS"]

\* The sub-transactions of a transaction: two for a write, four for a read.
Queue(mode, lego, data) ==
  LET writing == mode # "read" IN
  << Sub("write", <<WriteAddress>>, 1, "START", "NONE"),
     Sub("write", data, Len(data), "NONE", IF lego \/ writing THEN "STOP" ELSE "NONE") >>
  \o IF writing THEN <<>> ELSE
     << Sub("write", <<ReadAddress>>, 1, "RESTART", "NONE"),
        Sub("read", <<>>, ReadSize, "NONE", "STOP") >>

NoProg == [at |-> "idle", mode |-> "read", left |-> <<>>, loaded |-> 0, reg |-> 0, value |-> 0]

\* nx_i2c_memory_read and nx_i2c_memory_write, up to the reset of the queue.
\* The value to write is passed where nx_i2c_start_transaction takes the
\* receive buffer: only the internal address becomes data to send.
Sent(mode, reg, value) == IF mode = "send" THEN <<reg, value>> ELSE <<reg>>

Alone(s) ==
  Tasks \/ \A o \in Ports \ {s} : prog[o].at \notin {"add", "count", "enabled", "idled"}

Begin(s, mode, reg, value) ==
  /\ prog[s].at = "idle" /\ Alone(s)
  /\ calls < MaxCalls
  /\ ~Busy(i2c_state[s])
  /\ i2c_state' = [i2c_state EXCEPT ![s].bus = "I2C_CONFIG", ![s].current = 0,
                                    ![s].txns = <<>>, ![s].buf = Registered.buf]
  /\ prog' = [prog EXCEPT ![s] =
       [NoProg EXCEPT !.at = "add", !.mode = mode, !.reg = reg, !.value = value,
                      !.left = Queue(mode, s \in LegoPorts, Sent(mode, reg, value))]]
  /\ calls' = calls + 1
  /\ UNCHANGED <<i2c_txn_count, timer, device, fresh>>

\* i2c_add_txn, to the load of i2c_txn_count and from its store.
AddTxn(s) ==
  /\ prog[s].at = "add"
  /\ prog[s].left # <<>>
  /\ i2c_state' = [i2c_state EXCEPT ![s].txns = Append(@, Head(prog[s].left))]
  /\ prog' = [prog EXCEPT ![s].at = "count", ![s].loaded = i2c_txn_count,
                          ![s].left = Tail(@)]
  /\ UNCHANGED <<i2c_txn_count, timer, device, calls, fresh>>

CountTxn(s) ==
  /\ prog[s].at = "count"
  /\ i2c_txn_count' = prog[s].loaded + 1
  /\ prog' = [prog EXCEPT ![s].at = "add", ![s].loaded = 0]
  /\ UNCHANGED <<i2c_state, timer, device, calls, fresh>>

\* The interrupt is enabled, then i2c_trigger lets the state machine go.
Trigger(s) ==
  /\ prog[s].at = "add"
  /\ prog[s].left = <<>>
  /\ timer' = TRUE
  /\ i2c_state' = [i2c_state EXCEPT ![s].txn = "TXN_WAITING", ![s].bus = "I2C_IDLE"]
  /\ prog' = [prog EXCEPT ![s].at = "wait"]
  /\ UNCHANGED <<i2c_txn_count, device, calls, fresh>>

Return(s) ==
  /\ prog[s].at = "wait"
  /\ ~Busy(i2c_state[s])
  /\ prog' = [prog EXCEPT ![s] = NoProg]
  /\ UNCHANGED <<i2c_state, i2c_txn_count, timer, device, calls, fresh>>

-----------------------------------------------------------------------------
(* The lines of a port, and registering again *)

\* What the port does to its lines: a pin that is no output is pulled high.
Wire(p) == [scl |-> IF p.on THEN p.scl ELSE 1, sda |-> IF p.on THEN p.sda ELSE 1]

Line(s) == [scl |-> Level(Wire(i2c_state[s]).scl, device[s].stretch),
            sda |-> Level(Wire(i2c_state[s]).sda, device[s].low)]

\* The device's reaction to the change from port p to port q.
Reaction(d, p, q, stretch) ==
  Reacted(d, Wire(p).scl, Wire(p).sda, Wire(q).scl, Wire(q).sda, stretch)

High(p) == [p EXCEPT !.scl = 1, !.sda = 1]

\* nx_i2c_unregister, by a program that gives the transaction up: the lines go
\* high and the pins stop driving them.  The machine behind them runs on.
Unregister(s) ==
  /\ prog[s].at = "wait" /\ Busy(i2c_state[s]) /\ Alone(s)
  /\ s \in fresh
  /\ i2c_state' = [i2c_state EXCEPT ![s] = [High(@) EXCEPT !.on = FALSE]]
  /\ device' = [device EXCEPT ![s] = Reaction(@, i2c_state[s], High(i2c_state[s]), FALSE)]
  /\ prog' = [prog EXCEPT ![s] = [NoProg EXCEPT !.at = "off"]]
  /\ fresh' = fresh \ {s}
  /\ UNCHANGED <<i2c_txn_count, timer, calls>>

\* nx_i2c_register: nx__sensors_i2c_enable makes the pins outputs, then high.
Enable(s) ==
  LET p == i2c_state[s]
      driven == [p EXCEPT !.on = TRUE] IN
  /\ prog[s].at = "off" /\ Alone(s)
  /\ i2c_state' = [i2c_state EXCEPT ![s] = High(driven)]
  /\ device' = [device EXCEPT ![s] =
       Reaction(Reaction(@, p, driven, FALSE), driven, High(driven), FALSE)]
  /\ prog' = [prog EXCEPT ![s].at = "enabled"]
  /\ UNCHANGED <<i2c_txn_count, timer, calls, fresh>>

\* The store to bus_state, which lets the machine look at txn_state.
IdleBus(s) ==
  /\ prog[s].at = "enabled"
  /\ i2c_state' = [i2c_state EXCEPT ![s].bus = "I2C_IDLE"]
  /\ prog' = [prog EXCEPT ![s].at = "idled"]
  /\ UNCHANGED <<i2c_txn_count, timer, device, calls, fresh>>

\* The rest of nx_i2c_register.  i2c_txn_count keeps what was queued.
Emptied(p) == [p EXCEPT !.txn = "TXN_NONE", !.current = 0, !.txns = <<>>]

Empty(s) ==
  /\ prog[s].at = "idled"
  /\ i2c_state' = [i2c_state EXCEPT ![s] = Emptied(@)]
  /\ prog' = [prog EXCEPT ![s] = NoProg]
  /\ UNCHANGED <<i2c_txn_count, timer, device, calls, fresh>>

-----------------------------------------------------------------------------
(* One state of a port's machine: the port after it, and the pins that the *)
(* interrupt pulls low and, after them, releases                           *)

To(p, bus) == [p EXCEPT !.bus = bus]

\* i2c_set_bus_state: a lego port pauses before the state, longer before idle.
Paced(s, p, bus) ==
  IF s \in LegoPorts
  THEN [p EXCEPT !.bus = "I2C_PAUSE", !.next = bus,
                 !.ticks = IF bus = "I2C_IDLE" THEN 10 * I2C_PAUSE_LEN ELSE I2C_PAUSE_LEN]
  ELSE To(p, bus)

Out(p, low, high) == [port |-> p, low |-> low, high |-> high]

Result(p, r) == [p EXCEPT !.txns[p.current + 1].result = r]

\* I2C_IDLE: the next sub-transaction, if there is one.
Idle(s, p) ==
  LET t == Txn(p)
      first == [p EXCEPT !.processed = 0, !.pos = Top,
                         !.byte = IF t.mode = "write" THEN t.data[1] ELSE 0] IN
  IF p.txn = "TXN_WAITING" /\ p.current < N(p)
  THEN IF t.pre = "NONE"
       THEN Out([first EXCEPT !.txn = "TXN_TRANSMIT_BYTE", !.bus = "I2C_SCL_LOW"], {}, {})
       ELSE Out([first EXCEPT !.txn = "TXN_START",
                              !.bus = IF t.pre = "RESTART" /\ s \in LegoPorts
                                      THEN "I2C_RECLOCK0" ELSE "I2C_SEND_START_BIT0"],
                {}, {"scl", "sda"})
  ELSE Out(IF p.current = N(p) THEN [p EXCEPT !.txn = "TXN_NONE"] ELSE p, {}, {})

BypassToMaxTxn(p) == [p EXCEPT !.current = 4]
Bypass(p) == [p EXCEPT !.current = N(p)]

\* Whether the device holds SDA high, and whether the sub-transaction ends it.
FaultUnseen(line) == FALSE
AckFault(line) == line.sda = 1
EndsUnstopped(t) == FALSE
EndsWithStop(t) == t.post = "STOP"

\* The device acknowledged or not.  After a fault the rest is bypassed.
ReadAck(p, line) ==
  LET t == Txn(p)
      succeeded == [Result(p, "TXN_STAT_SUCCESS") EXCEPT !.current = @ + 1] IN
  IF AckFault(line)
  THEN Out([Bypass(Result(p, "TXN_STAT_FAILED")) EXCEPT !.bus = "I2C_SEND_STOP_BIT0",
                                                        !.txn = "TXN_STOP"], {}, {})
  ELSE Out(CASE p.processed < t.size -> [p EXCEPT !.txn = "TXN_TRANSMIT_BYTE"]
             [] p.processed >= t.size /\ EndsWithStop(t) ->
                  [succeeded EXCEPT !.bus = "I2C_SCL_LOW", !.txn = "TXN_STOP"]
             [] OTHER -> [succeeded EXCEPT !.bus = "I2C_IDLE", !.txn = "TXN_WAITING"],
           {"scl"}, {})

\* SCL is low: SDA may change.
SclLow(s, p, line) ==
  CASE p.txn = "TXN_TRANSMIT_BYTE" ->
         IF Txn(p).mode = "write"
         THEN LET next == [To(p, "I2C_SAMPLE0") EXCEPT !.pos = @ - 1] IN
              IF Bit(p.byte, p.pos) = 1 THEN Out(next, {}, {"sda"}) ELSE Out(next, {"sda"}, {})
         ELSE Out(To(p, "I2C_SAMPLE0"), {}, {})
    [] p.txn = "TXN_WRITE_ACK" ->
         IF line.sda = 1 THEN Out(To(p, "I2C_WRITE_ACK0"), {"sda"}, {}) ELSE Out(p, {}, {})
    [] p.txn = "TXN_READ_ACK" -> Out(To(p, "I2C_READ_ACK0"), {"scl"}, {"sda"})
    [] p.txn = "TXN_STOP" -> Out(Paced(s, p, "I2C_SEND_STOP_BIT0"), {"sda"}, {})
    [] OTHER -> Out(p, {}, {})

\* The bit read is ORed into what the caller left in the buffer.
Sample(p, line) ==
  LET i == p.processed
      set == line.sda = 1 /\ Bit(p.buf[i], p.pos) = 0 IN
  IF Txn(p).mode = "read"
  THEN [p EXCEPT !.buf[i] = IF set THEN @ + 2^p.pos ELSE @, !.pos = @ - 1,
                 !.bus = "I2C_SAMPLE2"]
  ELSE To(p, "I2C_SAMPLE2")

\* SCL falls; after the last bit of a byte the acknowledgement is due.
Sample2(p) ==
  LET t == Txn(p)
      done == [p EXCEPT !.processed = @ + 1, !.pos = Top, !.bus = "I2C_SCL_LOW"]
      more == p.processed + 1 < t.size IN
  CASE p.pos >= 0 -> To(p, "I2C_SCL_LOW")
    [] p.pos < 0 /\ t.mode = "write" ->
         [done EXCEPT !.txn = "TXN_READ_ACK",
                      !.byte = IF more THEN t.data[p.processed + 2] ELSE @]
    [] p.pos < 0 /\ t.mode = "read" /\ more -> [done EXCEPT !.txn = "TXN_WRITE_ACK"]
    [] OTHER ->
         [Result(done, "TXN_STAT_SUCCESS") EXCEPT
            !.current = @ + 1,
            !.txn = IF EndsWithStop(t) THEN "TXN_STOP" ELSE "TXN_WAITING"]

Moved(s, p, line) ==
  CASE p.bus \in {"I2C_OFF", "I2C_CONFIG"} -> Out(p, {}, {})
    [] p.bus = "I2C_RECLOCK0" -> Out(To(p, "I2C_RECLOCK1"), {"scl"}, {})
    [] p.bus = "I2C_RECLOCK1" -> Out(To(p, "I2C_SEND_START_BIT0"), {}, {"scl"})
    [] p.bus = "I2C_READ_ACK0" -> Out(To(p, "I2C_READ_ACK1"), {}, {"scl"})
    [] p.bus = "I2C_READ_ACK1" ->
         Out(IF line.scl = 1 THEN To(p, "I2C_READ_ACK2") ELSE p, {}, {})
    [] p.bus = "I2C_READ_ACK2" -> ReadAck(p, line)
    [] p.bus = "I2C_WRITE_ACK0" -> Out(To(p, "I2C_WRITE_ACK1"), {}, {"scl"})
    [] p.bus = "I2C_WRITE_ACK1" -> Out(To(p, "I2C_WRITE_ACK2"), {"scl"}, {})
    [] p.bus = "I2C_WRITE_ACK2" ->
         Out([To(p, "I2C_SCL_LOW") EXCEPT !.txn = "TXN_TRANSMIT_BYTE"], {}, {"sda"})
    [] p.bus = "I2C_IDLE" -> Idle(s, p)
    [] p.bus = "I2C_PAUSE" ->
         Out([p EXCEPT !.ticks = @ - 1, !.bus = IF p.ticks = 1 THEN p.next ELSE @], {}, {})
    [] p.bus = "I2C_SEND_START_BIT0" ->
         IF line.sda = 1 THEN Out(Paced(s, p, "I2C_SEND_START_BIT1"), {"sda"}, {})
         ELSE Out(To(p, "I2C_RECLOCK0"), {}, {})
    [] p.bus = "I2C_SEND_START_BIT1" ->
         Out([Paced(s, p, "I2C_SCL_LOW") EXCEPT !.txn = "TXN_TRANSMIT_BYTE"], {"scl"}, {})
    [] p.bus = "I2C_SCL_LOW" -> SclLow(s, p, line)
    [] p.bus = "I2C_SAMPLE0" -> Out(To(p, "I2C_SAMPLE1"), {}, {"scl"})
    [] p.bus = "I2C_SAMPLE1" -> Out(Sample(p, line), {}, {})
    [] p.bus = "I2C_SAMPLE2" -> Out(Sample2(p), {"scl"}, {})
    [] p.bus = "I2C_SEND_STOP_BIT0" -> Out(Paced(s, p, "I2C_SEND_STOP_BIT1"), {}, {"scl"})
    [] p.bus = "I2C_SEND_STOP_BIT1" ->
         Out([Paced(s, p, "I2C_IDLE") EXCEPT !.txn = "TXN_WAITING"], {}, {"sda"})

-----------------------------------------------------------------------------
(* The interrupt *)

\* The device sees the low pins (CODR) change first, the high ones (SODR) after.
Seen(d, p, o, stretch) ==
  LET pins(q, set, level) ==
        [q EXCEPT !.scl = IF "scl" \in set THEN level ELSE @,
                  !.sda = IF "sda" \in set THEN level ELSE @]
      low == pins(p, o.low, 0)
      high == pins(low, o.high, 1) IN
  [port |-> [o.port EXCEPT !.scl = high.scl, !.sda = high.sda],
   device |-> Reaction(Reaction(d, p, low, stretch), low, high, stretch)]

\* The STOP conditions that end in this interrupt, and what they leave pending.
Stops == Cardinality({s \in Ports : i2c_state[s].bus = "I2C_SEND_STOP_BIT1"})
TimerOffAtStop(stops) == ~(stops > 0)
TimerAfter(stops) == ~(stops > 0 /\ i2c_txn_count - stops = 0)

Isr ==
  /\ timer
  /\ \A s \in Ports : /\ Quick => prog[s].at \notin {"enabled", "idled"}
                      /\ ~Gap => prog[s].at # "off"
  /\ \E stretch \in SUBSET {s \in Stretching : ByteIn(device[s])} :
       \E out \in {[s \in Ports |-> Moved(s, i2c_state[s], Line(s))]} :
       \E after \in {[s \in Ports |-> Seen(device[s], i2c_state[s], out[s], s \in stretch)]} :
         /\ i2c_state' = [s \in Ports |-> after[s].port]
         /\ device' = [s \in Ports |-> after[s].device]
  /\ i2c_txn_count' = i2c_txn_count - Stops
  /\ timer' = TimerAfter(Stops)
  /\ UNCHANGED <<prog, calls, fresh>>

\* The device lets the clock go: the rising edge comes now.
Unstretch(s) ==
  /\ device[s].stretch
  /\ device' = [device EXCEPT ![s] =
       IF Wire(i2c_state[s]).scl = 1
       THEN Sampled([@ EXCEPT !.stretch = FALSE], Line(s).sda)
       ELSE [@ EXCEPT !.stretch = FALSE]]
  /\ UNCHANGED <<i2c_state, i2c_txn_count, timer, prog, calls, fresh>>

Init ==
  /\ i2c_state = [s \in Ports |-> Registered]
  /\ i2c_txn_count = 0
  /\ timer = FALSE
  /\ prog = [s \in Ports |-> NoProg]
  /\ device \in {d \in [Ports -> UNION {Devices[s] : s \in Ports}] : \A s \in Ports : d[s] \in Devices[s]}
  /\ calls = 0
  /\ fresh = Reregistering

Next ==
  \/ Isr
  \/ \E s \in Ports :
       \/ \E mode \in Modes, reg \in Addresses, value \in Values :
            Begin(s, mode, reg, value)
       \/ AddTxn(s) \/ CountTxn(s) \/ Trigger(s) \/ Return(s)
       \/ Unregister(s) \/ Enable(s) \/ IdleBus(s) \/ Empty(s)
       \/ Unstretch(s)

\* nx_i2c_get_txn_status: what it may return.  It reads the record at
\* current_txn: behind the queue one that was cleared, behind the array anything.
TxnStatus(p) ==
  CASE p.current < N(p) /\ Txn(p).result = "TXN_STAT_FAILED" -> {"TXN_STAT_FAILED"}
    [] p.current < N(p) /\ Txn(p).result # "TXN_STAT_FAILED" ->
         {IF p.current = N(p) - 1 THEN "TXN_STAT_IN_PROGRESS" ELSE Txn(p).result}
    [] p.current >= N(p) /\ p.current < 4 -> {"TXN_STAT_SUCCESS"}
    [] p.current >= 4 -> Results

-----------------------------------------------------------------------------
(* Properties *)

TypeOK ==
  /\ i2c_txn_count \in 0 .. 4 * MaxCalls
  /\ \A s \in Ports :
       /\ i2c_state[s].bus \in BusStates /\ i2c_state[s].next \in BusStates
       /\ i2c_state[s].txn \in TxnStates
       /\ i2c_state[s].current \in 0 .. N(i2c_state[s]) /\ N(i2c_state[s]) <= 4
       /\ i2c_state[s].pos \in -1 .. Top
       /\ \A i \in 0 .. ReadSize - 1 : i2c_state[s].buf[i] \in Byte
       /\ device[s].k \in 0 .. Bits

Finished(s) == prog[s].at = "wait" /\ ~Busy(i2c_state[s])
Failed(s) == \E i \in 1 .. N(i2c_state[s]) : i2c_state[s].txns[i].result = "TXN_STAT_FAILED"

(* A transaction ends with a failed sub-transaction if nobody answers, and    *)
(* only then; a read that has not failed has put the device's registers, bit  *)
(* by bit, into a buffer that was zero: whatever the other port does, however *)
(* long the device holds the clock, wherever an earlier transaction was given  *)
(* up by registering the port again.                                           *)
OutcomeTrue ==
  /\ TypeOK
  /\ \A s \in Ports : Finished(s) =>
       /\ Failed(s) <=> ~device[s].present
       /\ prog[s].mode = "read" /\ device[s].present =>
            \A i \in 0 .. ReadSize - 1 :
              i2c_state[s].buf[i] = device[s].regs[(prog[s].reg + i) % Registers]

(* When a transaction is over, both lines are free, and whoever is not in a    *)
(* call, or has registered the port again in the middle of a transaction,      *)
(* finds it ready for the next one.                                            *)
LinesFree ==
  \A s \in Ports :
    /\ Finished(s) => Line(s) = [scl |-> 1, sda |-> 1]
    /\ prog[s].at = "idle" => ~Busy(i2c_state[s])

(* Every transaction ends, the interrupt that drives it is never disabled     *)
(* under it, although both the calls and the interrupt change i2c_txn_count.  *)
EveryCallReturns ==
  \A s \in Ports :
    [](prog[s].at \notin {"idle", "off"} => <>(prog[s].at \in {"idle", "off"}))

(* "Number of currently processed I2C transactions", which disables the       *)
(* interrupt when "it reaches 0": no port then still needs the interrupt.     *)
InterruptServes ==
  ~timer => \A s \in Ports : prog[s].at = "wait" => ~Busy(i2c_state[s])

(* "When everything's done, simply return the last sub transaction result":    *)
(* who asks after a transaction is told that it failed if it failed.           *)
StatusTrue ==
  \A s \in Ports : Finished(s) /\ Failed(s) => TxnStatus(i2c_state[s]) = {"TXN_STAT_FAILED"}

(* What nx_i2c_memory_write is given is in the device's memory when the       *)
(* device has acknowledged everything.                                        *)
WritesArrive ==
  \A s \in Ports : Finished(s) /\ ~Failed(s) /\ prog[s].mode = "write" =>
    device[s].regs[prog[s].reg] = prog[s].value

\* Without Gap the interrupt waits for the port to be registered again.
Fairness ==
  /\ WF_i2cVars(Isr)
  /\ \A s \in Ports :
       /\ WF_i2cVars(AddTxn(s)) /\ WF_i2cVars(CountTxn(s)) /\ WF_i2cVars(Trigger(s))
       /\ WF_i2cVars(~Gap /\ Enable(s)) /\ WF_i2cVars(IdleBus(s)) /\ WF_i2cVars(Empty(s))
       /\ WF_i2cVars(Return(s)) /\ WF_i2cVars(Unstretch(s))

Spec == Init /\ [][Next]_i2cVars /\ Fairness
=============================================================================
