----------------------------- MODULE Bluetooth -----------------------------
(***************************************************************************)
(* The Bluetooth driver, base/drivers/bt.c: its callback, run by the       *)
(* UART's interrupt, the calls of the program, and beside them the line    *)
(* and the Bluecore.                                                       *)
(*                                                                         *)
(* The interrupt with its callback is one step.  A call is as many steps   *)
(* as the interrupt can tell apart: the packet written, each look at       *)
(* last_msg, each byte of the answer read, each store to what the callback *)
(* reads.  A value that the program sends with a command comes back in the *)
(* answer to it, so that it is known whose answer it is.                   *)
(***************************************************************************)
EXTENDS Uart, SequencesExt

CONSTANTS
    Devices,    \* remote devices that a listing finds
    Peers,      \* those that ask for a connection
    None,       \* no device, no value
    Programs,   \* the sets of calls of which the program makes those of one
    Rules,      \* what the program and the Bluecore keep to, see below
    MaxFaults   \* bound: messages damaged on the line, breaks, resets

Values == {0, 1}

\* What each call waits for.
Answer ==
    [nx_bt_set_friendly_name |-> "SET_FRIENDLY_NAME_ACK",
     nx_bt_set_discoverable |-> "SET_DISCOVERABLE_ACK",
     nx_bt_begin_inquiry |-> "INQUIRY_RUNNING",
     nx_bt_cancel_inquiry |-> "INQUIRY_STOPPED",
     nx_bt_add_known_device |-> "LIST_RESULT",
     nx_bt_remove_known_device |-> "LIST_RESULT",
     nx_bt_get_version |-> "GET_VERSION_RESULT",
     nx_bt_get_friendly_name |-> "GET_FRIENDLY_NAME_RESULT",
     nx_bt_open_port |-> "PORT_OPEN_RESULT",
     nx_bt_close_port |-> "CLOSE_PORT_RESULT",
     nx_bt_send_pin |-> "PIN_CODE_ACK",
     nx_bt_get_link_quality |-> "LINK_QUALITY_RESULT",
     nx_bt_close_connection |-> "CLOSE_CONNECTION_RESULT"]

\* The calls that return what the answer holds.
Results ==
    {"nx_bt_add_known_device", "nx_bt_remove_known_device", "nx_bt_get_version",
     "nx_bt_get_friendly_name", "nx_bt_open_port", "nx_bt_close_port",
     "nx_bt_get_link_quality", "nx_bt_close_connection"}

\* Those that write again and again until they are answered, that wait again
\* until the answer is about their own handle, whose packet is on the stack,
\* and that send it from its second byte on.
Retried ==
    {"nx_bt_set_friendly_name", "nx_bt_set_discoverable", "nx_bt_begin_inquiry"}
Matched == {"nx_bt_close_port", "nx_bt_close_connection"}
OnStack ==
    {"nx_bt_set_friendly_name", "nx_bt_begin_inquiry", "nx_bt_add_known_device",
     "nx_bt_remove_known_device", "nx_bt_close_port", "nx_bt_send_pin",
     "nx_bt_get_link_quality", "nx_bt_close_connection", "nx_bt_stream_open"}
Headless == {"nx_bt_get_link_quality", "nx_bt_close_connection"}

Listings == {"nx_bt_begin_inquiry", "nx_bt_begin_known_devices_dumping"}

\* The calls that only write.
Unanswered ==
    {"nx_bt_begin_known_devices_dumping", "nx_bt_accept_connection", "nx_bt_stream_open"}

ASSUME BluetoothAssumption ==
    /\ None \notin Devices \cup Peers \cup Values
    /\ Programs \subseteq SUBSET (DOMAIN Answer \cup Unanswered)
    /\ Rules \subseteq {"prompt", "punctual", "quiet", "fresh", "matched_ids",
                        "one_thing", "drained"}
    /\ MaxFaults \in Nat

VARIABLES
    uart,       \* module Uart
    bt_state,   \* the driver's
    prog,       \* the calls that the program makes and its place in one
    line,       \* bytes on their way from the Bluecore
    bc,         \* the Bluecore
    owed        \* what the driver owes: see the comments where it changes

vars == <<uart, bt_state, prog, line, bc, owed>>

---------------------------------------------------------------------------
(* The callback *)

\* A message of its type and of what it says; damaged, its checksum is wrong.
Message(type, arg, sound) ==
    [type |-> type, arg |-> arg, sound |-> sound, size |-> IF arg = None THEN 1 ELSE 2]

Bytes(m) == [k \in 1..(m.size + 1) |-> [of |-> m, k |-> k - 1]]

\* bt_check_checksum.  No message is one byte long, for which len - 2 would wrap
\* in bt_get_checksum: the line does not damage the byte of the length.
Checked(call) ==
    /\ call.len > 0 /\ Len(call.buf) = call.len
    /\ LET m == call.buf[1].of
       IN  call.buf = [k \in 1..m.size |-> [of |-> m, k |-> k]] /\ m.sound

\* The ids are compared for equality only: 0, and then in turns 1 and 2.
NextId(id) == IF id = 2 THEN 1 ELSE id + 1

\* DeviceFound that writes over the last one.
DeviceFoundAlways(b, state, device) ==
    IF b.state # state THEN b
    ELSE [b EXCEPT !.remote_device = device, !.remote_id = NextId(@)]

\* A device of a listing, unless the last one has not been fetched.
DeviceFound(b, state, device) ==
    IF b.state # state \/ b.last_checked_id # b.remote_id THEN b
    ELSE [b EXCEPT !.remote_device = device, !.remote_id = NextId(@)]

\* bt_uart_command_callback.  Of last_msg only what a call waits for is kept
\* apart, of args only what an answer returns.
Callback(b, call) ==
    IF ~Checked(call) THEN [b EXCEPT !.nmb_checksum_errors = @ + 1]
    ELSE
    LET m == call.buf[1].of
        t == [b EXCEPT !.last_msg = IF m.type \in Range(Answer) THEN m.type ELSE "OTHER",
                       !.args = IF m.arg \in Values THEN <<m.arg, m.arg>> ELSE <<None, None>>]
        waits(state) == IF t.state = state THEN [t EXCEPT !.state = "WAITING"] ELSE t
    IN  CASE m.type = "INQUIRY_RESULT" -> DeviceFound(t, "INQUIRING", m.arg)
          [] m.type = "LIST_ITEM" -> DeviceFound(t, "KNOWN_DEVICES_DUMPING", m.arg)
          [] m.type = "INQUIRY_STOPPED" -> waits("INQUIRING")
          [] m.type = "LIST_DUMP_STOPPED" -> waits("KNOWN_DEVICES_DUMPING")
          [] m.type = "RESET_INDICATION" -> [t EXCEPT !.state = "WAITING"]
          [] m.type = "REQUEST_PIN_CODE" -> [t EXCEPT !.dev_waiting_for_pin = m.arg]
          [] m.type = "REQUEST_CONNECTION" -> [t EXCEPT !.dev_waiting_for_connection = m.arg]
          [] m.type = "CONNECT_RESULT" ->
                IF m.arg = None THEN t ELSE [t EXCEPT !.new_handle = m.arg]
          [] OTHER -> t

\* What the driver owes the program after a message: a device that it has
\* stored, a request or a handle.  And the Bluecore: to have had it whole.
Owes(o, b, call) ==
    LET m == Head(o.messages)
        whole == call.buf = [k \in 1..m.size |-> [of |-> m, k |-> k]] /\ call.len = m.size
        had == [o EXCEPT !.messages = Tail(@), !.framed = @ /\ whole]
    IN
    IF call.len = 0 THEN o
    ELSE IF o.messages = <<>> THEN [o EXCEPT !.framed = FALSE]
    ELSE IF ~whole \/ ~m.sound THEN had
    ELSE CASE m.type \in {"INQUIRY_RESULT", "LIST_ITEM"} ->
                 IF Callback(b, call).remote_id # b.remote_id
                 THEN [had EXCEPT !.device = m.arg] ELSE had
           [] m.type = "REQUEST_PIN_CODE" -> [had EXCEPT !.pin = m.arg]
           [] m.type = "REQUEST_CONNECTION" -> [had EXCEPT !.connection = m.arg]
           [] m.type = "CONNECT_RESULT" /\ m.arg # None -> [had EXCEPT !.handle = m.arg]
           [] OTHER -> had

\* The calls of one interrupt: none, one, or one for a break and one for a packet.
InTurn(Does(_, _), start, calls) ==
    CASE Len(calls) = 0 -> start
      [] Len(calls) = 1 -> Does(start, calls[1])
      [] Len(calls) = 2 -> Does(Does(start, calls[1]), calls[2])

\* uart_isr and the callback that it calls.
Isr ==
    /\ Interrupting(uart)
    /\ \E s \in {UartIsr(uart)} :
           /\ uart' = s.u
           /\ bt_state' = InTurn(Callback, bt_state, s.calls)
           /\ owed' = InTurn(LAMBDA o, call : Owes(o, bt_state, call), owed, s.calls)
    /\ UNCHANGED <<prog, line, bc>>

---------------------------------------------------------------------------
(* The calls *)

Idle == [prog EXCEPT !.at = "idle", !.call = "none", !.arg = None, !.got = <<>>]

At(place) == prog.at = place
Go(place) == prog' = [prog EXCEPT !.at = place]

Streaming == bt_state.state = "STREAMING"
\* Nothing is on its way from the Bluecore.
Silent == line = <<>> /\ ~Interrupting(uart) /\ uart.rhr = NoByte /\ uart.got = <<>>

\* Nobody asks or has asked for a connection; no listing goes on.
Unpaired ==
    /\ bc.peer = "none" /\ Silent
    /\ bt_state.dev_waiting_for_connection = None /\ bt_state.new_handle = None
Unlisted == bc.listing = "none" /\ bt_state.state = "WAITING"

\* While a stream is open only its own calls are made: bt.h:197.
\*   fresh        no call when the last message is of the type that it waits for
\*   matched_ids  no listing is begun with the ids apart, see begin_inquiry
\*   drained      a stream is opened and closed with nothing on its way
\*   one_thing    one listing, one connection or one stream at a time
CallMay(c) ==
    /\ "fresh" \in Rules /\ c \in DOMAIN Answer => bt_state.last_msg # Answer[c]
    /\ "matched_ids" \in Rules =>
           /\ c = "nx_bt_begin_inquiry" => bt_state.remote_id = 0
           /\ c = "nx_bt_begin_known_devices_dumping" =>
                  bt_state.last_checked_id = bt_state.remote_id
    /\ "drained" \in Rules /\ c = "nx_bt_stream_open" =>
           Silent /\ ~IsWriting(uart)
    /\ "one_thing" \in Rules /\ c \in Listings \cup {"nx_bt_stream_open"} => Unpaired /\ Unlisted

\* send_pin and accept_connection return at once when no device waits.  What
\* the program answers, and what an earlier listing found, is owed no more.
Call ==
    /\ At("idle") /\ ~Streaming
    /\ \E c \in prog.calls, v \in Values :
           /\ CallMay(c)
           /\ c \notin Results \cup {"nx_bt_accept_connection"} => v = 0
           /\ c = "nx_bt_send_pin" => bt_state.dev_waiting_for_pin # None
           /\ c = "nx_bt_accept_connection" => bt_state.dev_waiting_for_connection # None
           /\ prog' = [Idle EXCEPT !.at = "write", !.call = c, !.arg = v]
           /\ owed' = IF c = "nx_bt_send_pin" THEN [owed EXCEPT !.pin = None]
                      ELSE IF c = "nx_bt_accept_connection" THEN [owed EXCEPT !.connection = None]
                      ELSE IF c \in Listings THEN [owed EXCEPT !.device = None]
                      ELSE owed
    /\ UNCHANGED <<uart, bt_state, line, bc>>

\* nx__uart_write, and what follows it at once.  nx_bt_close_connection does not
\* wait for the answer about handle 0: its ret_handle starts with that.
Write ==
    /\ At("write") /\ CanWrite(uart)
    /\ uart' = UartWrite(uart, [call |-> prog.call, arg |-> prog.arg,
                                framed |-> prog.call \notin Headless, whole |-> TRUE])
    /\ IF prog.call = "nx_bt_close_connection" /\ prog.arg = 0
       THEN prog' = [prog EXCEPT !.at = "read", !.got = <<0>>]
       ELSE Go(CASE prog.call \in DOMAIN Answer -> "wait"
                 [] prog.call = "nx_bt_begin_known_devices_dumping" -> "set_state"
                 [] prog.call = "nx_bt_accept_connection" -> "clear"
                 [] prog.call = "nx_bt_stream_open" -> "drain")
    /\ UNCHANGED <<bt_state, line, bc, owed>>

\* The loop of bt_wait_msg: it ends on what is there already, too.
Wait ==
    /\ At("wait") /\ bt_state.last_msg = Answer[prog.call]
    /\ Go("check")
    /\ UNCHANGED <<uart, bt_state, line, bc, owed>>

\* A wait without an end.
TimeoutNever ==
    /\ At("wait") /\ bt_state.last_msg = "never"
    /\ Go("check")
    /\ UNCHANGED <<uart, bt_state, line, bc, owed>>

\* punctual: BT_ACK_TIMEOUT is over only when no answer will come any more.
Timeout ==
    /\ At("wait")
    /\ "punctual" \in Rules => Silent /\ ~IsWriting(uart) /\ bt_state.last_msg # Answer[prog.call]
    /\ Go("check")
    /\ UNCHANGED <<uart, bt_state, line, bc, owed>>

\* The second look of bt_wait_msg, which is its result.
AfterAnswer(c) ==
    CASE c \in Matched -> "compare"
      [] c \in Results \ Matched -> "read"
      [] c = "nx_bt_begin_inquiry" -> "reset_id"
      [] c = "nx_bt_send_pin" -> "clear"
      [] OTHER -> "return"

\* Check that takes the end of the loop for an answer.
CheckUnlooked ==
    /\ At("check")
    /\ Go(AfterAnswer(prog.call))
    /\ UNCHANGED <<uart, bt_state, line, bc, owed>>

Check ==
    /\ At("check")
    /\ IF bt_state.last_msg = Answer[prog.call] THEN Go(AfterAnswer(prog.call))
       ELSE IF prog.call \in Retried THEN Go("write")
       ELSE IF prog.call = "nx_bt_send_pin" THEN Go("clear")
       ELSE prog' = [prog EXCEPT !.at = "return",
                                 !.got = IF prog.call \in Results THEN <<"failed">> ELSE <<>>]
    /\ UNCHANGED <<uart, bt_state, line, bc, owed>>

\* The handle, the second byte of args.  One that is not the caller's: wait again.
Compare ==
    /\ At("compare")
    /\ prog' = IF bt_state.args[2] # prog.arg THEN [prog EXCEPT !.at = "wait"]
               ELSE [prog EXCEPT !.at = "read", !.got = <<bt_state.args[2]>>]
    /\ UNCHANGED <<uart, bt_state, line, bc, owed>>

\* args is read byte by byte; after the handle its first.
Read ==
    /\ At("read")
    /\ LET k == IF prog.call \in Matched THEN 1 ELSE Len(prog.got) + 1 IN
       prog' = [prog EXCEPT !.got = Append(@, bt_state.args[k]),
                            !.at = IF prog.got = <<>> THEN "read" ELSE "return"]
    /\ UNCHANGED <<uart, bt_state, line, bc, owed>>

ResetId ==
    /\ At("reset_id")
    /\ bt_state' = [bt_state EXCEPT !.last_checked_id = 0]
    /\ Go("set_state")
    /\ UNCHANGED <<uart, line, bc, owed>>

SetState ==
    /\ At("set_state")
    /\ bt_state' = [bt_state EXCEPT !.state = IF prog.call = "nx_bt_begin_inquiry"
                                              THEN "INQUIRING" ELSE "KNOWN_DEVICES_DUMPING"]
    /\ Go("return")
    /\ UNCHANGED <<uart, line, bc, owed>>

\* Clear of both addresses.
ClearBoth ==
    /\ At("clear")
    /\ bt_state' = [bt_state EXCEPT !.dev_waiting_for_pin = None,
                                    !.dev_waiting_for_connection = None]
    /\ Go(IF prog.call = "nx_bt_send_pin" THEN "return" ELSE "drain")
    /\ UNCHANGED <<uart, line, bc, owed>>

\* The address is cleared whoever waits by now.
Clear ==
    /\ At("clear")
    /\ bt_state' = IF prog.call = "nx_bt_send_pin"
                   THEN [bt_state EXCEPT !.dev_waiting_for_pin = None]
                   ELSE [bt_state EXCEPT !.dev_waiting_for_connection = None]
    /\ Go(IF prog.call = "nx_bt_send_pin" THEN "return" ELSE "drain")
    /\ UNCHANGED <<uart, line, bc, owed>>

\* Drain that asks nx__uart_can_write.
DrainRoom ==
    /\ At("drain") /\ CanWrite(uart)
    /\ Go(IF prog.call = "nx_bt_stream_open" THEN "mute" ELSE "return")
    /\ UNCHANGED <<uart, bt_state, line, bc, owed>>

Drain ==
    /\ At("drain") /\ ~IsWriting(uart)
    /\ Go(IF prog.call = "nx_bt_stream_open" THEN "mute" ELSE "return")
    /\ UNCHANGED <<uart, bt_state, line, bc, owed>>

\* The frame is gone: what the PDC still reads from it is not the packet.
Gone(packet) == [packet EXCEPT !.whole = @ /\ packet.call \notin OnStack]

Return ==
    /\ At("return")
    /\ uart' = [uart EXCEPT !.tcr = Gone(@), !.tncr = Gone(@)]
    /\ prog' = Idle
    /\ UNCHANGED <<bt_state, line, bc, owed>>

\* nx_bt_get_discovered_device, nx_bt_get_known_device
HasDevice ==
    /\ bt_state.state \in {"INQUIRING", "KNOWN_DEVICES_DUMPING"}
    /\ bt_state.last_checked_id # bt_state.remote_id

GetDevice ==
    /\ At("idle") /\ HasDevice
    /\ prog' = [Idle EXCEPT !.at = "copy"]
    /\ UNCHANGED <<uart, bt_state, line, bc, owed>>

\* memcpy, in two parts
CopyDevice ==
    /\ At("copy")
    /\ prog' = [prog EXCEPT !.got = Append(@, bt_state.remote_device),
                            !.at = IF Len(prog.got) = 1 THEN "copied" ELSE "copy"]
    /\ UNCHANGED <<uart, bt_state, line, bc, owed>>

CheckId ==
    /\ At("copied")
    /\ bt_state' = [bt_state EXCEPT !.last_checked_id = bt_state.remote_id]
    /\ owed' = [owed EXCEPT !.device = None]
    /\ prog' = Idle
    /\ UNCHANGED <<uart, line, bc>>

\* nx_bt_connection_established
ReadHandle ==
    /\ At("idle") /\ bt_state.new_handle # None
    /\ prog' = [Idle EXCEPT !.at = "established", !.arg = bt_state.new_handle]
    /\ owed' = [owed EXCEPT !.handle = None]
    /\ UNCHANGED <<uart, bt_state, line, bc>>

ResetHandle ==
    /\ At("established")
    /\ bt_state' = [bt_state EXCEPT !.new_handle = None]
    /\ prog' = Idle
    /\ UNCHANGED <<uart, line, bc, owed>>

\* The end of nx_bt_stream_open.
Mute ==
    /\ At("mute")
    /\ uart' = SetCallback(uart, FALSE)
    /\ Go("raise")
    /\ UNCHANGED <<bt_state, line, bc, owed>>

Raise ==
    /\ At("raise")
    /\ bc' = [bc EXCEPT !.arm_cmd = TRUE]
    /\ bt_state' = [bt_state EXCEPT !.state = "STREAMING"]
    /\ Go("return")
    /\ UNCHANGED <<uart, line, owed>>

\* A buffer of one byte or of two, when the one before it is full.
StreamRead ==
    /\ At("idle") /\ Streaming /\ uart.rcr = 0
    /\ \E n \in 1..2 : uart' = UartRead(uart, n)
    /\ owed' = [owed EXCEPT !.data = SubSeq(@, Len(uart.got) + 1, Len(@))]
    /\ UNCHANGED <<bt_state, prog, line, bc>>

StreamWrite ==
    /\ At("idle") /\ Streaming /\ CanWrite(uart)
    /\ uart' = UartWrite(uart, [call |-> "nx_bt_stream_write", arg |-> 0,
                                framed |-> TRUE, whole |-> TRUE])
    /\ UNCHANGED <<bt_state, prog, line, bc, owed>>

StreamClose ==
    /\ At("idle") /\ Streaming
    /\ "drained" \in Rules => line = <<>> /\ ~IsWriting(uart)
    /\ uart' = SetCallback(uart, TRUE)
    /\ prog' = [Idle EXCEPT !.at = "lower"]
    /\ owed' = [owed EXCEPT !.data = SubSeq(@, Len(uart.got) + 1, Len(@))]
    /\ UNCHANGED <<bt_state, line, bc>>

Lower ==
    /\ At("lower")
    /\ bc' = [bc EXCEPT !.arm_cmd = FALSE, !.stream = FALSE]
    /\ bt_state' = [bt_state EXCEPT !.state = "WAITING"]
    /\ owed' = [owed EXCEPT !.data = <<>>]
    /\ prog' = Idle
    /\ UNCHANGED <<uart, line>>

InCall ==
    \/ Write \/ Wait \/ Timeout \/ Check \/ Compare \/ Read \/ ResetId
    \/ SetState \/ Clear \/ Drain \/ Mute \/ Raise \/ Return
    \/ CopyDevice \/ CheckId \/ ResetHandle \/ Lower

Program ==
    InCall \/ Call \/ GetDevice \/ ReadHandle \/ StreamRead \/ StreamWrite \/ StreamClose

---------------------------------------------------------------------------
(* The line and the Bluecore *)

\* prompt: no byte overtakes the interrupt of the one before it.
Deliver ==
    /\ line # <<>> /\ RTS(uart)
    /\ "prompt" \in Rules => uart.rhr = NoByte /\ ~Interrupting(uart)
    /\ uart' = Received(uart, Head(line))
    /\ line' = Tail(line)
    /\ UNCHANGED <<bt_state, prog, bc, owed>>

\* The Bluecore, in the state b, sends a message, which may be damaged on the line.
Sends(b, type, arg) ==
    /\ line = <<>>
    /\ \E sound \in {TRUE} \cup (IF bc.faults < MaxFaults THEN {FALSE} ELSE {}) :
           LET m == Message(type, arg, sound) IN
           /\ line' = Bytes(m)
           /\ owed' = [owed EXCEPT !.messages = Append(@, m)]
           /\ bc' = [b EXCEPT !.faults = IF sound THEN @ ELSE @ + 1]

\* What a command makes of the Bluecore.
Commanded(packet) ==
    CASE packet.call = "nx_bt_begin_inquiry" -> [bc EXCEPT !.listing = "INQUIRY"]
      [] packet.call = "nx_bt_begin_known_devices_dumping" -> [bc EXCEPT !.listing = "LIST"]
      [] packet.call = "nx_bt_cancel_inquiry" -> [bc EXCEPT !.listing = "none"]
      [] packet.call = "nx_bt_accept_connection" ->
             [bc EXCEPT !.peer = IF packet.arg = 1 THEN "accepted" ELSE "none"]
      [] packet.call = "nx_bt_send_pin" -> [bc EXCEPT !.peer = "paired"]
      [] packet.call = "nx_bt_stream_open" -> [bc EXCEPT !.stream = TRUE]
      [] OTHER -> bc

\* The packet in the transmitter gets to the Bluecore: an acknowledgement says
\* nothing, a result what was sent.
Serve ==
    /\ IsWriting(uart)
    /\ uart' = Sent(uart)
    /\ LET p == uart.tcr
           understood == p.framed /\ p.whole /\ (p.call = "nx_bt_stream_write" <=> bc.arm_cmd)
       IN  IF ~understood
           THEN bc' = [bc EXCEPT !.confused = TRUE] /\ UNCHANGED <<line, owed>>
           ELSE IF p.call \notin DOMAIN Answer
           THEN bc' = Commanded(p) /\ UNCHANGED <<line, owed>>
           ELSE Sends(Commanded(p), Answer[p.call], IF p.call \in Results THEN p.arg ELSE None)
    /\ UNCHANGED <<bt_state, prog>>

\* What the Bluecore sends unasked.
\*   one_thing  as above, and each request and handle when the one before it
\*              has been answered
\*   quiet      nothing while the program is in a call that writes, but what a
\*              pairing brings while the program answers in it
Unasked(b, type, arg) ==
    /\ ~bc.arm_cmd /\ ~bc.stream
    /\ "quiet" \in Rules => 
           \/ prog.call = "none"
           \/ b.peer # bc.peer /\ prog.call \in {"nx_bt_accept_connection", "nx_bt_send_pin"}
    /\ Sends(b, type, arg)
    /\ UNCHANGED <<uart, bt_state, prog>>

Heartbeat == Unasked(bc, "HEARTBEAT", None)

List ==
    /\ bc.listing # "none"
    /\ \/ \E d \in Devices :
              Unasked(bc, IF bc.listing = "LIST" THEN "LIST_ITEM" ELSE "INQUIRY_RESULT", d)
       \/ Unasked([bc EXCEPT !.listing = "none"],
                  IF bc.listing = "LIST" THEN "LIST_DUMP_STOPPED" ELSE "INQUIRY_STOPPED", None)

PeerIs(stage) == "one_thing" \in Rules => bc.peer = stage

\* One who wants a connection, of a program that accepts it.
Peer ==
    /\ "nx_bt_accept_connection" \in prog.calls
    /\ \/ PeerIs("none") /\ ("one_thing" \in Rules => Unpaired /\ Unlisted) /\ \E d \in Peers :
              Unasked([bc EXCEPT !.peer = "asks"], "REQUEST_CONNECTION", d)
       \/ PeerIs("accepted") /\ \E d \in Peers :
              Unasked([bc EXCEPT !.peer = "pin"], "REQUEST_PIN_CODE", d)
       \/ PeerIs("paired") /\ \E h \in Values \cup {None} :
              Unasked([bc EXCEPT !.peer = "none"], "CONNECT_RESULT", h)

Reset ==
    /\ bc.faults < MaxFaults /\ PeerIs("none")
    /\ Unasked([bc EXCEPT !.listing = "none", !.peer = "none", !.faults = @ + 1],
               "RESET_INDICATION", None)

Break ==
    /\ bc.faults < MaxFaults /\ ~bc.arm_cmd /\ ~bc.stream
    /\ uart' = [uart EXCEPT !.brk = TRUE]
    /\ bc' = [bc EXCEPT !.faults = @ + 1]
    /\ UNCHANGED <<bt_state, prog, line, owed>>

\* A byte of a stream, numbered modulo 4: a buffer of two and one on its way.
\* drained: none between the two steps of nx_bt_stream_close.
Stream ==
    /\ bc.stream /\ bc.arm_cmd /\ line = <<>>
    /\ "drained" \in Rules => ~At("lower")
    /\ line' = <<[of |-> [size |-> 1, data |-> bc.next], k |-> 1]>>
    /\ owed' = [owed EXCEPT !.data = Append(@, Head(line'))]
    /\ bc' = [bc EXCEPT !.next = (@ + 1) % 4]
    /\ UNCHANGED <<uart, bt_state, prog>>

\* The fields of bt_state, as nx_bt_init leaves them.
NewBtState ==
    [state |-> "WAITING", last_checked_id |-> 0, remote_id |-> 0, remote_device |-> None,
     dev_waiting_for_pin |-> None, dev_waiting_for_connection |-> None,
     new_handle |-> None, last_msg |-> "OTHER", args |-> <<None, None>>,
     nmb_checksum_errors |-> 0]

Init ==
    /\ uart = UartInit
    /\ bt_state = NewBtState
    /\ \E calls \in Programs :
           prog = [calls |-> calls, at |-> "idle", call |-> "none", arg |-> None, got |-> <<>>]
    /\ line = <<>>
    /\ bc = [listing |-> "none", peer |-> "none", stream |-> FALSE, arm_cmd |-> FALSE,
             next |-> 0, faults |-> 0, confused |-> FALSE]
    /\ owed = [messages |-> <<>>, framed |-> TRUE, device |-> None, pin |-> None,
               connection |-> None, handle |-> None, data |-> <<>>]

Next ==
    \/ Isr \/ Program \/ Deliver
    \/ Serve \/ Heartbeat \/ List \/ Peer \/ Reset \/ Break \/ Stream

Spec ==
    /\ Init /\ [][Next]_vars
    /\ WF_vars(Isr) /\ WF_vars(InCall) /\ WF_vars(Deliver) /\ SF_vars(Serve)

---------------------------------------------------------------------------
(* Properties *)

\* Every message of the Bluecore gets to the callback once, in order, with its
\* own bytes and its own length, whatever the interrupt finds in the status
\* register; what is counted as an error is a damaged message or a break.
MessagesFramed ==
    /\ owed.framed
    /\ bt_state.nmb_checksum_errors <= bc.faults
    /\ Silent /\ ~Streaming => owed.messages = <<>>

\* What the Bluecore receives is a command as it was written, with its length,
\* while the frame that it was built in lives, and stream data in stream mode.
CommandsWhole == ~bc.confused

\* A call returns what the Bluecore answered to this very call, both bytes of
\* it, and fails only after a fault.
AnswersOwn ==
    At("return") /\ prog.call \in Results =>
        \/ prog.got = <<prog.arg, prog.arg>>
        \/ prog.got = <<"failed">> /\ bc.faults > 0

\* A device that the program gets is one that the callback stored in this
\* listing, whole although it is copied with the interrupts on, and not one
\* that the program has had.
DevicesWhole ==
    At("copied") => owed.device # None /\ prog.got = <<owed.device, owed.device>>

\* A request for a pin or for a connection, and a handle, stay until the
\* program has answered that very one, or taken it.
RequestsKept ==
    /\ owed.pin # None => bt_state.dev_waiting_for_pin = owed.pin
    /\ owed.connection # None => bt_state.dev_waiting_for_connection = owed.connection
    /\ owed.handle # None => bt_state.new_handle = owed.handle

\* The two ends mean the same by what goes over the wire: the program's
\* commands and the answers that it gets to them,
CallsTrue == CommandsWhole /\ AnswersOwn

\* and what the Bluecore tells unasked.
MessagesTrue == MessagesFramed /\ DevicesWhole /\ RequestsKept

\* The bytes of a stream get to the program's buffers in order, nothing of the
\* messages before it among them.
StreamWhole ==
    Streaming => uart.got \o line = owed.data

\* Every call returns.
CallsReturn == prog.at # "idle" ~> prog.at = "idle"

\* A listing has ended only when the program has had each device stored.
ListingsEmptied == bt_state.state = "WAITING" => owed.device = None

=============================================================================
