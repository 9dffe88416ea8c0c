-------------------------- MODULE BluetoothProofs --------------------------
(***************************************************************************)
(* What Bluetooth promises, for any devices and peers, any programs of     *)
(* calls, every UART_BUFSIZE and any number of faults: commands and        *)
(* answers belong to each other, messages are framed and kept, and a       *)
(* stream is whole.                                                        *)
(*                                                                         *)
(* The invariant is a conjunction of statements about a UART u, a driver   *)
(* b, a program p, a line l, a Bluecore c, what is owed o, and the         *)
(* messages ms that are on their way; so what a step does to each is said  *)
(* of values.                                                              *)
(***************************************************************************)
EXTENDS Bluetooth, SequenceTheorems, TLAPS

\* The calls, those whose answer shows that they are over (an INQUIRY_STOPPED is
\* also what ends an inquiry), their answers, and what the Bluecore sends unasked.
Calls == DOMAIN Answer \cup Unanswered
Answered == DOMAIN Answer \ {"nx_bt_cancel_inquiry"}
OwnTypes == {Answer[call] : call \in Answered}
Asked == {"REQUEST_PIN_CODE", "REQUEST_CONNECTION", "CONNECT_RESULT"}
UnaskedTypes == Asked \cup
    {"HEARTBEAT", "LIST_ITEM", "INQUIRY_RESULT", "LIST_DUMP_STOPPED", "INQUIRY_STOPPED",
     "RESET_INDICATION"}

\* What a message of a type can say.
Args(type) ==
    CASE type \in {"LIST_ITEM", "INQUIRY_RESULT"} -> Devices
      [] type \in {"REQUEST_PIN_CODE", "REQUEST_CONNECTION"} -> Peers
      [] OTHER -> Values \cup {None}

Msg == {m \in [type : OwnTypes \cup UnaskedTypes, arg : Devices \cup Peers \cup Values \cup {None},
               sound : BOOLEAN, size : {1, 2}] : m.arg \in Args(m.type)}
Byte == [of : Msg, k : 0..2] \cup [of : [size : {1}, data : 0..3], k : {1}] \cup {NoByte}
Packet == [call : Calls \cup {"nx_bt_stream_write", "none"}, arg : Values,
           framed : BOOLEAN, whole : BOOLEAN]

\* The types of the variables.
UType(u) ==
    u \in [callback : BOOLEAN, packet_size : Nat, to_read : Nat, ier : SUBSET Interrupts,
           brk : BOOLEAN, rhr : Byte, rxten : BOOLEAN, rcr : Nat, got : Seq(Byte),
           tcr : Packet, tncr : Packet]
BType(b) ==
    b \in [state : {"WAITING", "INQUIRING", "KNOWN_DEVICES_DUMPING", "STREAMING"},
           last_checked_id : 0..2, remote_id : 0..2, remote_device : Devices \cup {None},
           dev_waiting_for_pin : Peers \cup {None},
           dev_waiting_for_connection : Peers \cup {None},
           new_handle : Values \cup {None},
           last_msg : OwnTypes \cup {"INQUIRY_STOPPED", "OTHER"},
           args : {<<v, v>> : v \in Values \cup {None}}, nmb_checksum_errors : Nat]
CType(c) ==
    c \in [listing : {"none", "INQUIRY", "LIST"},
           peer : {"none", "asks", "accepted", "pin", "paired"},
           stream : BOOLEAN, arm_cmd : BOOLEAN, next : 0..3, faults : Nat,
           confused : BOOLEAN]
OType(o) ==
    o \in [messages : Seq(Msg), framed : BOOLEAN, device : Devices \cup {None},
           pin : Peers \cup {None}, connection : Peers \cup {None},
           handle : Values \cup {None}, data : Seq(Byte)]

AnyPlace ==
    {"idle", "write", "wait", "check", "compare", "read", "reset_id", "set_state", "clear",
     "drain", "mute", "raise", "return", "copy", "copied", "established", "lower"}

\* Where the program can be in a call, and between its calls.
Places(call) ==
    CASE call = "none" -> {"idle", "copy", "copied", "established", "lower"}
      [] call \in Matched -> {"write", "wait", "check", "compare", "read", "return"}
      [] call \in Results \ Matched -> {"write", "wait", "check", "read", "return"}
      [] call = "nx_bt_begin_inquiry" ->
             {"write", "wait", "check", "reset_id", "set_state", "return"}
      [] call = "nx_bt_begin_known_devices_dumping" -> {"write", "set_state", "return"}
      [] call = "nx_bt_send_pin" -> {"write", "wait", "check", "clear", "return"}
      [] call = "nx_bt_accept_connection" -> {"write", "clear", "drain", "return"}
      [] call = "nx_bt_stream_open" -> {"write", "drain", "mute", "raise", "return"}
      [] OTHER -> {"write", "wait", "check", "return"}

PType(p) ==
    /\ p \in [calls : SUBSET (Calls \ Headless), at : AnyPlace, call : Calls \cup {"none"},
              arg : Values \cup {None}, got : Seq(Devices \cup Values \cup {None, "failed"})]
    /\ p.call \in p.calls \cup {"none"}
    /\ p.at \in Places(p.call)
    /\ p.call # "none" => p.arg \in Values
    /\ p.at \in {"idle", "write", "wait", "check", "compare"} => p.got = <<>>

---------------------------------------------------------------------------
(* Reception *)

\* The k-th byte of m, those from the j-th on, and the first j behind the length.
Of(m, k) == [of |-> m, k |-> k]
BytesFrom(m, j) == [k \in 1..(m.size + 1 - j) |-> Of(m, j + k - 1)]
BytesGot(m, j) == [k \in 1..j |-> Of(m, k)]

\* Nothing, or all of one message, is still on the line.
After(l, ms) == \/ l = <<>> /\ ms = <<>>
                \/ Len(ms) = 1 /\ l = BytesFrom(ms[1], 0)

\* The receiver waits for a length, holds one, or fills a buffer with the packet.
Resting(u, l, ms) ==
    /\ ~u.rxten /\ u.rcr = BufSize /\ u.rhr = NoByte /\ u.got = <<>>
    /\ "RXRDY" \in u.ier /\ After(l, ms)
Sized(u, l, ms) ==
    /\ ~u.rxten /\ u.rcr = BufSize /\ u.got = <<>> /\ "RXRDY" \in u.ier
    /\ Len(ms) = 1
    /\ u.rhr = Of(ms[1], 0) /\ l = BytesFrom(ms[1], 1)
Filling(u, l, ms) ==
    /\ u.rxten /\ u.rhr = NoByte /\ "ENDRX" \in u.ier
    /\ ms # <<>> /\ u.packet_size = ms[1].size
    /\ u.rcr \in 0..ms[1].size
    /\ u.got = BytesGot(ms[1], ms[1].size - u.rcr)
    /\ IF u.rcr = 0 THEN After(l, Tail(ms))
       ELSE Len(ms) = 1 /\ l = BytesFrom(ms[1], ms[1].size - u.rcr + 1)

Frame(u, l, ms) ==
    /\ "RXBRK" \in u.ier
    /\ Resting(u, l, ms) \/ Sized(u, l, ms) \/ Filling(u, l, ms)

\* The driver takes no messages: in a stream, and right before it.
Deaf(b, p) == p.at = "raise" \/ (b.state = "STREAMING" /\ p.at # "lower")

Reception(u, b, p, l, o) ==
    /\ ~Deaf(b, p) => Frame(u, l, o.messages)
    /\ Deaf(b, p) =>
           /\ u.ier = {} /\ u.rhr = NoByte /\ o.messages = <<>>
           /\ u.rcr > 0 => u.rxten
           /\ u.got \o l = o.data
    /\ o.framed

\* The two ends agree on the mode but between two stores of the program, and
\* nothing is on its way when it changes.
Modes(b, p, l, c, o) ==
    /\ c.arm_cmd <=> b.state = "STREAMING"
    /\ b.state = "STREAMING" =>
           /\ p.at \in {"idle", "lower"} \/ (p.at = "return" /\ p.call = "nx_bt_stream_open")
           /\ b.new_handle = None
    /\ p.at = "lower" =>
           b.state = "STREAMING" /\ l = <<>> /\ o.messages = <<>> /\ o.data = <<>>
    /\ b.state # "STREAMING" => o.data = <<>>
    /\ c.stream => c.arm_cmd \/ (p.call = "nx_bt_stream_open" /\ p.at \in {"drain", "mute", "raise"})
    /\ p.call = "nx_bt_stream_open" =>
           /\ b.new_handle = None /\ o.messages = <<>>
           /\ p.at # "return" => b.state = "WAITING" /\ l = <<>>
           /\ p.at = "return" => b.state = "STREAMING"

---------------------------------------------------------------------------
(* Commands and answers *)

\* The packets of the transmitter.  Those of the Loose calls may still be there
\* when the call has returned; of the others only the one of this call is.
Nothing(u) == u.tcr = NoPacket /\ u.tncr = NoPacket
Latest(u) == IF u.tncr = NoPacket THEN u.tcr ELSE u.tncr
Loose == {"nx_bt_cancel_inquiry", "nx_bt_begin_known_devices_dumping", "nx_bt_stream_write"}

Pending(u, p) ==
    /\ u.tcr # NoPacket
    /\ Latest(u).call = p.call /\ Latest(u).arg = p.arg
    /\ u.tncr # NoPacket => u.tcr.call \in Loose

AllLoose(u) == \A q \in {u.tcr, u.tncr} : q = NoPacket \/ q.call \in Loose

\* What is there at each place of a call; the Bluecore has understood it all.
Queue(u, p, c) ==
    /\ u.tcr = NoPacket => u.tncr = NoPacket
    /\ \A q \in {u.tcr, u.tncr} :
           /\ q.framed /\ q.whole
           /\ q # NoPacket => /\ q.call # "none"
                              /\ q.call = "nx_bt_stream_write" <=> c.arm_cmd
    /\ ~c.confused
    /\ p.call \in Answered \cup {"nx_bt_accept_connection", "nx_bt_stream_open"} =>
           CASE p.at = "write" -> AllLoose(u)
             [] p.at \in {"wait", "clear", "drain"} ->
                   Nothing(u) \/ (Pending(u, p) /\ p.call # "nx_bt_send_pin")
                              \/ (Pending(u, p) /\ p.at = "wait")
             [] p.at = "return" /\ p.call = "nx_bt_stream_open" -> AllLoose(u)
             [] OTHER -> Nothing(u)
    /\ p.call \notin Answered \cup {"nx_bt_accept_connection", "nx_bt_stream_open"} => AllLoose(u)
    /\ p.at = "lower" => Nothing(u)
    /\ p.call = "nx_bt_stream_open" /\ p.at = "write" => Nothing(u)
    /\ p.call = "nx_bt_stream_open" /\ p.at = "drain" => u.tncr = NoPacket

\* A message answers the call, and the driver's last message does.
Own(p, m) == p.call \in Answered /\ m.type = Answer[p.call]
Told(b, p) == b.last_msg = Answer[p.call]

\* A call that is to be answered has its command in the transmitter, or its own
\* answer on the way, or in args; or that was spoilt.
Answers(u, b, p, c, ms) ==
    /\ \A i \in 1..Len(ms) : ms[i].type \in OwnTypes =>
           /\ p.at = "wait" /\ Own(p, ms[i]) /\ ~Told(b, p) /\ Nothing(u)
           /\ p.call \in Results => i = Len(ms) /\ ms[i].arg = p.arg
    /\ \A i, j \in 1..Len(ms) : ms[i].type \in OwnTypes /\ ms[j].type \in OwnTypes => i = j
    /\ p.call \in Answered /\ (p.at = "write" \/ u.tcr # NoPacket) => ~Told(b, p)
    /\ p.call \in Results /\ p.at \in {"wait", "check", "compare", "read"} =>
           \/ p.at = "wait" /\ Pending(u, p)
           \/ p.at = "wait" /\ ms # <<>> /\ ms[Len(ms)].type = Answer[p.call]
           \/ Told(b, p) /\ b.args = <<p.arg, p.arg>> /\ ms = <<>>
           \/ p.at \notin {"compare", "read"} /\ ~Told(b, p) /\ c.faults > 0 /\ ms = <<>>
    /\ p.call \in Results /\ p.at = "read" => p.got \in {<<>>, <<p.arg>>}
    /\ p.call \in Results /\ p.at = "return" =>
           \/ p.got = <<p.arg, p.arg>>
           \/ p.got = <<"failed">> /\ c.faults > 0

---------------------------------------------------------------------------
(* Listings and requests *)

Listing(b) == b.state \in {"INQUIRING", "KNOWN_DEVICES_DUMPING"}
\* The last device stored has not been fetched.
Fresh(b, o) == o.device = b.remote_device /\ o.device # None

\* The ids differ while a device waits; it stays while it is copied.
Found(b, p, o) ==
    /\ Listing(b) /\ b.last_checked_id # b.remote_id => Fresh(b, o)
    /\ p.at \in {"copy", "copied"} => b.last_checked_id # b.remote_id /\ Fresh(b, o)
    /\ p.at = "copy" => p.got \in {<<>>, <<o.device>>}
    /\ p.at = "copied" => p.got = <<o.device, o.device>>
    /\ p.call \in Listings /\ p.at # "return" =>
           /\ b.state = "WAITING"
           /\ p.call = "nx_bt_begin_inquiry" => b.remote_id = 0
           /\ p.at = "set_state" => b.last_checked_id = b.remote_id
           /\ p.call # "nx_bt_begin_inquiry" => b.last_checked_id = b.remote_id

\* How far a connection is when the message is sent, and where it is kept.
Stage(type) ==
    CASE type = "REQUEST_PIN_CODE" -> "pin"
      [] type = "REQUEST_CONNECTION" -> "asks"
      [] type = "CONNECT_RESULT" -> "none"

Waits(b, type) ==
    CASE type = "REQUEST_PIN_CODE" -> b.dev_waiting_for_pin
      [] type = "REQUEST_CONNECTION" -> b.dev_waiting_for_connection
      [] type = "CONNECT_RESULT" -> b.new_handle

\* One request at a time, kept in a place that is free; what waits is what the
\* Bluecore waits for, until the answer is on its way.
Requests(u, b, p, c, o, ms) ==
    /\ \A i \in 1..Len(ms) : ms[i].type \in Asked =>
           c.peer = Stage(ms[i].type) /\ Waits(b, ms[i].type) = None
    /\ \A i, j \in 1..Len(ms) : ms[i].type \in Asked /\ ms[j].type \in Asked => i = j
    /\ o.pin # None => b.dev_waiting_for_pin = o.pin
    /\ o.connection # None => b.dev_waiting_for_connection = o.connection
    /\ o.handle # None => b.new_handle = o.handle
    /\ b.dev_waiting_for_pin # None =>
           /\ c.peer # "accepted"
           /\ c.peer = "pin" \/ (p.call = "nx_bt_send_pin" /\ p.at # "return")
    /\ b.dev_waiting_for_connection # None =>
           \/ c.peer = "asks"
           \/ p.call = "nx_bt_accept_connection" /\ p.at = "clear" /\ Nothing(u)
    /\ b.new_handle # None => c.peer = "none"
    /\ p.call = "nx_bt_send_pin" /\ p.at # "return" =>
           /\ b.dev_waiting_for_pin # None /\ o.pin = None
           /\ p.at = "write" \/ u.tcr # NoPacket => c.peer = "pin"
    /\ p.call = "nx_bt_accept_connection" =>
           /\ p.at \in {"write", "clear"} =>
                  o.connection = None /\ b.dev_waiting_for_connection # None
           /\ p.at = "write" \/ u.tcr # NoPacket => c.peer = "asks"
           /\ u.tcr # NoPacket =>
                  /\ p.at = "drain" => b.dev_waiting_for_connection = None
                  /\ \A i \in 1..Len(ms) : ms[i].type \notin Asked
    /\ p.at = "established" => b.new_handle # None /\ o.handle = None

\* Each error that is or will be counted is a fault.
Harm(m) == IF m.sound THEN 0 ELSE 1
Harmed(ms) == IF ms = <<>> THEN 0 ELSE IF Len(ms) = 1 THEN Harm(ms[1]) ELSE Harm(ms[1]) + Harm(ms[2])
Faults(u, b, c, ms) ==
    /\ Len(ms) <= 2
    /\ b.nmb_checksum_errors + (IF u.brk THEN 1 ELSE 0) + Harmed(ms) <= c.faults

---------------------------------------------------------------------------
(* The invariant *)

Typed == /\ UType(uart) /\ BType(bt_state) /\ PType(prog) /\ line \in Seq(Byte)
      /\ CType(bc) /\ OType(owed)
InReception == Reception(uart, bt_state, prog, line, owed)
InModes == Modes(bt_state, prog, line, bc, owed)
InQueue == Queue(uart, prog, bc)
InAnswers == Answers(uart, bt_state, prog, bc, owed.messages)
InFound == Found(bt_state, prog, owed)
InRequests == Requests(uart, bt_state, prog, bc, owed, owed.messages)
InFaults == Faults(uart, bt_state, bc, owed.messages)

BtInv ==
    /\ Typed /\ InReception /\ InModes /\ InQueue /\ InAnswers
    /\ InFound /\ InRequests /\ InFaults

\* The program and the Bluecore keep all the rules, see CallMay, Timeout, Deliver
\* and Unasked, and the calls that send no head are not made.
Careful ==
    /\ Rules = {"prompt", "punctual", "quiet", "fresh", "matched_ids", "one_thing", "drained"}
    /\ \A calls \in Programs : calls \cap Headless = {}

---------------------------------------------------------------------------
(* The bytes of a message *)

LEMMA MsgFields ==
    ASSUME NEW m \in Msg
    PROVE  /\ m.size \in {1, 2} /\ m.type \in OwnTypes \cup UnaskedTypes
           /\ m.sound \in BOOLEAN /\ m.arg \in Args(m.type)
           /\ m.arg \in Devices \cup Peers \cup Values \cup {None}
BY DEF Msg

LEMMA OfByte ==
    ASSUME NEW m \in Msg, NEW k \in 0..2
    PROVE  Of(m, k) \in Byte /\ Of(m, k) # NoByte
           /\ Of(m, k).k = k /\ Of(m, k).of = m
BY MsgFields DEF Of, Byte, NoByte

\* From the j-th byte on: the j-th, and those behind it.
LEMMA FromShape ==
    ASSUME NEW m \in Msg, NEW j \in 0..m.size
    PROVE  /\ BytesFrom(m, j) \in Seq(Byte) /\ BytesFrom(m, j) # <<>>
           /\ Head(BytesFrom(m, j)) = Of(m, j)
           /\ Tail(BytesFrom(m, j)) = BytesFrom(m, j + 1)
<1>1. m.size \in {1, 2}
  BY MsgFields
<1>2. \A k \in 1..(m.size + 1 - j) : j + k - 1 \in 0..2
  BY <1>1
<1>3. BytesFrom(m, j) \in Seq(Byte) /\ Len(BytesFrom(m, j)) = m.size + 1 - j
  <2>1. m.size + 1 - j \in Nat
    BY <1>1
  <2>2. \A k \in 1..(m.size + 1 - j) : Of(m, j + k - 1) \in Byte
    BY <1>2, OfByte
  <2> QED
    BY <2>1, <2>2 DEF BytesFrom
<1>4. BytesFrom(m, j) # <<>>
  BY <1>1, <1>3
<1>5. Head(BytesFrom(m, j)) = Of(m, j)
  BY <1>1, <1>3 DEF BytesFrom
<1>6. Tail(BytesFrom(m, j)) = BytesFrom(m, j + 1)
  <2>1. j + 1 \in 0..(m.size + 1) /\ m.size + 1 - (j + 1) = m.size - j /\ m.size - j \in Nat
    BY <1>1
  <2>2. ASSUME NEW k \in 1..(m.size - j)
        PROVE  /\ k + 1 \in 1..(m.size + 1 - j) /\ (j + 1) + k - 1 = j + (k + 1) - 1
               /\ Of(m, (j + 1) + k - 1) \in Byte
    <3>1. (j + 1) + k - 1 \in 0..2
      BY <1>1
    <3>2. k + 1 \in 1..(m.size + 1 - j) /\ (j + 1) + k - 1 = j + (k + 1) - 1
      BY <1>1
    <3> QED
      BY <3>1, <3>2, OfByte
  <2>3. BytesFrom(m, j + 1) = [k \in 1..(m.size - j) |-> Of(m, (j + 1) + k - 1)]
    BY <2>1 DEF BytesFrom
  <2>4. BytesFrom(m, j + 1) \in Seq(Byte) /\ Len(BytesFrom(m, j + 1)) = m.size - j
    BY <2>1, <2>2, <2>3
  <2>5. /\ Tail(BytesFrom(m, j)) \in Seq(Byte) /\ Len(Tail(BytesFrom(m, j))) = m.size - j
        /\ \A k \in 1..(m.size - j) : Tail(BytesFrom(m, j))[k] = BytesFrom(m, j)[k + 1]
    <3>1. Len(BytesFrom(m, j)) - 1 = m.size - j
      BY <1>1, <1>3
    <3> QED
      BY <1>3, <1>4, <3>1, HeadTailProperties
  <2>6. ASSUME NEW k \in 1..(m.size - j)
        PROVE  BytesFrom(m, j)[k + 1] = BytesFrom(m, j + 1)[k]
    BY <2>2, <2>3 DEF BytesFrom
  <2> QED
    BY <2>4, <2>5, <2>6, SeqEqual
<1> QED
  BY <1>3, <1>4, <1>5, <1>6

LEMMA FromEnd ==
    ASSUME NEW m \in Msg
    PROVE  BytesFrom(m, m.size + 1) = <<>>
BY MsgFields DEF BytesFrom

LEMMA FromAll ==
    ASSUME NEW m \in Msg
    PROVE  BytesFrom(m, 0) = Bytes(m)
BY MsgFields DEF BytesFrom, Bytes, Of

\* The buffer grows by one byte.
LEMMA GotShape ==
    ASSUME NEW m \in Msg, NEW j \in 0..m.size
    PROVE  /\ BytesGot(m, j) \in Seq(Byte) /\ Len(BytesGot(m, j)) = j
           /\ j < m.size => Append(BytesGot(m, j), Of(m, j + 1)) = BytesGot(m, j + 1)
<1>1. m.size \in {1, 2}
  BY MsgFields
<1>2. \A k \in 1..j : Of(m, k) \in Byte
  BY <1>1, OfByte
<1>3. BytesGot(m, j) \in Seq(Byte) /\ Len(BytesGot(m, j)) = j
  BY <1>1, <1>2 DEF BytesGot
<1>4. ASSUME j < m.size
      PROVE  Append(BytesGot(m, j), Of(m, j + 1)) = BytesGot(m, j + 1)
  BY <1>1, <1>3, <1>4 DEF BytesGot
<1> QED
  BY <1>3, <1>4

LEMMA GotNone ==
    ASSUME NEW m \in Msg
    PROVE  BytesGot(m, 0) = <<>>
BY DEF BytesGot

---------------------------------------------------------------------------
(* The calls and what they wait for *)

LEMMA OwnTypesAre ==
    OwnTypes =
        {"SET_FRIENDLY_NAME_ACK", "SET_DISCOVERABLE_ACK", "INQUIRY_RUNNING", "LIST_RESULT",
         "GET_VERSION_RESULT", "GET_FRIENDLY_NAME_RESULT", "PORT_OPEN_RESULT",
         "CLOSE_PORT_RESULT", "PIN_CODE_ACK", "LINK_QUALITY_RESULT",
         "CLOSE_CONNECTION_RESULT"}
BY DEF OwnTypes, Answered, Answer

LEMMA AnswerDomain ==
    DOMAIN Answer = Answered \cup {"nx_bt_cancel_inquiry"}
BY DEF Answered, Answer

LEMMA AnswerOwn ==
    ASSUME NEW call \in Answered
    PROVE  Answer[call] \in OwnTypes
BY DEF OwnTypes

LEMMA AnswerRange ==
    Range(Answer) = OwnTypes \cup {"INQUIRY_STOPPED"}
<1>1. Answer["nx_bt_cancel_inquiry"] = "INQUIRY_STOPPED"
  BY DEF Answer
<1>2. Range(Answer) = {Answer[call] : call \in DOMAIN Answer}
  BY DEF Range
<1> QED
  BY <1>1, <1>2, AnswerDomain DEF OwnTypes

\* Nothing that is sent unasked is taken for the answer of an Answered call.
LEMMA OwnUnasked ==
    /\ OwnTypes \cap UnaskedTypes = {} /\ "INQUIRY_STOPPED" \notin OwnTypes
    /\ "OTHER" \notin OwnTypes
BY OwnTypesAre DEF UnaskedTypes, Asked

LEMMA AnsweredAre ==
    Answered =
        {"nx_bt_set_friendly_name", "nx_bt_set_discoverable", "nx_bt_begin_inquiry",
         "nx_bt_add_known_device", "nx_bt_remove_known_device", "nx_bt_get_version",
         "nx_bt_get_friendly_name", "nx_bt_open_port", "nx_bt_close_port", "nx_bt_send_pin",
         "nx_bt_get_link_quality", "nx_bt_close_connection"}
BY DEF Answered, Answer

LEMMA NoneIsNo ==
    None \notin Devices /\ None \notin Peers /\ None \notin Values /\ None # 0 /\ None # 1
BY BluetoothAssumption DEF Values

---------------------------------------------------------------------------
(* How bytes and messages lie *)

LEMMA LenNone == Len(<<>>) = 0
OBVIOUS

LEMMA OfOne ==
    ASSUME NEW ms \in Seq(Msg), Len(ms) = 1
    PROVE  ms = <<ms[1]>> /\ ms[1] \in Msg /\ Tail(ms) = <<>> /\ ms # <<>>
<1>1. ms[1] \in Msg /\ <<ms[1]>> \in Seq(Msg) /\ Len(<<ms[1]>>) = 1 /\ <<ms[1]>>[1] = ms[1]
  OBVIOUS
<1>2. ms = <<ms[1]>>
  BY <1>1, SeqEqual
<1>3. ms # <<>>
  BY LenNone
<1>4. Tail(ms) \in Seq(Msg) /\ Len(Tail(ms)) = 0
  BY <1>3, HeadTailProperties
<1>5. Tail(ms) = <<>>
  BY <1>4, EmptySeq
<1> QED
  BY <1>1, <1>2, <1>3, <1>5

LEMMA AfterNone ==
    ASSUME NEW ms \in Seq(Msg), NEW l, After(l, ms), l = <<>>
    PROVE  ms = <<>>
<1>1. Len(ms) = 1 => ms[1] \in Msg /\ 0 \in 0..ms[1].size
  BY OfOne, MsgFields
<1> QED
  BY <1>1, FromShape DEF After

\* The shortest there is.
LEMMA FrameLen ==
    ASSUME NEW u, NEW l, NEW ms \in Seq(Msg), Frame(u, l, ms)
    PROVE  Len(ms) <= 2
<1>1. CASE Resting(u, l, ms)
  <2>1. Len(ms) \in {0, 1}
    BY <1>1, LenNone DEF Resting, After
  <2> QED
    BY <2>1
<1>2. CASE Sized(u, l, ms)
  BY <1>2 DEF Sized
<1>3. CASE Filling(u, l, ms)
  <2>1. Len(ms) \in Nat /\ Len(Tail(ms)) = Len(ms) - 1
    BY <1>3, HeadTailProperties DEF Filling
  <2>2. Tail(ms) = <<>> => Len(Tail(ms)) = 0
    BY LenNone
  <2> QED
    BY <1>3, <2>1, <2>2 DEF Filling, After
<1> QED
  BY <1>1, <1>2, <1>3 DEF Frame

\* The line is quiet: no message is on its way.
LEMMA FrameSilent ==
    ASSUME NEW u, NEW ms \in Seq(Msg), UType(u), Frame(u, <<>>, ms),
           ~Interrupting(u), u.rhr = NoByte, u.got = <<>>
    PROVE  ms = <<>>
<1>1. CASE Resting(u, <<>>, ms)
  BY <1>1, AfterNone DEF Resting
<1>2. CASE Sized(u, <<>>, ms)
  <2>1. ms[1] \in Msg
    BY <1>2, OfOne DEF Sized
  <2> QED
    BY <1>2, <2>1, OfByte DEF Sized
<1>3. CASE Filling(u, <<>>, ms)
  <2>1. ms[1] \in Msg /\ ms[1].size \in {1, 2}
    BY <1>3, MsgFields DEF Filling
  <2>2. u.rcr # 0
    BY <1>3 DEF Filling, Interrupting, Status, Interrupts
  <2>3. ms[1].size - u.rcr + 1 \in 0..ms[1].size
    BY <1>3, <2>1, <2>2 DEF Filling
  <2> QED
    BY <1>3, <2>1, <2>2, <2>3, FromShape DEF Filling
<1> QED
  BY <1>1, <1>2, <1>3 DEF Frame

\* The same registers, the same frame.
LEMMA FrameSame ==
    ASSUME NEW u, NEW v, NEW l, NEW ms, Frame(u, l, ms),
           v.ier = u.ier, v.rhr = u.rhr, v.rxten = u.rxten, v.rcr = u.rcr, v.got = u.got,
           v.packet_size = u.packet_size
    PROVE  Frame(v, l, ms)
BY DEF Frame, Resting, Sized, Filling

\* A callback that is set again finds the receiver at the start of a frame.
LEMMA FrameOpened ==
    ASSUME NEW u, UType(u), u.rhr = NoByte
    PROVE  Frame(SetCallback(u, TRUE), <<>>, <<>>)
<1> DEFINE v == SetCallback(u, TRUE)
<1>1. /\ ~v.rxten /\ v.rcr = BufSize /\ v.got = <<>> /\ v.ier = {"RXRDY", "RXBRK"}
      /\ v.rhr = u.rhr
  BY DEF SetCallback, UType
<1> HIDE DEF v
<1>2. Frame(v, <<>>, <<>>)
  BY <1>1 DEF Frame, Resting, After
<1> QED
  BY <1>2 DEF v

\* A byte from the line goes to the place that the frame has for it.
LEMMA FrameDelivers ==
    ASSUME NEW u, NEW l \in Seq(Byte), NEW ms \in Seq(Msg), UType(u), Frame(u, l, ms),
           l # <<>>, RTS(u), u.rhr = NoByte, ~Interrupting(u)
    PROVE  Frame(Received(u, Head(l)), Tail(l), ms)
<1>1. CASE Resting(u, l, ms)
  <2>1. Len(ms) = 1 /\ l = BytesFrom(ms[1], 0)
    BY <1>1 DEF Resting, After
  <2>2. ms[1] \in Msg /\ 0 \in 0..ms[1].size
    BY <2>1, OfOne, MsgFields
  <2>3. Head(l) = Of(ms[1], 0) /\ Tail(l) = BytesFrom(ms[1], 1)
    BY <2>1, <2>2, FromShape
  <2>4. Received(u, Head(l)) = [u EXCEPT !.rhr = Head(l)]
    BY <1>1 DEF Resting, Received
  <2>5. Sized(Received(u, Head(l)), Tail(l), ms)
    BY <1>1, <2>1, <2>3, <2>4 DEF Sized, Resting, UType
  <2> QED
    BY <2>4, <2>5 DEF Frame, UType
<1>2. CASE Sized(u, l, ms)
  <2>1. ms[1] \in Msg
    BY <1>2, OfOne DEF Sized
  <2> QED
    BY <1>2, <2>1, OfByte DEF Sized
<1>3. CASE Filling(u, l, ms)
  <2>1. ms[1] \in Msg /\ ms[1].size \in {1, 2}
    BY <1>3, MsgFields DEF Filling
  <2>2. u.rcr \in 1..ms[1].size
    BY <1>3, <2>1 DEF Filling, RTS
  <2> DEFINE m == ms[1]
             j == m.size - u.rcr
  <2>3. j \in 0..(m.size - 1) /\ j + 1 \in 0..m.size /\ m.size - (u.rcr - 1) = j + 1
        /\ u.rcr - 1 \in 0..m.size
    <3>1. ASSUME NEW s \in {1, 2}, NEW r \in 1..s
          PROVE  /\ s - r \in 0..(s - 1) /\ s - r + 1 \in 0..s /\ s - (r - 1) = s - r + 1
                 /\ r - 1 \in 0..s
      OBVIOUS
    <3> QED
      BY <2>1, <2>2, <3>1
  <2>4. Len(ms) = 1 /\ l = BytesFrom(m, j + 1) /\ u.got = BytesGot(m, j)
    BY <1>3, <2>2 DEF Filling
  <2>5. Head(l) = Of(m, j + 1) /\ Tail(l) = BytesFrom(m, j + 1 + 1)
    BY <2>1, <2>3, <2>4, FromShape
  <2>6. Append(u.got, Head(l)) = BytesGot(m, j + 1)
    <3>1. j \in 0..m.size /\ j < m.size
      BY <2>1, <2>3
    <3> QED
      BY <2>1, <2>4, <2>5, <3>1, GotShape
  <2>7. u.rcr - 1 = 0 => BytesFrom(m, j + 1 + 1) = <<>>
    <3>1. u.rcr - 1 = 0 => j + 1 + 1 = m.size + 1
      BY <2>1, <2>2
    <3> QED
      BY <2>1, <3>1, FromEnd
  <2>8. Tail(ms) = <<>>
    BY <2>4, OfOne
  <2> DEFINE v == Received(u, Head(l))
  <2>9. /\ v.got = BytesGot(m, j + 1) /\ v.rcr = u.rcr - 1 /\ v.rhr = NoByte /\ v.rxten
        /\ v.ier = u.ier /\ v.packet_size = u.packet_size
    BY <1>3, <2>6 DEF Received, Filling, UType
  <2> HIDE DEF v, j
  <2>10. Filling(v, Tail(l), ms)
    <3>1. m.size - v.rcr = j + 1
      BY <2>3, <2>9
    <3>2. IF v.rcr = 0 THEN After(Tail(l), Tail(ms))
          ELSE Len(ms) = 1 /\ Tail(l) = BytesFrom(m, m.size - v.rcr + 1)
      BY <2>4, <2>5, <2>7, <2>8, <2>9, <3>1 DEF After
    <3> QED
      BY <1>3, <2>3, <2>9, <3>1, <3>2 DEF Filling
  <2> QED
    BY <2>9, <2>10 DEF Frame, v
<1> QED
  BY <1>1, <1>2, <1>3 DEF Frame

\* A message is sent when the line is free: it follows those before it.
LEMMA FrameSends ==
    ASSUME NEW u, NEW m \in Msg, NEW ms \in Seq(Msg), UType(u), Frame(u, <<>>, ms)
    PROVE  Frame(u, Bytes(m), Append(ms, m))
<1>1. CASE Resting(u, <<>>, ms)
  <2>1. ms = <<>>
    BY <1>1, AfterNone DEF Resting
  <2> QED
    BY <1>1, <2>1, FromAll DEF Frame, Resting, After
<1>2. CASE Sized(u, <<>>, ms)
  <2>1. ms[1] \in Msg /\ 1 \in 0..ms[1].size
    BY <1>2, OfOne, MsgFields DEF Sized
  <2> QED
    BY <1>2, <2>1, FromShape DEF Sized
<1>3. CASE Filling(u, <<>>, ms)
  <2>1. ms[1] \in Msg /\ ms[1].size \in {1, 2}
    BY <1>3, MsgFields DEF Filling
  <2>2. u.rcr = 0
    <3>1. u.rcr # 0 => ms[1].size - u.rcr + 1 \in 0..ms[1].size
      BY <1>3, <2>1 DEF Filling
    <3> QED
      BY <1>3, <2>1, <3>1, FromShape DEF Filling
  <2>3. Tail(ms) \in Seq(Msg) /\ Len(Tail(ms)) = Len(ms) - 1 /\ Len(ms) \in Nat
    BY <1>3, HeadTailProperties DEF Filling
  <2>4. Len(ms) = 1
    <3>1. Tail(ms) = <<>>
      BY <1>3, <2>2, <2>3, AfterNone DEF Filling
    <3>2. Len(Tail(ms)) = 0
      BY <3>1, LenNone
    <3>3. Len(ms) - 1 = 0
      BY <2>3, <3>2, Zenon
    <3>4. Len(ms) \in Nat
      BY <2>3
    <3> QED
      BY <3>3, <3>4
  <2>5. /\ Append(ms, m) \in Seq(Msg) /\ Len(Append(ms, m)) = 2
        /\ Append(ms, m)[1] = ms[1] /\ Append(ms, m)[2] = m /\ Append(ms, m) # <<>>
    <3>1. /\ Append(ms, m) \in Seq(Msg) /\ Len(Append(ms, m)) = Len(ms) + 1
          /\ \A i \in 1..Len(ms) : Append(ms, m)[i] = ms[i]
          /\ Append(ms, m)[Len(ms) + 1] = m
          /\ Append(ms, m) # <<>>
      BY AppendProperties
    <3> QED
      BY <2>4, <3>1
  <2>6. After(Bytes(m), Tail(Append(ms, m)))
    <3>1. Len(Tail(Append(ms, m))) = 1 /\ Tail(Append(ms, m))[1] = m
      <4>1. /\ Len(Tail(Append(ms, m))) = Len(Append(ms, m)) - 1
            /\ \A i \in 1..Len(Tail(Append(ms, m))) :
                   Tail(Append(ms, m))[i] = Append(ms, m)[i + 1]
        BY <2>5, HeadTailProperties
      <4> QED
        BY <2>5, <4>1
    <3> QED
      BY <3>1, FromAll DEF After
  <2>7. Filling(u, Bytes(m), Append(ms, m))
    BY <1>3, <2>2, <2>5, <2>6 DEF Filling
  <2> QED
    BY <1>3, <2>7 DEF Frame
<1> QED
  BY <1>1, <1>2, <1>3 DEF Frame

---------------------------------------------------------------------------
(* The interrupt *)

OfBreak == [buf |-> <<>>, len |-> 0]
OfPacket(m) == [buf |-> BytesGot(m, m.size), len |-> m.size]

LEMMA StatusIs ==
    ASSUME NEW u
    PROVE  /\ "RXBRK" \in Status(u) <=> u.brk
           /\ "RXRDY" \in Status(u) <=> u.rhr # NoByte
           /\ "ENDRX" \in Status(u) <=> u.rcr = 0
BY DEF Status, Interrupts

Cleared(u) == IF u.brk THEN [u EXCEPT !.brk = FALSE] ELSE u
CallsOfBreak(u) == IF u.brk THEN <<OfBreak>> ELSE <<>>

LEMMA ClearedFields ==
    ASSUME NEW u, UType(u)
    PROVE  /\ UType(Cleared(u))
           /\ Cleared(u).brk = FALSE /\ Cleared(u).ier = u.ier /\ Cleared(u).rhr = u.rhr
           /\ Cleared(u).rxten = u.rxten /\ Cleared(u).rcr = u.rcr /\ Cleared(u).got = u.got
           /\ Cleared(u).packet_size = u.packet_size /\ Cleared(u).tcr = u.tcr
           /\ Cleared(u).tncr = u.tncr
BY DEF Cleared, UType

LEMMA BrokenIs ==
    ASSUME NEW u, UType(u)
    PROVE  (IF "RXBRK" \in Status(u) THEN Broken([u |-> u, calls |-> <<>>])
            ELSE [u |-> u, calls |-> <<>>])
               = [u |-> Cleared(u), calls |-> CallsOfBreak(u)]
<1>1. Append(<<>>, OfBreak) = <<OfBreak>>
  OBVIOUS
<1>2. CASE u.brk
  BY <1>1, <1>2, StatusIs DEF Broken, Cleared, CallsOfBreak, OfBreak
<1>3. CASE ~u.brk
  BY <1>3, StatusIs DEF Cleared, CallsOfBreak
<1> QED
  BY <1>2, <1>3

LEMMA UartIsrIs ==
    ASSUME NEW u, UType(u)
    PROVE  LET s1 == [u |-> Cleared(u), calls |-> CallsOfBreak(u)]
               s2 == IF u.rhr # NoByte THEN LengthRead(s1) ELSE s1
           IN  UartIsr(u) = IF u.rcr = 0 THEN PacketRead(s2) ELSE s2
BY StatusIs, BrokenIs, Zenon DEF UartIsr

\* Nothing but a break: the frame stays.
LEMMA UartIsrQuiet ==
    ASSUME NEW u, UType(u), u.rhr = NoByte, u.rcr # 0
    PROVE  UartIsr(u).u = Cleared(u) /\ UartIsr(u).calls = CallsOfBreak(u)
<1>1. UartIsr(u) = [u |-> Cleared(u), calls |-> CallsOfBreak(u)]
  BY UartIsrIs, Zenon
<1> QED
  BY <1>1

\* The length has arrived: the PDC is given as many bytes.
LEMMA UartIsrLength ==
    ASSUME NEW u, NEW m \in Msg, UType(u), u.rhr = Of(m, 0), u.rcr # 0
    PROVE  /\ UType(UartIsr(u).u)
           /\ UartIsr(u).u.brk = FALSE
           /\ UartIsr(u).u.ier = (u.ier \ {"RXRDY"}) \cup {"ENDRX"}
           /\ UartIsr(u).u.rhr = NoByte /\ UartIsr(u).u.packet_size = m.size
           /\ UartIsr(u).u.rcr = m.size /\ UartIsr(u).u.rxten = TRUE
           /\ UartIsr(u).u.got = u.got
           /\ UartIsr(u).u.tcr = u.tcr /\ UartIsr(u).u.tncr = u.tncr
           /\ UartIsr(u).calls = CallsOfBreak(u)
<1> DEFINE s1 == [u |-> Cleared(u), calls |-> CallsOfBreak(u)]
<1>1. u.rhr # NoByte /\ LengthIn(u.rhr) = m.size
  <2>1. u.rhr # NoByte /\ u.rhr.k = 0 /\ u.rhr.of = m
    BY OfByte
  <2> QED
    BY <2>1 DEF LengthIn
<1>2. UartIsr(u) = LengthRead(s1)
  BY <1>1, UartIsrIs
<1>3. LengthRead(s1).calls = CallsOfBreak(u)
  BY DEF LengthRead
<1>4. LengthRead(s1).u = [Cleared(u) EXCEPT !.ier = (@ \ {"RXRDY"}) \cup {"ENDRX"},
              !.rhr = NoByte, !.packet_size = m.size, !.rcr = m.size, !.rxten = TRUE]
  BY <1>1, ClearedFields DEF LengthRead, UType
<1>5. m.size \in Nat /\ NoByte \in Byte /\ "ENDRX" \in Interrupts
  BY MsgFields DEF Byte, Interrupts
<1> DEFINE c == Cleared(u)
           v == UartIsr(u).u
<1>6. v = [c EXCEPT !.ier = (@ \ {"RXRDY"}) \cup {"ENDRX"},
              !.rhr = NoByte, !.packet_size = m.size, !.rcr = m.size, !.rxten = TRUE]
  BY <1>2, <1>4
<1>7. UType(c) /\ c.ier = u.ier /\ c.got = u.got /\ c.tcr = u.tcr /\ c.tncr = u.tncr
      /\ c.brk = FALSE
  BY ClearedFields
<1> HIDE DEF c, v
<1>8. UType(v)
  BY <1>5, <1>6, <1>7 DEF UType
<1>9. /\ v.brk = FALSE /\ v.ier = (u.ier \ {"RXRDY"}) \cup {"ENDRX"}
      /\ v.rhr = NoByte /\ v.packet_size = m.size
      /\ v.rcr = m.size /\ v.rxten = TRUE /\ v.got = u.got
      /\ v.tcr = u.tcr /\ v.tncr = u.tncr
  BY <1>6, <1>7 DEF UType
<1> QED
  BY <1>2, <1>3, <1>8, <1>9 DEF v

\* The packet has arrived: the callback gets all of it, and a length is next.
LEMMA UartIsrPacket ==
    ASSUME NEW u, UType(u), u.rhr = NoByte, u.rcr = 0
    PROVE  /\ UType(UartIsr(u).u)
           /\ UartIsr(u).u.brk = FALSE
           /\ UartIsr(u).u.ier = u.ier \cup {"RXRDY"}
           /\ UartIsr(u).u.rhr = NoByte
           /\ UartIsr(u).u.rcr = BufSize /\ UartIsr(u).u.rxten = FALSE
           /\ UartIsr(u).u.got = <<>>
           /\ UartIsr(u).u.tcr = u.tcr /\ UartIsr(u).u.tncr = u.tncr
           /\ UartIsr(u).calls
                  = Append(CallsOfBreak(u), [buf |-> u.got, len |-> u.packet_size])
<1> DEFINE s1 == [u |-> Cleared(u), calls |-> CallsOfBreak(u)]
<1>1. UartIsr(u) = PacketRead(s1)
  BY UartIsrIs
<1>2. PacketRead(s1).u = [Cleared(u) EXCEPT !.rxten = FALSE, !.got = <<>>, !.rcr = BufSize,
                       !.ier = @ \cup {"RXRDY"}]
  BY DEF PacketRead
<1>3. PacketRead(s1).calls = Append(CallsOfBreak(u), [buf |-> u.got, len |-> u.packet_size])
  BY ClearedFields DEF PacketRead
<1>4. BufSize \in Nat /\ <<>> \in Seq(Byte) /\ "RXRDY" \in Interrupts
  BY UartAssumption DEF Interrupts
<1> DEFINE c == Cleared(u)
           v == UartIsr(u).u
<1>5. v = [c EXCEPT !.rxten = FALSE, !.got = <<>>, !.rcr = BufSize,
                       !.ier = @ \cup {"RXRDY"}]
  BY <1>1, <1>2
<1>6. UType(c) /\ c.ier = u.ier /\ c.rhr = u.rhr /\ c.tcr = u.tcr /\ c.tncr = u.tncr
      /\ c.brk = FALSE
  BY ClearedFields
<1> HIDE DEF c, v
<1>7. UType(v)
  BY <1>4, <1>5, <1>6 DEF UType
<1>8. /\ v.brk = FALSE /\ v.ier = u.ier \cup {"RXRDY"} /\ v.rhr = NoByte
      /\ v.rcr = BufSize /\ v.rxten = FALSE /\ v.got = <<>>
      /\ v.tcr = u.tcr /\ v.tncr = u.tncr
  BY <1>5, <1>6 DEF UType
<1> QED
  BY <1>1, <1>3, <1>7, <1>8 DEF v

\* What the interrupt does to a frame, and which calls it makes.
LEMMA FrameInterrupted ==
    ASSUME NEW u, NEW l, NEW ms \in Seq(Msg), UType(u), Frame(u, l, ms)
    PROVE  /\ UType(UartIsr(u).u)
           /\ UartIsr(u).u.brk = FALSE
           /\ UartIsr(u).u.tcr = u.tcr /\ UartIsr(u).u.tncr = u.tncr
           /\ u.rcr # 0 => /\ Frame(UartIsr(u).u, l, ms)
                           /\ UartIsr(u).calls = CallsOfBreak(u)
           /\ u.rcr = 0 => /\ ms # <<>> /\ Frame(UartIsr(u).u, l, Tail(ms))
                           /\ UartIsr(u).calls
                                  = Append(CallsOfBreak(u), OfPacket(ms[1]))
<1>0. BufSize # 0
  BY UartAssumption
<1>1. CASE Resting(u, l, ms)
  <2>1. UartIsr(u).u = Cleared(u) /\ UartIsr(u).calls = CallsOfBreak(u) /\ u.rcr # 0
    BY <1>0, <1>1, UartIsrQuiet DEF Resting
  <2>2. Frame(Cleared(u), l, ms)
    BY ClearedFields, FrameSame
  <2> QED
    BY <2>1, <2>2, ClearedFields
<1>2. CASE Sized(u, l, ms)
  <2>1. ms[1] \in Msg /\ u.rhr = Of(ms[1], 0) /\ u.rcr # 0 /\ ms # <<>>
    BY <1>0, <1>2, OfOne DEF Sized
  <2> DEFINE m == ms[1]
             v == UartIsr(u).u
  <2>2. /\ UType(v) /\ v.brk = FALSE /\ v.ier = (u.ier \ {"RXRDY"}) \cup {"ENDRX"}
        /\ v.rhr = NoByte /\ v.packet_size = m.size /\ v.rcr = m.size /\ v.rxten = TRUE
        /\ v.got = u.got /\ v.tcr = u.tcr /\ v.tncr = u.tncr
        /\ UartIsr(u).calls = CallsOfBreak(u)
    BY <2>1, UartIsrLength
  <2> HIDE DEF v
  <2>3. m.size \in {1, 2} /\ BytesGot(m, 0) = <<>> /\ m.size - m.size = 0
    BY <2>1, MsgFields, GotNone
  <2>4. Filling(v, l, ms)
    BY <1>2, <2>1, <2>2, <2>3 DEF Filling, Sized
  <2>5. Frame(v, l, ms)
    BY <2>2, <2>4 DEF Frame
  <2> QED
    BY <2>1, <2>2, <2>5 DEF v
<1>3. CASE Filling(u, l, ms)
  <2>1. CASE u.rcr # 0
    <3>1. UartIsr(u).u = Cleared(u) /\ UartIsr(u).calls = CallsOfBreak(u)
      BY <1>3, <2>1, UartIsrQuiet DEF Filling
    <3>2. Frame(Cleared(u), l, ms)
      BY ClearedFields, FrameSame
    <3> QED
      BY <2>1, <3>1, <3>2, ClearedFields
  <2>2. CASE u.rcr = 0
    <3> DEFINE v == UartIsr(u).u
    <3>1. /\ UType(v) /\ v.brk = FALSE /\ v.ier = u.ier \cup {"RXRDY"} /\ v.rhr = NoByte
          /\ v.rcr = BufSize /\ v.rxten = FALSE /\ v.got = <<>>
          /\ v.tcr = u.tcr /\ v.tncr = u.tncr
          /\ UartIsr(u).calls
                 = Append(CallsOfBreak(u), [buf |-> u.got, len |-> u.packet_size])
      BY <1>3, <2>2, UartIsrPacket DEF Filling
    <3> HIDE DEF v
    <3>2. ms # <<>> /\ ms[1] \in Msg /\ After(l, Tail(ms)) /\ u.packet_size = ms[1].size
          /\ u.got = BytesGot(ms[1], ms[1].size)
      <4>1. ms # <<>> /\ ms[1] \in Msg
        BY <1>3 DEF Filling
      <4>2. ms[1].size - 0 = ms[1].size
        BY <4>1, MsgFields
      <4> QED
        BY <1>3, <2>2, <4>1, <4>2 DEF Filling
    <3>3. Frame(v, l, Tail(ms))
      BY <3>1, <3>2 DEF Frame, Resting
    <3> QED
      BY <2>2, <3>1, <3>2, <3>3 DEF v, OfPacket
  <2> QED
    BY <2>1, <2>2
<1> QED
  BY <1>1, <1>2, <1>3 DEF Frame

---------------------------------------------------------------------------
(* The callback *)

Finds(b, m) ==
    /\ \/ m.type = "INQUIRY_RESULT" /\ b.state = "INQUIRING"
       \/ m.type = "LIST_ITEM" /\ b.state = "KNOWN_DEVICES_DUMPING"
    /\ b.last_checked_id = b.remote_id

Stops(b, m) ==
    \/ m.type = "INQUIRY_STOPPED" /\ b.state = "INQUIRING"
    \/ m.type = "LIST_DUMP_STOPPED" /\ b.state = "KNOWN_DEVICES_DUMPING"
    \/ m.type = "RESET_INDICATION"

\* What a message that is sound, or is not, makes of the driver, d, and of
\* what it owes, q.
Heard(b, m, d) ==
    /\ d.last_checked_id = b.last_checked_id
    /\ d.last_msg = IF ~m.sound THEN b.last_msg
                    ELSE IF m.type \in OwnTypes \cup {"INQUIRY_STOPPED"} THEN m.type ELSE "OTHER"
    /\ m.sound /\ m.arg \in Values => d.args = <<m.arg, m.arg>>
    /\ ~m.sound => d.args = b.args
    /\ d.state = IF m.sound /\ Stops(b, m) THEN "WAITING" ELSE b.state
    /\ d.remote_device = IF m.sound /\ Finds(b, m) THEN m.arg ELSE b.remote_device
    /\ d.remote_id = IF m.sound /\ Finds(b, m) THEN NextId(b.remote_id) ELSE b.remote_id
    /\ d.dev_waiting_for_pin =
           IF m.sound /\ m.type = "REQUEST_PIN_CODE" THEN m.arg ELSE b.dev_waiting_for_pin
    /\ d.dev_waiting_for_connection =
           IF m.sound /\ m.type = "REQUEST_CONNECTION" THEN m.arg
           ELSE b.dev_waiting_for_connection
    /\ d.new_handle =
           IF m.sound /\ m.type = "CONNECT_RESULT" /\ m.arg # None THEN m.arg ELSE b.new_handle

Owed(b, o, m, q) ==
    /\ q.messages = Tail(o.messages) /\ q.framed = o.framed /\ q.data = o.data
    /\ q.device = IF m.sound /\ Finds(b, m) THEN m.arg ELSE o.device
    /\ q.pin = IF m.sound /\ m.type = "REQUEST_PIN_CODE" THEN m.arg ELSE o.pin
    /\ q.connection = IF m.sound /\ m.type = "REQUEST_CONNECTION" THEN m.arg ELSE o.connection
    /\ q.handle = IF m.sound /\ m.type = "CONNECT_RESULT" /\ m.arg # None THEN m.arg ELSE o.handle

\* The checksum is right if and only if the message was not damaged.
LEMMA CheckedIs ==
    /\ ~Checked(OfBreak)
    /\ \A m \in Msg : /\ Checked(OfPacket(m)) <=> m.sound
                      /\ OfPacket(m).buf[1].of = m
                      /\ OfPacket(m).buf = [k \in 1..m.size |-> [of |-> m, k |-> k]]
                      /\ OfPacket(m).len = m.size /\ m.size # 0
<1>1. ~Checked(OfBreak)
  BY DEF Checked, OfBreak
<1>2. ASSUME NEW m \in Msg
      PROVE  /\ Checked(OfPacket(m)) <=> m.sound
             /\ OfPacket(m).buf[1].of = m
             /\ OfPacket(m).buf = [k \in 1..m.size |-> [of |-> m, k |-> k]]
             /\ OfPacket(m).len = m.size /\ m.size # 0
  <2>1. m.size \in {1, 2} /\ m.size \in 0..m.size /\ m.sound \in BOOLEAN
    BY MsgFields
  <2>2. Len(BytesGot(m, m.size)) = m.size
    BY <2>1, GotShape
  <2>3. OfPacket(m).buf = [k \in 1..m.size |-> [of |-> m, k |-> k]]
    BY DEF OfPacket, BytesGot, Of
  <2>4. OfPacket(m).buf[1].of = m
    BY <2>1, <2>3
  <2>5. OfPacket(m).len = m.size /\ Len(OfPacket(m).buf) = m.size /\ m.size > 0
    BY <2>1, <2>2 DEF OfPacket
  <2>6. Checked(OfPacket(m)) <=> m.sound
    BY <2>1, <2>3, <2>4, <2>5 DEF Checked
  <2> QED
    BY <2>3, <2>4, <2>5, <2>6
<1> QED
  BY <1>1, <1>2

LEMMA CallbackBreak ==
    ASSUME NEW b, NEW o, BType(b)
    PROVE  /\ Callback(b, OfBreak) = [b EXCEPT !.nmb_checksum_errors = @ + 1]
           /\ Owes(o, b, OfBreak) = o
BY CheckedIs DEF Callback, Owes, OfBreak

LEMMA NextIdOther ==
    ASSUME NEW id \in 0..2
    PROVE  NextId(id) \in 1..2 /\ NextId(id) # id
BY DEF NextId

\* What a whole message does to the driver.
LEMMA CallbackPacket ==
    ASSUME NEW b, NEW m \in Msg, BType(b)
    PROVE  /\ Heard(b, m, Callback(b, OfPacket(m)))
           /\ Callback(b, OfPacket(m)).nmb_checksum_errors = b.nmb_checksum_errors + Harm(m)
<1>1. /\ Checked(OfPacket(m)) <=> m.sound
      /\ OfPacket(m).buf[1].of = m /\ m.sound \in BOOLEAN
  BY CheckedIs, MsgFields
<1>2. CASE ~m.sound
  <2>1. Callback(b, OfPacket(m)) = [b EXCEPT !.nmb_checksum_errors = @ + 1]
    BY <1>1, <1>2 DEF Callback
  <2> QED
    BY <1>2, <2>1 DEF Heard, Harm, BType
<1>3. CASE m.sound
  <2> DEFINE t == [b EXCEPT !.last_msg = IF m.type \in Range(Answer) THEN m.type ELSE "OTHER",
                       !.args = IF m.arg \in Values THEN <<m.arg, m.arg>> ELSE <<None, None>>]
             d == Callback(b, OfPacket(m))
  <2>1. /\ t.state = b.state /\ t.last_checked_id = b.last_checked_id
        /\ t.remote_id = b.remote_id /\ t.remote_device = b.remote_device
        /\ t.dev_waiting_for_pin = b.dev_waiting_for_pin
        /\ t.dev_waiting_for_connection = b.dev_waiting_for_connection
        /\ t.new_handle = b.new_handle /\ t.nmb_checksum_errors = b.nmb_checksum_errors
        /\ t.last_msg = IF m.type \in OwnTypes \cup {"INQUIRY_STOPPED"} THEN m.type ELSE "OTHER"
        /\ m.arg \in Values => t.args = <<m.arg, m.arg>>
    BY AnswerRange DEF BType
  <2>2. DOMAIN t = {"state", "last_checked_id", "remote_id", "remote_device",
                    "dev_waiting_for_pin", "dev_waiting_for_connection", "new_handle",
                    "last_msg", "args", "nmb_checksum_errors"}
    BY DEF BType
  <2>3. d = CASE m.type = "INQUIRY_RESULT" -> DeviceFound(t, "INQUIRING", m.arg)
          [] m.type = "LIST_ITEM" -> DeviceFound(t, "KNOWN_DEVICES_DUMPING", m.arg)
          [] m.type = "INQUIRY_STOPPED" ->
                IF t.state = "INQUIRING" THEN [t EXCEPT !.state = "WAITING"] ELSE t
          [] m.type = "LIST_DUMP_STOPPED" ->
                IF t.state = "KNOWN_DEVICES_DUMPING" THEN [t EXCEPT !.state = "WAITING"] ELSE t
          [] m.type = "RESET_INDICATION" -> [t EXCEPT !.state = "WAITING"]
          [] m.type = "REQUEST_PIN_CODE" -> [t EXCEPT !.dev_waiting_for_pin = m.arg]
          [] m.type = "REQUEST_CONNECTION" -> [t EXCEPT !.dev_waiting_for_connection = m.arg]
          [] m.type = "CONNECT_RESULT" ->
                IF m.arg = None THEN t ELSE [t EXCEPT !.new_handle = m.arg]
          [] OTHER -> t
    BY <1>1, <1>3 DEF Callback
  <2> HIDE DEF t, d
  <2>4. /\ d.nmb_checksum_errors = t.nmb_checksum_errors
        /\ d.last_checked_id = t.last_checked_id /\ d.last_msg = t.last_msg /\ d.args = t.args
    BY <2>2, <2>3 DEF DeviceFound
  <2>5. d.state = IF Stops(b, m) THEN "WAITING" ELSE b.state
    BY <2>1, <2>2, <2>3 DEF DeviceFound, Stops
  <2>6. /\ d.remote_device = IF Finds(b, m) THEN m.arg ELSE b.remote_device
        /\ d.remote_id = IF Finds(b, m) THEN NextId(b.remote_id) ELSE b.remote_id
    BY <2>1, <2>2, <2>3 DEF DeviceFound, Finds
  <2>7. /\ d.dev_waiting_for_pin =
               IF m.type = "REQUEST_PIN_CODE" THEN m.arg ELSE b.dev_waiting_for_pin
        /\ d.dev_waiting_for_connection =
               IF m.type = "REQUEST_CONNECTION" THEN m.arg ELSE b.dev_waiting_for_connection
        /\ d.new_handle =
               IF m.type = "CONNECT_RESULT" /\ m.arg # None THEN m.arg ELSE b.new_handle
    BY <2>1, <2>2, <2>3 DEF DeviceFound
  <2>8. b.nmb_checksum_errors = b.nmb_checksum_errors + 0
    BY DEF BType
  <2> QED
    BY <1>3, <2>1, <2>4, <2>5, <2>6, <2>7, <2>8 DEF Heard, Harm, d
<1> QED
  BY <1>1, <1>2, <1>3

LEMMA CallbackType ==
    ASSUME NEW b, NEW m \in Msg, BType(b)
    PROVE  BType(Callback(b, OfPacket(m)))
<1>1. /\ Checked(OfPacket(m)) <=> m.sound
      /\ OfPacket(m).buf[1].of = m /\ m.sound \in BOOLEAN
  BY CheckedIs, MsgFields
<1>2. CASE ~m.sound
  <2>1. Callback(b, OfPacket(m)) = [b EXCEPT !.nmb_checksum_errors = @ + 1]
    BY <1>1, <1>2 DEF Callback
  <2> QED
    BY <2>1 DEF BType
<1>3. CASE m.sound
  <2> DEFINE t == [b EXCEPT !.last_msg = IF m.type \in Range(Answer) THEN m.type ELSE "OTHER",
                       !.args = IF m.arg \in Values THEN <<m.arg, m.arg>> ELSE <<None, None>>]
             d == Callback(b, OfPacket(m))
  <2>1. BType(t)
    <3>1. (IF m.type \in Range(Answer) THEN m.type ELSE "OTHER")
              \in OwnTypes \cup {"INQUIRY_STOPPED", "OTHER"}
      BY AnswerRange
    <3>2. (IF m.arg \in Values THEN <<m.arg, m.arg>> ELSE <<None, None>>)
              \in {<<v, v>> : v \in Values \cup {None}}
      OBVIOUS
    <3> DEFINE msg == IF m.type \in Range(Answer) THEN m.type ELSE "OTHER"
               args == IF m.arg \in Values THEN <<m.arg, m.arg>> ELSE <<None, None>>
    <3> HIDE DEF msg, args
    <3> DEFINE one == [b EXCEPT !.last_msg = msg]
    <3>3. msg \in OwnTypes \cup {"INQUIRY_STOPPED", "OTHER"}
      BY <3>1 DEF msg
    <3>4. args \in {<<v, v>> : v \in Values \cup {None}}
      BY <3>2 DEF args
    <3>5. BType(one)
      BY <3>3 DEF BType
    <3>6. [one EXCEPT !.args = args] = [b EXCEPT !.last_msg = msg, !.args = args]
      BY DEF BType
    <3> HIDE DEF one
    <3>7. BType([one EXCEPT !.args = args])
      BY <3>4, <3>5 DEF BType
    <3> QED
      BY <3>6, <3>7 DEF msg, args
  <2>2. d = CASE m.type = "INQUIRY_RESULT" -> DeviceFound(t, "INQUIRING", m.arg)
          [] m.type = "LIST_ITEM" -> DeviceFound(t, "KNOWN_DEVICES_DUMPING", m.arg)
          [] m.type = "INQUIRY_STOPPED" ->
                IF t.state = "INQUIRING" THEN [t EXCEPT !.state = "WAITING"] ELSE t
          [] m.type = "LIST_DUMP_STOPPED" ->
                IF t.state = "KNOWN_DEVICES_DUMPING" THEN [t EXCEPT !.state = "WAITING"] ELSE t
          [] m.type = "RESET_INDICATION" -> [t EXCEPT !.state = "WAITING"]
          [] m.type = "REQUEST_PIN_CODE" -> [t EXCEPT !.dev_waiting_for_pin = m.arg]
          [] m.type = "REQUEST_CONNECTION" -> [t EXCEPT !.dev_waiting_for_connection = m.arg]
          [] m.type = "CONNECT_RESULT" ->
                IF m.arg = None THEN t ELSE [t EXCEPT !.new_handle = m.arg]
          [] OTHER -> t
    BY <1>1, <1>3 DEF Callback
  <2>3. /\ m.type \in {"INQUIRY_RESULT", "LIST_ITEM"} => m.arg \in Devices
        /\ m.type \in {"REQUEST_PIN_CODE", "REQUEST_CONNECTION"} => m.arg \in Peers
        /\ m.type = "CONNECT_RESULT" => m.arg \in Values \cup {None}
    BY MsgFields DEF Args
  <2> HIDE DEF t, d
  <2>4. ASSUME NEW state
        PROVE  m.arg \in Devices => BType(DeviceFound(t, state, m.arg))
    <3>1. t.remote_id \in 0..2 => NextId(t.remote_id) \in 0..2
      BY NextIdOther
    <3> QED
      BY <2>1, <3>1 DEF BType, DeviceFound
  <2>5. BType([t EXCEPT !.state = "WAITING"])
    BY <2>1 DEF BType
  <2>6. m.arg \in Peers => /\ BType([t EXCEPT !.dev_waiting_for_pin = m.arg])
                           /\ BType([t EXCEPT !.dev_waiting_for_connection = m.arg])
    BY <2>1 DEF BType
  <2>7. m.arg \in Values \cup {None} => BType([t EXCEPT !.new_handle = m.arg])
    BY <2>1 DEF BType
  <2>8. BType(d)
    BY <2>1, <2>2, <2>3, <2>4, <2>5, <2>6, <2>7
  <2> QED
    BY <2>8 DEF d
<1> QED
  BY <1>1, <1>2, <1>3

\* And to what it owes.
LEMMA OwesPacket ==
    ASSUME NEW b, NEW o, BType(b), OType(o), o.messages # <<>>
    PROVE  /\ Owed(b, o, o.messages[1], Owes(o, b, OfPacket(o.messages[1])))
           /\ OType(Owes(o, b, OfPacket(o.messages[1])))
<1> DEFINE ms == o.messages
           m == ms[1]
           had == [o EXCEPT !.messages = Tail(ms)]
           q == Owes(o, b, OfPacket(m))
<1>1. ms \in Seq(Msg) /\ m \in Msg /\ Head(ms) = m /\ Tail(ms) \in Seq(Msg)
  <2>1. ms \in Seq(Msg)
    BY DEF OType
  <2> QED
    BY <2>1
<1>2. m.sound \in BOOLEAN /\ o.framed \in BOOLEAN
  BY <1>1, MsgFields DEF OType
<1>3. OfPacket(m).buf = [k \in 1..m.size |-> [of |-> m, k |-> k]] /\ OfPacket(m).len = m.size
      /\ m.size # 0
  BY <1>1, CheckedIs
<1>4. (IF ~m.sound THEN had
      ELSE CASE m.type \in {"INQUIRY_RESULT", "LIST_ITEM"} ->
                 IF Callback(b, OfPacket(m)).remote_id # b.remote_id
                 THEN [had EXCEPT !.device = m.arg] ELSE had
           [] m.type = "REQUEST_PIN_CODE" -> [had EXCEPT !.pin = m.arg]
           [] m.type = "REQUEST_CONNECTION" -> [had EXCEPT !.connection = m.arg]
           [] m.type = "CONNECT_RESULT" /\ m.arg # None -> [had EXCEPT !.handle = m.arg]
           [] OTHER -> had) = q
  <2>1. [o EXCEPT !.messages = Tail(@), !.framed = @ /\ TRUE] = had
    BY <1>2 DEF OType
  <2> DEFINE call == OfPacket(m)
  <2>2. /\ call.buf = [k \in 1..m.size |-> [of |-> m, k |-> k]] /\ call.len = m.size
        /\ call.len # 0 /\ Head(o.messages) = m
    BY <1>1, <1>3
  <2> HIDE DEF call, m, had
  <2> QED
    BY <2>1, <2>2, ZenonT(40) DEF Owes, call, ms, had
<1>5. m.sound => (Callback(b, OfPacket(m)).remote_id # b.remote_id <=> Finds(b, m))
  <2>1. b.remote_id \in 0..2
    BY DEF BType
  <2> QED
    BY <1>1, <2>1, CallbackPacket, NextIdOther DEF Heard
<1>6. /\ m.type \in {"INQUIRY_RESULT", "LIST_ITEM"} => m.arg \in Devices
      /\ m.type \in {"REQUEST_PIN_CODE", "REQUEST_CONNECTION"} => m.arg \in Peers
      /\ m.type = "CONNECT_RESULT" => m.arg \in Values \cup {None}
  BY <1>1, MsgFields DEF Args
<1>7. OType(had) /\ had.messages = Tail(ms) /\ had.framed = o.framed /\ had.data = o.data
      /\ had.device = o.device /\ had.pin = o.pin /\ had.connection = o.connection
      /\ had.handle = o.handle
  BY <1>1 DEF OType
<1>8. Finds(b, m) => m.type \in {"INQUIRY_RESULT", "LIST_ITEM"}
  BY DEF Finds
<1> HIDE DEF had, q, m, ms
<1>9. Owed(b, [messages |-> ms, framed |-> o.framed, device |-> o.device, pin |-> o.pin,
               connection |-> o.connection, handle |-> o.handle, data |-> o.data], m, q)
  BY <1>2, <1>4, <1>5, <1>7, <1>8 DEF Owed, OType
<1>10. OType(q)
  BY <1>4, <1>6, <1>7 DEF OType
<1> QED
  BY <1>9, <1>10 DEF Owed, q, m, ms

---------------------------------------------------------------------------
(* The interrupt in the system *)

\* What it makes of the registers, the driver and what it owes: but for the
\* count of a break nothing, or what one packet does.
Same(b, d) ==
    /\ d.state = b.state /\ d.last_checked_id = b.last_checked_id
    /\ d.remote_id = b.remote_id /\ d.remote_device = b.remote_device
    /\ d.dev_waiting_for_pin = b.dev_waiting_for_pin
    /\ d.dev_waiting_for_connection = b.dev_waiting_for_connection
    /\ d.new_handle = b.new_handle /\ d.last_msg = b.last_msg /\ d.args = b.args

Interrupted(u, b, o, v, d, q) ==
    /\ v.brk = FALSE /\ v.tcr = u.tcr /\ v.tncr = u.tncr
    /\ u.rcr # 0 => /\ Same(b, d) /\ q = o
                    /\ d.nmb_checksum_errors
                           = b.nmb_checksum_errors + (IF u.brk THEN 1 ELSE 0)
    /\ u.rcr = 0 => /\ o.messages # <<>>
                    /\ Heard(b, o.messages[1], d)
                    /\ Owed(b, o, o.messages[1], q)
                    /\ d.nmb_checksum_errors
                           = b.nmb_checksum_errors + (IF u.brk THEN 1 ELSE 0)
                             + Harm(o.messages[1])

\* The interrupt, with none, one or two calls of the callback.
LEMMA IsrInterrupts ==
    ASSUME Typed, InReception, Isr
    PROVE  /\ UType(uart') /\ BType(bt_state') /\ OType(owed')
           /\ Interrupted(uart, bt_state, owed, uart', bt_state', owed')
           /\ ~Deaf(bt_state, prog)
           /\ Frame(uart', line, owed'.messages)
<1> DEFINE s == UartIsr(uart)
           b == bt_state
           ms == owed.messages
           bb == IF uart.brk THEN Callback(b, OfBreak) ELSE b
<1>1. /\ uart' = s.u
      /\ bt_state' = InTurn(Callback, bt_state, s.calls)
      /\ owed' = InTurn(LAMBDA o, call : Owes(o, bt_state, call), owed, s.calls)
      /\ Interrupting(uart)
  BY DEF Isr
<1>2. UType(uart) /\ BType(b) /\ OType(owed) /\ ms \in Seq(Msg)
  BY DEF Typed, OType
<1>3. ~Deaf(b, prog)
  BY <1>1 DEF InReception, Reception, Interrupting
<1>4. Frame(uart, line, ms)
  BY <1>3 DEF InReception, Reception
<1>5. /\ UType(s.u) /\ s.u.brk = FALSE /\ s.u.tcr = uart.tcr /\ s.u.tncr = uart.tncr
      /\ uart.rcr # 0 => Frame(s.u, line, ms) /\ s.calls = CallsOfBreak(uart)
      /\ uart.rcr = 0 => /\ ms # <<>> /\ Frame(s.u, line, Tail(ms))
                         /\ s.calls = Append(CallsOfBreak(uart), OfPacket(ms[1]))
  BY <1>2, <1>4, FrameInterrupted
<1>6. BType(bb) /\ bb = [b EXCEPT !.nmb_checksum_errors = @ + (IF uart.brk THEN 1 ELSE 0)]
  <2>1. uart.brk \in BOOLEAN /\ b.nmb_checksum_errors \in Nat
    BY <1>2 DEF UType, BType
  <2>2. Callback(b, OfBreak) = [b EXCEPT !.nmb_checksum_errors = @ + 1]
    BY <1>2, CallbackBreak
  <2>3. b = [b EXCEPT !.nmb_checksum_errors = @ + 0]
    BY <1>2, <2>1 DEF BType
  <2> QED
    BY <1>2, <2>1, <2>2, <2>3 DEF BType
<1>7. Owes(owed, b, OfBreak) = owed
  BY <1>2, CallbackBreak
<1>8. CASE uart.rcr # 0
  <2>1. bt_state' = bb /\ owed' = owed
    <3>1. CASE uart.brk
      <4>1. s.calls = <<OfBreak>> /\ Len(<<OfBreak>>) = 1 /\ <<OfBreak>>[1] = OfBreak
        BY <1>5, <1>8, <3>1 DEF CallsOfBreak
      <4> QED
        BY <1>1, <1>7, <3>1, <4>1 DEF InTurn
    <3>2. CASE ~uart.brk
      <4>1. s.calls = <<>>
        BY <1>5, <1>8, <3>2 DEF CallsOfBreak
      <4> QED
        BY <1>1, <3>2, <4>1, LenNone DEF InTurn
    <3> QED
      BY <3>1, <3>2
  <2>2. Same(b, bt_state')
        /\ bt_state'.nmb_checksum_errors = b.nmb_checksum_errors + (IF uart.brk THEN 1 ELSE 0)
    BY <1>2, <1>6, <2>1 DEF Same, BType
  <2> QED
    BY <1>1, <1>2, <1>3, <1>5, <1>6, <1>8, <2>1, <2>2 DEF Interrupted
<1>9. CASE uart.rcr = 0
  <2> DEFINE m == ms[1]
  <2>1. ms # <<>> /\ m \in Msg
    BY <1>2, <1>5, <1>9
  <2>2. bt_state' = Callback(bb, OfPacket(m)) /\ owed' = Owes(owed, b, OfPacket(m))
    <3>1. CASE uart.brk
      <4>1. s.calls = <<OfBreak, OfPacket(m)>>
        BY <1>5, <1>9, <3>1 DEF CallsOfBreak
      <4>2. Len(s.calls) = 2 /\ s.calls[1] = OfBreak /\ s.calls[2] = OfPacket(m)
        BY <4>1
      <4> QED
        BY <1>1, <1>7, <3>1, <4>2 DEF InTurn
    <3>2. CASE ~uart.brk
      <4>1. s.calls = <<OfPacket(m)>>
        BY <1>5, <1>9, <3>2 DEF CallsOfBreak
      <4>2. Len(s.calls) = 1 /\ s.calls[1] = OfPacket(m)
        BY <4>1
      <4> QED
        BY <1>1, <3>2, <4>2 DEF InTurn
    <3> QED
      BY <3>1, <3>2
  <2>3. BType(bt_state') /\ Heard(b, m, bt_state')
        /\ bt_state'.nmb_checksum_errors
               = b.nmb_checksum_errors + (IF uart.brk THEN 1 ELSE 0) + Harm(m)
    <3>1. Heard(bb, m, bt_state') /\ BType(bt_state')
          /\ bt_state'.nmb_checksum_errors = bb.nmb_checksum_errors + Harm(m)
      BY <1>6, <2>1, <2>2, CallbackPacket, CallbackType
    <3>2. Same(b, bb)
          /\ bb.nmb_checksum_errors = b.nmb_checksum_errors + (IF uart.brk THEN 1 ELSE 0)
      BY <1>2, <1>6 DEF Same, BType
    <3> HIDE DEF bb
    <3> QED
      BY <3>1, <3>2 DEF Heard, Same, Finds, Stops
  <2>4. Owed(b, owed, m, owed') /\ OType(owed')
    BY <1>2, <2>1, <2>2, OwesPacket
  <2>5. Frame(uart', line, owed'.messages)
    BY <1>1, <1>5, <1>9, <2>4 DEF Owed
  <2> QED
    BY <1>1, <1>3, <1>5, <1>6, <1>9, <2>1, <2>3, <2>4, <2>5 DEF Interrupted
<1> QED
  BY <1>8, <1>9

LEMMA TailMessages ==
    ASSUME NEW ms \in Seq(Msg), ms # <<>>
    PROVE  /\ Len(ms) \in Nat \ {0} /\ ms[1] \in Msg
           /\ Tail(ms) \in Seq(Msg) /\ Len(Tail(ms)) = Len(ms) - 1
           /\ \A i \in 1..Len(Tail(ms)) : i + 1 \in 1..Len(ms) /\ Tail(ms)[i] = ms[i + 1]
<1>1. Len(ms) \in Nat \ {0} /\ ms[1] \in Msg
  BY EmptySeq
<1>2. /\ Tail(ms) \in Seq(Msg) /\ Len(Tail(ms)) = Len(ms) - 1
      /\ \A i \in 1..Len(Tail(ms)) : Tail(ms)[i] = ms[i + 1]
  BY HeadTailProperties
<1> QED
  BY <1>1, <1>2

\* The answer on its way becomes the last message; no other one does.
LEMMA IsrAnswers ==
    ASSUME BtInv, Isr
    PROVE  InAnswers'
<1> DEFINE ms == owed.messages
           m == ms[1]
<1> USE DEF BtInv
<1>1. /\ Interrupted(uart, bt_state, owed, uart', bt_state', owed')
      /\ prog' = prog /\ bc' = bc
  BY IsrInterrupts DEF Isr
<1>2. Answers(uart, bt_state, prog, bc, ms)
  BY DEF InAnswers
<1>3. CASE uart.rcr # 0
  <2>1. /\ uart'.tcr = uart.tcr /\ uart'.tncr = uart.tncr /\ owed' = owed
        /\ bt_state'.last_msg = bt_state.last_msg /\ bt_state'.args = bt_state.args
    BY <1>1, <1>3 DEF Interrupted, Same
  <2>2. Answers(uart', bt_state', prog, bc, ms)
    BY <1>2, <2>1 DEF Answers, Told, Nothing, Pending, Latest
  <2> QED
    BY <1>1, <2>1, <2>2 DEF InAnswers
<1>4. CASE uart.rcr = 0
  <2>1. /\ uart'.tcr = uart.tcr /\ uart'.tncr = uart.tncr /\ ms # <<>>
        /\ Heard(bt_state, m, bt_state') /\ owed'.messages = Tail(ms)
    BY <1>1, <1>4 DEF Interrupted, Owed
  <2>2. ms \in Seq(Msg)
    BY DEF Typed, OType
  <2> HIDE DEF m, ms
  <2>3. /\ Len(ms) \in Nat \ {0} /\ m \in Msg
        /\ Tail(ms) \in Seq(Msg) /\ Len(Tail(ms)) = Len(ms) - 1
        /\ \A i \in 1..Len(Tail(ms)) : i + 1 \in 1..Len(ms) /\ Tail(ms)[i] = ms[i + 1]
    BY <2>1, <2>2, TailMessages DEF m
  <2>4. prog.call \in Answered => Answer[prog.call] \in OwnTypes
    BY AnswerOwn
  <2>5. Answered # {} /\ 1 \in 1..Len(ms) /\ m = ms[1] /\ Results \subseteq Answered
    BY <2>3, AnsweredAre DEF m, Results
  <2>6. m.type \notin OwnTypes =>
            (prog.call \in Answered /\ ~Told(bt_state, prog) => ~Told(bt_state', prog))
    BY <2>1, <2>4, OwnUnasked DEF Told, Heard
  <2>7. m.type \in OwnTypes => Nothing(uart) /\ prog.at = "wait" /\ Own(prog, m)
    BY <1>2, <2>5 DEF Answers
  <2>8. ASSUME NEW i \in 1..Len(Tail(ms)), Tail(ms)[i].type \in OwnTypes
        PROVE  /\ prog.at = "wait" /\ Own(prog, Tail(ms)[i]) /\ ~Told(bt_state', prog)
               /\ Nothing(uart')
               /\ prog.call \in Results => i = Len(Tail(ms)) /\ Tail(ms)[i].arg = prog.arg
    <3>1. i + 1 \in 1..Len(ms) /\ ms[i + 1] = Tail(ms)[i]
      BY <2>3
    <3>2. /\ prog.at = "wait" /\ Own(prog, Tail(ms)[i]) /\ ~Told(bt_state, prog)
          /\ Nothing(uart)
          /\ prog.call \in Results => i + 1 = Len(ms) /\ Tail(ms)[i].arg = prog.arg
      BY <1>2, <2>8, <3>1 DEF Answers
    <3>3. m.type \notin OwnTypes
      <4>1. i + 1 # 1 /\ i \in Nat
        BY <2>3
      <4> QED
        BY <1>2, <2>5, <2>8, <3>1, <4>1 DEF Answers
    <3>4. ~Told(bt_state', prog)
      BY <2>6, <3>2, <3>3 DEF Own
    <3>5. Nothing(uart')
      BY <2>1, <3>2 DEF Nothing
    <3>6. i + 1 = Len(ms) => i = Len(Tail(ms))
      <4> DEFINE n == Len(ms)
                 k == Len(Tail(ms))
      <4>1. n \in Nat /\ k = n - 1 /\ i \in 1..k
        BY <2>3
      <4> HIDE DEF n, k
      <4>2. i + 1 = n => i = k
        BY <4>1
      <4> QED
        BY <4>2 DEF n, k
    <3> QED
      BY <3>2, <3>4, <3>5, <3>6
  <2>9. ASSUME NEW i \in 1..Len(Tail(ms)), NEW j \in 1..Len(Tail(ms)),
               Tail(ms)[i].type \in OwnTypes, Tail(ms)[j].type \in OwnTypes
        PROVE  i = j
    <3>1. /\ i + 1 \in 1..Len(ms) /\ ms[i + 1] = Tail(ms)[i]
          /\ j + 1 \in 1..Len(ms) /\ ms[j + 1] = Tail(ms)[j]
      BY <2>3
    <3>2. i + 1 = j + 1
      BY <1>2, <2>9, <3>1 DEF Answers
    <3>3. i \in Nat /\ j \in Nat
      BY <2>3
    <3> QED
      BY <3>2, <3>3
  <2>10. prog.call \in Answered /\ (prog.at = "write" \/ uart.tcr # NoPacket)
            => ~Told(bt_state', prog)
    BY <1>2, <2>6, <2>7 DEF Answers, Nothing
  <2>11. ASSUME prog.call \in Results, prog.at \in {"wait", "check", "compare", "read"}
         PROVE  \/ prog.at = "wait" /\ Pending(uart', prog)
                \/ prog.at = "wait" /\ Tail(ms) # <<>>
                   /\ Tail(ms)[Len(Tail(ms))].type = Answer[prog.call]
                \/ Told(bt_state', prog) /\ bt_state'.args = <<prog.arg, prog.arg>>
                   /\ Tail(ms) = <<>>
                \/ prog.at \notin {"compare", "read"} /\ ~Told(bt_state', prog) /\ bc.faults > 0 /\ Tail(ms) = <<>>
    <3>1. CASE prog.at = "wait" /\ Pending(uart, prog)
      BY <2>1, <3>1 DEF Pending, Latest
    <3>2. CASE prog.at = "wait" /\ ms[Len(ms)].type = Answer[prog.call]
      <4>1. CASE Len(ms) = 1
        <5>1. m.type = Answer[prog.call] /\ m.type \in OwnTypes /\ Tail(ms) = <<>>
          BY <2>2, <2>4, <2>5, <2>11, <3>2, <4>1, OfOne
        <5>2. m.arg = prog.arg /\ ~Told(bt_state, prog)
          BY <1>2, <2>5, <2>11, <5>1 DEF Answers
        <5>3. prog.arg \in Values
          BY <2>11 DEF Typed, PType, Results
        <5>4. CASE m.sound
          BY <2>1, <5>1, <5>2, <5>3, <5>4 DEF Heard, Told
        <5>5. CASE ~m.sound
          <6>1. bt_state'.last_msg = bt_state.last_msg
            BY <2>1, <5>5 DEF Heard
          <6>2. Harmed(ms) = 1
            BY <2>1, <4>1, <5>5 DEF Harmed, Harm, m
          <6>3. bc.faults > 0
            <7>1. bt_state.nmb_checksum_errors \in Nat /\ bc.faults \in Nat
              BY DEF Typed, BType, CType
            <7>2. bt_state.nmb_checksum_errors + (IF uart.brk THEN 1 ELSE 0) + Harmed(ms)
                      <= bc.faults
              BY DEF InFaults, Faults, ms
            <7> QED
              BY <6>2, <7>1, <7>2
          <6> QED
            BY <3>2, <5>1, <5>2, <6>1, <6>3 DEF Told
        <5> QED
          BY <5>4, <5>5
      <4>2. CASE Len(ms) # 1
        <5>1. Len(Tail(ms)) \in 1..Len(Tail(ms)) /\ Len(Tail(ms)) + 1 = Len(ms)
          BY <2>3, <4>2
        <5>2. Tail(ms) # <<>>
          <6> DEFINE k == Len(Tail(ms))
          <6>1. k \in 1..k
            BY <5>1
          <6> HIDE DEF k
          <6>2. k # 0
            BY <6>1
          <6> QED
            BY <6>2, LenNone DEF k
        <5> QED
          BY <2>3, <3>2, <5>1, <5>2
      <4> QED
        BY <4>1, <4>2
    <3> QED
      BY <1>2, <2>1, <2>11, <3>1, <3>2 DEF Answers
  <2>12. Answers(uart', bt_state', prog, bc, Tail(ms))
    BY <1>2, <2>1, <2>8, <2>9, <2>10, <2>11 DEF Answers
  <2> QED
    BY <1>1, <2>1, <2>12 DEF InAnswers
<1> QED
  BY <1>3, <1>4

\* A device is stored only when the one before it has been fetched.
LEMMA IsrFound ==
    ASSUME BtInv, Isr
    PROVE  InFound'
<1> DEFINE m == owed.messages[1]
<1> USE DEF BtInv
<1>1. /\ Interrupted(uart, bt_state, owed, uart', bt_state', owed')
      /\ prog' = prog
  BY IsrInterrupts DEF Isr
<1>2. Found(bt_state, prog, owed)
  BY DEF InFound
<1>3. CASE uart.rcr # 0
  BY <1>1, <1>2, <1>3 DEF Interrupted, Same, Found, Listing, Fresh, InFound
<1>4. CASE uart.rcr = 0
  <2>1. /\ Heard(bt_state, m, bt_state') /\ Owed(bt_state, owed, m, owed')
        /\ owed.messages # <<>>
    BY <1>1, <1>4 DEF Interrupted
  <2>2. m \in Msg
    BY <2>1, TailMessages DEF Typed, OType
  <2>3. m.type \in {"INQUIRY_RESULT", "LIST_ITEM"} => m.arg \in Devices /\ m.arg # None
    BY <2>2, MsgFields, NoneIsNo DEF Args
  <2>4. bt_state.remote_id \in 0..2 => NextId(bt_state.remote_id) # bt_state.remote_id
    BY NextIdOther
  <2>5. bt_state.remote_id \in 0..2
    BY DEF Typed, BType
  <2> HIDE DEF m
  <2>6. Found(bt_state', prog, owed')
    BY <1>2, <2>1, <2>3, <2>4, <2>5 DEF Found, Listing, Fresh, Heard, Owed, Finds, Stops
  <2> QED
    BY <1>1, <2>6 DEF InFound
<1> QED
  BY <1>3, <1>4

\* What is asked depends on the addresses and on the calls that answer.
SameWaits(b, d) ==
    /\ d.dev_waiting_for_pin = b.dev_waiting_for_pin
    /\ d.dev_waiting_for_connection = b.dev_waiting_for_connection
    /\ d.new_handle = b.new_handle
SameOwed(o, q) == q.pin = o.pin /\ q.connection = o.connection /\ q.handle = o.handle

\* A step that changes neither.
LEMMA RequestsSame ==
    ASSUME NEW u, NEW v, NEW b, NEW d, NEW p, NEW r, NEW c, NEW o, NEW q, NEW ms,
           Requests(u, b, p, c, o, ms), SameWaits(b, d), SameOwed(o, q),
           v.tcr = u.tcr, v.tncr = u.tncr,
           \/ r = p
           \/ /\ p.call \notin {"nx_bt_send_pin", "nx_bt_accept_connection"}
              /\ r.call \notin {"nx_bt_send_pin", "nx_bt_accept_connection"}
              /\ r.at # "established"
    PROVE  Requests(v, d, r, c, q, ms)
<1>1. \A i \in 1..Len(ms) : ms[i].type \in Asked =>
          c.peer = Stage(ms[i].type) /\ Waits(b, ms[i].type) = None
  BY DEF Requests
<1>2. \A i \in 1..Len(ms) : Waits(d, ms[i].type) = Waits(b, ms[i].type)
  BY DEF Waits, SameWaits
<1>3. \A i \in 1..Len(ms) : ms[i].type \in Asked =>
          c.peer = Stage(ms[i].type) /\ Waits(d, ms[i].type) = None
  BY <1>1, <1>2
<1>4. \A i, j \in 1..Len(ms) : ms[i].type \in Asked /\ ms[j].type \in Asked => i = j
  BY DEF Requests
<1>5. /\ q.pin # None => d.dev_waiting_for_pin = q.pin
      /\ q.connection # None => d.dev_waiting_for_connection = q.connection
      /\ q.handle # None => d.new_handle = q.handle
      /\ d.new_handle # None => c.peer = "none"
  BY DEF Requests, SameWaits, SameOwed
<1>6. /\ d.dev_waiting_for_pin # None =>
             /\ c.peer # "accepted"
             /\ c.peer = "pin" \/ (r.call = "nx_bt_send_pin" /\ r.at # "return")
      /\ d.dev_waiting_for_connection # None =>
             \/ c.peer = "asks"
             \/ r.call = "nx_bt_accept_connection" /\ r.at = "clear" /\ Nothing(v)
  BY DEF Requests, SameWaits, Nothing
<1>7. CASE r = p
  BY <1>3, <1>4, <1>5, <1>6, <1>7 DEF Requests, SameWaits, SameOwed
<1>8. CASE r # p
  BY <1>3, <1>4, <1>5, <1>6, <1>8 DEF Requests
<1> QED
  BY <1>7, <1>8

\* A request finds its place free.
LEMMA IsrRequests ==
    ASSUME BtInv, Isr
    PROVE  InRequests'
<1> DEFINE ms == owed.messages
           m == ms[1]
<1> USE DEF BtInv
<1>1. /\ Interrupted(uart, bt_state, owed, uart', bt_state', owed')
      /\ prog' = prog /\ bc' = bc
  BY IsrInterrupts DEF Isr
<1>2. Requests(uart, bt_state, prog, bc, owed, ms)
  BY DEF InRequests
<1>3. CASE uart.rcr # 0
  <2>1. /\ SameWaits(bt_state, bt_state') /\ SameOwed(owed, owed') /\ owed'.messages = ms
        /\ uart'.tcr = uart.tcr /\ uart'.tncr = uart.tncr
    BY <1>1, <1>3 DEF Interrupted, Same, SameWaits, SameOwed
  <2> QED
    BY <1>1, <1>2, <2>1, RequestsSame DEF InRequests
<1>4. CASE uart.rcr = 0
  <2>1. /\ Heard(bt_state, m, bt_state') /\ Owed(bt_state, owed, m, owed')
        /\ ms # <<>> /\ uart'.tcr = uart.tcr /\ uart'.tncr = uart.tncr
    BY <1>1, <1>4 DEF Interrupted
  <2>2. ms \in Seq(Msg)
    BY DEF Typed, OType
  <2> HIDE DEF m, ms
  <2>3. /\ Len(ms) \in Nat \ {0} /\ m \in Msg
        /\ Tail(ms) \in Seq(Msg) /\ Len(Tail(ms)) = Len(ms) - 1
        /\ \A i \in 1..Len(Tail(ms)) : i + 1 \in 1..Len(ms) /\ Tail(ms)[i] = ms[i + 1]
    BY <2>1, <2>2, TailMessages DEF m
  <2>4. 1 \in 1..Len(ms) /\ m = ms[1]
    BY <2>3 DEF m
  <2>5. m.type \in Asked => bc.peer = Stage(m.type) /\ Waits(bt_state, m.type) = None
    BY <1>2, <2>4 DEF Requests
  <2>6. m.type \notin Asked => \A type \in Asked : Waits(bt_state', type) = Waits(bt_state, type)
    BY <2>1 DEF Heard, Asked, Waits
  <2>7. ASSUME NEW i \in 1..Len(Tail(ms)), Tail(ms)[i].type \in Asked
        PROVE  /\ bc.peer = Stage(Tail(ms)[i].type)
               /\ Waits(bt_state', Tail(ms)[i].type) = None
    <3>1. i + 1 \in 1..Len(ms) /\ ms[i + 1] = Tail(ms)[i]
      BY <2>3
    <3>2. /\ bc.peer = Stage(Tail(ms)[i].type)
          /\ Waits(bt_state, Tail(ms)[i].type) = None
      BY <1>2, <2>7, <3>1 DEF Requests
    <3>3. m.type \notin Asked
      <4>1. i + 1 # 1 /\ i \in Nat
        BY <2>3
      <4> QED
        BY <1>2, <2>4, <2>7, <3>1, <4>1 DEF Requests
    <3> QED
      BY <2>6, <2>7, <3>2, <3>3
  <2>8. ASSUME NEW i \in 1..Len(Tail(ms)), NEW j \in 1..Len(Tail(ms)),
               Tail(ms)[i].type \in Asked, Tail(ms)[j].type \in Asked
        PROVE  i = j
    <3>1. /\ i + 1 \in 1..Len(ms) /\ ms[i + 1] = Tail(ms)[i]
          /\ j + 1 \in 1..Len(ms) /\ ms[j + 1] = Tail(ms)[j]
      BY <2>3
    <3>2. i + 1 = j + 1
      BY <1>2, <2>8, <3>1 DEF Requests
    <3>3. i \in Nat /\ j \in Nat
      BY <2>3
    <3> QED
      BY <3>2, <3>3
  <2>9. /\ m.type \in {"REQUEST_PIN_CODE", "REQUEST_CONNECTION"} => m.arg # None
        /\ m.type \in Asked => m.type \in {"REQUEST_PIN_CODE", "REQUEST_CONNECTION", "CONNECT_RESULT"}
    BY <2>3, MsgFields, NoneIsNo DEF Args, Asked
  <2>10. Requests(uart', bt_state', prog, bc, owed', Tail(ms))
    <3>1. /\ m.type = "REQUEST_PIN_CODE" =>
                 bc.peer = "pin" /\ bt_state.dev_waiting_for_pin = None
          /\ m.type = "REQUEST_CONNECTION" =>
                 bc.peer = "asks" /\ bt_state.dev_waiting_for_connection = None
          /\ m.type = "CONNECT_RESULT" => bc.peer = "none" /\ bt_state.new_handle = None
      BY <2>5 DEF Asked, Stage, Waits
    <3>2. /\ owed'.pin # None => bt_state'.dev_waiting_for_pin = owed'.pin
          /\ owed'.connection # None => bt_state'.dev_waiting_for_connection = owed'.connection
          /\ owed'.handle # None => bt_state'.new_handle = owed'.handle
      BY <1>2, <2>1 DEF Requests, Heard, Owed
    <3>3. /\ bt_state'.dev_waiting_for_pin # None =>
                 /\ bc.peer # "accepted"
                 /\ bc.peer = "pin" \/ (prog.call = "nx_bt_send_pin" /\ prog.at # "return")
          /\ bt_state'.dev_waiting_for_connection # None =>
                \/ bc.peer = "asks"
                \/ prog.call = "nx_bt_accept_connection" /\ prog.at = "clear" /\ Nothing(uart')
          /\ bt_state'.new_handle # None => bc.peer = "none"
      BY <1>2, <2>1, <3>1 DEF Requests, Heard, Nothing
    <3>4. prog.call = "nx_bt_send_pin" /\ prog.at # "return" =>
           /\ bt_state'.dev_waiting_for_pin # None /\ owed'.pin = None
           /\ prog.at = "write" \/ uart'.tcr # NoPacket => bc.peer = "pin"
      BY <1>2, <2>1, <2>9, <3>1 DEF Requests, Heard, Owed
    <3>5. prog.call = "nx_bt_accept_connection" =>
           /\ prog.at \in {"write", "clear"} =>
                  owed'.connection = None /\ bt_state'.dev_waiting_for_connection # None
           /\ prog.at = "write" \/ uart'.tcr # NoPacket => bc.peer = "asks"
           /\ uart'.tcr # NoPacket =>
                  /\ prog.at = "drain" => bt_state'.dev_waiting_for_connection = None
                  /\ \A i \in 1..Len(Tail(ms)) : Tail(ms)[i].type \notin Asked
      <4>1. ASSUME prog.call = "nx_bt_accept_connection", uart'.tcr # NoPacket
            PROVE  /\ m.type \notin Asked
                   /\ \A i \in 1..Len(Tail(ms)) : Tail(ms)[i].type \notin Asked
        BY <1>2, <2>1, <2>3, <2>4, <4>1 DEF Requests
      <4> QED
        BY <1>2, <2>1, <2>9, <3>1, <4>1 DEF Requests, Heard, Owed, Asked
    <3>6. prog.at = "established" => bt_state'.new_handle # None /\ owed'.handle = None
      BY <1>2, <2>1, <2>9, <3>1 DEF Requests, Heard, Owed
    <3> QED
      BY <2>7, <2>8, <3>2, <3>3, <3>4, <3>5, <3>6 DEF Requests
  <2> QED
    BY <1>1, <2>1, <2>10 DEF InRequests, Owed, ms
<1> QED
  BY <1>3, <1>4

\* An error is counted for each damaged message and each break.
LEMMA IsrFaults ==
    ASSUME BtInv, Isr
    PROVE  InFaults'
<1> DEFINE ms == owed.messages
           m == ms[1]
           errors == bt_state.nmb_checksum_errors
           brk == IF uart.brk THEN 1 ELSE 0
<1> USE DEF BtInv
<1>1. /\ Interrupted(uart, bt_state, owed, uart', bt_state', owed') /\ bc' = bc
      /\ Frame(uart', line, owed'.messages) /\ OType(owed')
  BY IsrInterrupts DEF Isr
<1>2. Len(ms) <= 2 /\ errors + brk + Harmed(ms) <= bc.faults
  BY DEF InFaults, Faults
<1>3. errors \in Nat /\ brk \in {0, 1} /\ bc.faults \in Nat /\ ms \in Seq(Msg)
  BY DEF Typed, BType, CType, UType, OType
<1>4. Len(owed'.messages) <= 2
  BY <1>1, FrameLen DEF OType
<1>5. CASE uart.rcr # 0
  <2>1. uart'.brk = FALSE /\ owed' = owed /\ bt_state'.nmb_checksum_errors = errors + brk
    BY <1>1, <1>5 DEF Interrupted
  <2>2. (errors + brk) + 0 + Harmed(ms) <= bc.faults
    <3>1. Harmed(ms) \in Int
      BY DEF Harmed, Harm
    <3> QED
      BY <1>2, <1>3, <3>1
  <2> QED
    BY <1>1, <1>4, <2>1, <2>2 DEF InFaults, Faults
<1>6. CASE uart.rcr = 0
  <2>1. /\ uart'.brk = FALSE /\ ms # <<>> /\ owed'.messages = Tail(ms)
        /\ bt_state'.nmb_checksum_errors = errors + brk + Harm(m)
    BY <1>1, <1>6 DEF Interrupted, Owed
  <2> HIDE DEF ms, errors, brk, m
  <2>2. /\ Len(ms) \in Nat \ {0} /\ Len(Tail(ms)) = Len(ms) - 1
        /\ \A i \in 1..Len(Tail(ms)) : i + 1 \in 1..Len(ms) /\ Tail(ms)[i] = ms[i + 1]
    BY <1>3, <2>1, TailMessages
  <2>3. Harmed(ms) = Harm(m) + Harmed(Tail(ms)) /\ Harmed(Tail(ms)) \in Nat /\ Harm(m) \in Nat
    <3>1. CASE Len(ms) = 1
      <4>1. Tail(ms) = <<>>
        BY <1>3, <3>1, OfOne
      <4> QED
        BY <2>1, <3>1, <4>1 DEF Harmed, Harm, m
    <3>2. CASE Len(ms) = 2
      <4> DEFINE k == Len(Tail(ms))
      <4>1. k = 1 /\ 1 \in 1..k
        BY <2>2, <3>2
      <4>2. Tail(ms)[1] = ms[2]
        BY <2>2, <4>1
      <4>3. Tail(ms) # <<>>
        BY <4>1, LenNone
      <4> QED
        BY <2>1, <3>2, <4>1, <4>2, <4>3 DEF Harmed, Harm, m
    <3> QED
      BY <1>2, <2>2, <3>1, <3>2
  <2>4. (errors + brk + Harm(m)) + 0 + Harmed(Tail(ms)) <= bc.faults
    BY <1>2, <1>3, <2>3
  <2> QED
    BY <1>1, <1>4, <2>1, <2>4 DEF InFaults, Faults
<1> QED
  BY <1>5, <1>6

LEMMA IsrKeeps ==
    ASSUME BtInv, Isr
    PROVE  BtInv'
<1> DEFINE ms == owed.messages
           m == ms[1]
<1>1. /\ UType(uart') /\ BType(bt_state') /\ OType(owed')
      /\ Interrupted(uart, bt_state, owed, uart', bt_state', owed')
      /\ ~Deaf(bt_state, prog)
      /\ Frame(uart', line, owed'.messages)
  BY IsrInterrupts DEF BtInv
<1>2. prog' = prog /\ line' = line /\ bc' = bc
  BY DEF Isr
<1>3. Typed'
  BY <1>1, <1>2 DEF BtInv, Typed
<1>4. /\ owed'.framed = owed.framed /\ owed'.data = owed.data
      /\ bt_state'.state \in {bt_state.state, "WAITING"}
      /\ ms = <<>> => bt_state'.state = bt_state.state /\ bt_state'.new_handle = bt_state.new_handle
                       /\ owed' = owed
  BY <1>1 DEF Interrupted, Same, Heard, Owed
<1>5. ms = <<>> \/ bt_state.state # "STREAMING"
  BY <1>1 DEF BtInv, InModes, Modes, Deaf
<1>6. ~Deaf(bt_state', prog')
  BY <1>1, <1>2, <1>4 DEF Deaf
<1>7. InReception'
  <2>1. owed'.framed
    BY <1>4 DEF BtInv, InReception, Reception
  <2> QED
    BY <1>1, <1>2, <1>6, <2>1 DEF InReception, Reception
<1>8. InModes'
  <2>1. Modes(bt_state, prog, line, bc, owed)
    BY DEF BtInv, InModes
  <2>2. Modes(bt_state', prog, line, bc, owed')
    <3>1. CASE ms = <<>>
      BY <1>4, <2>1, <3>1 DEF Modes
    <3>2. CASE ms # <<>> /\ bt_state.state # "STREAMING"
      BY <1>4, <2>1, <3>2 DEF Modes
    <3> QED
      BY <1>5, <3>1, <3>2
  <2> QED
    BY <1>2, <2>2 DEF InModes
<1>9. InQueue'
  <2>1. uart'.tcr = uart.tcr /\ uart'.tncr = uart.tncr
    BY <1>1 DEF Interrupted
  <2>2. Queue(uart, prog, bc)
    BY DEF BtInv, InQueue
  <2>3. Queue(uart', prog, bc)
    BY <2>1, <2>2 DEF Queue, AllLoose, Nothing, Pending, Latest
  <2> QED
    BY <1>2, <2>3 DEF InQueue
<1> QED
  BY <1>3, <1>7, <1>8, <1>9, IsrAnswers, IsrFound, IsrRequests, IsrFaults DEF BtInv

---------------------------------------------------------------------------
(* Steps of the program alone *)

LEMMA OnlyProg ==
    ASSUME BtInv, UNCHANGED <<uart, bt_state, line, bc, owed>>,
           PType(prog'), Deaf(bt_state, prog') <=> Deaf(bt_state, prog),
           Modes(bt_state, prog', line, bc, owed),
           Queue(uart, prog', bc),
           Answers(uart, bt_state, prog', bc, owed.messages),
           Found(bt_state, prog', owed),
           Requests(uart, bt_state, prog', bc, owed, owed.messages)
    PROVE  BtInv'
<1>1. Typed'
  BY DEF BtInv, Typed
<1>2. InReception'
  BY DEF BtInv, InReception, Reception
<1>3. InModes' /\ InQueue' /\ InAnswers' /\ InFound' /\ InRequests'
  BY DEF InModes, InQueue, InAnswers, InFound, InRequests
<1>4. InFaults'
  BY DEF BtInv, InFaults
<1> QED
  BY <1>1, <1>2, <1>3, <1>4 DEF BtInv

\* The parts of the invariant, as statements about the variables.
LEMMA ParamsOf ==
    ASSUME BtInv
    PROVE  /\ UType(uart) /\ BType(bt_state) /\ PType(prog) /\ CType(bc) /\ OType(owed)
           /\ line \in Seq(Byte)
           /\ Reception(uart, bt_state, prog, line, owed)
           /\ Modes(bt_state, prog, line, bc, owed)
           /\ Queue(uart, prog, bc)
           /\ Answers(uart, bt_state, prog, bc, owed.messages)
           /\ Found(bt_state, prog, owed)
           /\ Requests(uart, bt_state, prog, bc, owed, owed.messages)
           /\ Faults(uart, bt_state, bc, owed.messages)
BY DEF BtInv, Typed, InReception, InModes, InQueue, InAnswers, InFound, InRequests, InFaults

\* Where a call can be.
LEMMA PlacesOf ==
    ASSUME NEW call \in Calls
    PROVE  /\ call # "none"
           /\ "write" \in Places(call) /\ "return" \in Places(call)
           /\ "wait" \in Places(call) <=> call \in Answered \cup {"nx_bt_cancel_inquiry"}
           /\ "check" \in Places(call) <=> call \in Answered \cup {"nx_bt_cancel_inquiry"}
           /\ "compare" \in Places(call) <=> call \in Matched
           /\ "read" \in Places(call) <=> call \in Results
           /\ "reset_id" \in Places(call) <=> call = "nx_bt_begin_inquiry"
           /\ "set_state" \in Places(call) <=> call \in Listings
           /\ "clear" \in Places(call) <=> call \in {"nx_bt_send_pin", "nx_bt_accept_connection"}
           /\ "drain" \in Places(call)
                  <=> call \in {"nx_bt_accept_connection", "nx_bt_stream_open"}
           /\ "mute" \in Places(call) <=> call = "nx_bt_stream_open"
           /\ "raise" \in Places(call) <=> call = "nx_bt_stream_open"
           /\ Places(call) \cap {"idle", "copy", "copied", "established", "lower"} = {}
<1>1. call \in Answered \cup Unanswered \cup {"nx_bt_cancel_inquiry"}
  BY AnswerDomain DEF Calls
<1> QED
  BY <1>1, AnsweredAre DEF Places, Unanswered, Results, Matched, Listings

LEMMA CallsHave ==
    /\ DOMAIN Answer \subseteq Calls /\ Unanswered \subseteq Calls /\ Answered \subseteq Calls
    /\ Results \subseteq Answered
    /\ "nx_bt_cancel_inquiry" \notin Answered /\ Answered \cap Unanswered = {}
    /\ "none" \notin Calls
BY AnsweredAre, AnswerDomain DEF Calls, Results, Unanswered

\* The program in a call.
LEMMA InACall ==
    ASSUME NEW p, PType(p)
    PROVE  /\ p.at \in Places(p.call)
           /\ p.call # "none" => p.call \in Calls /\ p.call \notin Headless /\ p.arg \in Values
           /\ p.at \notin Places("none") => p.call # "none"
BY DEF PType

LEMMA NoCallPlaces ==
    Places("none") = {"idle", "copy", "copied", "established", "lower"}
BY DEF Places, Results, Matched

\* A move, q, to another place.
Moved(p, q, at) == q = [p EXCEPT !.at = at]

LEMMA Goes ==
    ASSUME NEW p, NEW q, NEW at \in AnyPlace, PType(p), Moved(p, q, at), at \in Places(p.call),
           at \in {"idle", "write", "wait", "check", "compare"} => p.got = <<>>
    PROVE  /\ PType(q) /\ q.at = at /\ q.call = p.call /\ q.arg = p.arg /\ q.got = p.got
           /\ q.calls = p.calls
<1> DEFINE R == [calls : SUBSET (Calls \ Headless), at : AnyPlace, call : Calls \cup {"none"},
                 arg : Values \cup {None}, got : Seq(Devices \cup Values \cup {None, "failed"})]
<1>1. p \in R
  BY DEF PType
<1>2. /\ q \in R /\ q.at = at /\ q.call = p.call /\ q.arg = p.arg /\ q.got = p.got
      /\ q.calls = p.calls
  BY <1>1 DEF Moved
<1>3. PType(q)
  BY <1>2 DEF PType
<1> QED
  BY <1>2, <1>3

MovedWith(p, q, at, got) == q = [p EXCEPT !.at = at, !.got = got]
AnyGot == Seq(Devices \cup Values \cup {None, "failed"})

LEMMA GoesWith ==
    ASSUME NEW p, NEW q, NEW at \in AnyPlace, NEW got \in AnyGot, PType(p),
           MovedWith(p, q, at, got), at \in Places(p.call),
           at \notin {"idle", "write", "wait", "check", "compare"}
    PROVE  /\ PType(q) /\ q.at = at /\ q.call = p.call /\ q.arg = p.arg /\ q.got = got
           /\ q.calls = p.calls
<1> DEFINE R == [calls : SUBSET (Calls \ Headless), at : AnyPlace, call : Calls \cup {"none"},
                 arg : Values \cup {None}, got : AnyGot]
<1>1. p \in R
  BY DEF PType, AnyGot
<1>2. /\ q \in R /\ q.at = at /\ q.call = p.call /\ q.arg = p.arg /\ q.got = got
      /\ q.calls = p.calls
  BY <1>1 DEF MovedWith
<1>3. PType(q)
  BY <1>1, <1>2 DEF PType, AnyGot
<1> QED
  BY <1>2, <1>3

Entered(p, q, at, call, arg) ==
    q = [p EXCEPT !.at = at, !.call = call, !.arg = arg, !.got = <<>>]

LEMMA Enters ==
    ASSUME NEW p, NEW q, NEW at \in AnyPlace, NEW call, NEW arg \in Values \cup {None}, PType(p),
           Entered(p, q, at, call, arg), at \in Places(call),
           call \in p.calls \/ call = "none", call # "none" => arg \in Values
    PROVE  /\ PType(q) /\ q.at = at /\ q.call = call /\ q.arg = arg /\ q.got = <<>>
           /\ q.calls = p.calls
<1> DEFINE R == [calls : SUBSET (Calls \ Headless), at : AnyPlace, call : Calls \cup {"none"},
                 arg : Values \cup {None}, got : AnyGot]
<1>1. p \in R /\ call \in Calls \cup {"none"}
  BY DEF PType, AnyGot
<1>2. <<>> \in AnyGot
  BY DEF AnyGot
<1>3. /\ q \in R /\ q.at = at /\ q.call = call /\ q.arg = arg /\ q.got = <<>>
      /\ q.calls = p.calls
  BY <1>1, <1>2 DEF Entered
<1>4. PType(q)
  BY <1>1, <1>3 DEF PType, AnyGot
<1> QED
  BY <1>3, <1>4

LEMMA RulesKept ==
    ASSUME Careful
    PROVE  /\ "prompt" \in Rules /\ "punctual" \in Rules /\ "quiet" \in Rules /\ "fresh" \in Rules
           /\ "matched_ids" \in Rules /\ "one_thing" \in Rules /\ "drained" \in Rules
BY DEF Careful

\* When all is silent no message is on its way.
LEMMA SilentMeans ==
    ASSUME BtInv, Silent
    PROVE  owed.messages = <<>>
<1>1. CASE Deaf(bt_state, prog)
  BY <1>1, ParamsOf DEF Reception
<1>2. CASE ~Deaf(bt_state, prog)
  <2>1. Frame(uart, line, owed.messages) /\ owed.messages \in Seq(Msg) /\ UType(uart)
    BY <1>2, ParamsOf DEF Reception, OType
  <2>2. line = <<>> /\ ~Interrupting(uart) /\ uart.rhr = NoByte /\ uart.got = <<>>
    BY DEF Silent
  <2> QED
    BY <2>1, <2>2, FrameSilent
<1> QED
  BY <1>1, <1>2

LEMMA WaitKeeps ==
    ASSUME BtInv, Wait
    PROVE  BtInv'
<1> DEFINE ms == owed.messages
<1>1. /\ prog.at = "wait" /\ Told(bt_state, prog) /\ prog' = [prog EXCEPT !.at = "check"]
      /\ UNCHANGED <<uart, bt_state, line, bc, owed>>
  BY DEF Wait, At, Go, Told
<1>2. /\ PType(prog) /\ Modes(bt_state, prog, line, bc, owed) /\ Queue(uart, prog, bc)
      /\ Answers(uart, bt_state, prog, bc, ms) /\ Found(bt_state, prog, owed)
      /\ Requests(uart, bt_state, prog, bc, owed, ms)
  BY ParamsOf
<1>3. prog.call \in Answered \cup {"nx_bt_cancel_inquiry"} /\ "check" \in Places(prog.call)
  <2>1. prog.call # "none"
    BY <1>1, <1>2, InACall, NoCallPlaces
  <2> QED
    BY <1>1, <1>2, <2>1, InACall, PlacesOf
<1>4. /\ PType(prog') /\ prog'.at = "check" /\ prog'.call = prog.call /\ prog'.arg = prog.arg
      /\ prog'.got = prog.got
  <2>1. prog.got = <<>>
    BY <1>1, <1>2 DEF PType
  <2>2. Moved(prog, prog', "check")
    BY <1>1 DEF Moved
  <2>3. PType(prog) /\ "check" \in AnyPlace /\ "check" \in Places(prog.call)
    BY <1>2, <1>3 DEF AnyPlace
  <2> QED
    BY <2>1, <2>2, <2>3, Goes
<1>6. Deaf(bt_state, prog') <=> Deaf(bt_state, prog)
  BY <1>1, <1>4 DEF Deaf
<1>7. Modes(bt_state, prog', line, bc, owed)
  BY <1>1, <1>2, <1>4 DEF Modes
<1>8. prog.call \in Answered => Nothing(uart)
  BY <1>1, <1>2 DEF Answers, Queue, Nothing
<1>9. Queue(uart, prog', bc)
  BY <1>1, <1>2, <1>3, <1>4, <1>8, AnsweredAre DEF Queue
<1>10. \A i \in 1..Len(ms) : ms[i].type \notin OwnTypes
  BY <1>1, <1>2 DEF Answers
<1>11. Answers(uart, bt_state, prog', bc, ms)
  <2>1. prog.call \in Results => bt_state.args = <<prog.arg, prog.arg>> /\ ms = <<>>
    <3>1. ASSUME prog.call \in Results
          PROVE  ~Pending(uart, prog)
      BY <1>8, <3>1, AnsweredAre DEF Pending, Nothing, Results
    <3>2. ASSUME prog.call \in Results, ms # <<>>
          PROVE  ms[Len(ms)].type # Answer[prog.call]
      <4>1. Len(ms) \in 1..Len(ms)
        BY <3>2, ParamsOf, EmptySeq DEF OType
      <4>2. Answer[prog.call] \in OwnTypes
        BY <3>2, AnswerOwn, AnsweredAre DEF Results
      <4> QED
        BY <1>10, <4>1, <4>2
    <3> QED
      BY <1>1, <1>2, <3>1, <3>2 DEF Answers
  <2> QED
    BY <1>1, <1>2, <1>4, <1>8, <1>10, <2>1 DEF Answers, Told, Nothing
<1>12. Found(bt_state, prog', owed)
  BY <1>1, <1>2, <1>4 DEF Found
<1>13. Requests(uart, bt_state, prog', bc, owed, ms)
  BY <1>1, <1>2, <1>4 DEF Requests
<1> QED
  BY <1>1, <1>4, <1>6, <1>7, <1>9, <1>11, <1>12, <1>13, OnlyProg

\* No answer comes after the timeout: nothing is on its way then, so the answer
\* was spoilt.
LEMMA TimeoutKeeps ==
    ASSUME BtInv, Careful, Timeout
    PROVE  BtInv'
<1> DEFINE ms == owed.messages
<1>1. /\ prog.at = "wait" /\ ~Told(bt_state, prog) /\ prog' = [prog EXCEPT !.at = "check"]
      /\ Silent /\ uart.tcr = NoPacket
      /\ UNCHANGED <<uart, bt_state, line, bc, owed>>
  BY RulesKept DEF Timeout, At, Go, Told, IsWriting
<1>2. /\ PType(prog) /\ Modes(bt_state, prog, line, bc, owed) /\ Queue(uart, prog, bc)
      /\ Answers(uart, bt_state, prog, bc, ms) /\ Found(bt_state, prog, owed)
      /\ Requests(uart, bt_state, prog, bc, owed, ms)
  BY ParamsOf
<1>3. prog.call \in Answered \cup {"nx_bt_cancel_inquiry"} /\ "check" \in Places(prog.call)
  <2>1. prog.call # "none"
    BY <1>1, <1>2, InACall, NoCallPlaces
  <2> QED
    BY <1>1, <1>2, <2>1, InACall, PlacesOf
<1>4. /\ PType(prog') /\ prog'.at = "check" /\ prog'.call = prog.call /\ prog'.arg = prog.arg
      /\ prog'.got = prog.got
  <2>1. prog.got = <<>>
    BY <1>1, <1>2 DEF PType
  <2>2. Moved(prog, prog', "check")
    BY <1>1 DEF Moved
  <2>3. PType(prog) /\ "check" \in AnyPlace /\ "check" \in Places(prog.call)
    BY <1>2, <1>3 DEF AnyPlace
  <2> QED
    BY <2>1, <2>2, <2>3, Goes
<1>5. Nothing(uart) /\ ms = <<>>
  BY <1>1, <1>2, SilentMeans DEF Queue, Nothing
<1>6. Deaf(bt_state, prog') <=> Deaf(bt_state, prog)
  BY <1>1, <1>4 DEF Deaf
<1>7. Modes(bt_state, prog', line, bc, owed)
  BY <1>1, <1>2, <1>4 DEF Modes
<1>8. Queue(uart, prog', bc)
  BY <1>1, <1>2, <1>3, <1>4, <1>5, AnsweredAre DEF Queue
<1>9. Answers(uart, bt_state, prog', bc, ms)
  <2>1. prog.call \in Results => bc.faults > 0
    <3>1. ~Pending(uart, prog)
      BY <1>1 DEF Pending
    <3> QED
      BY <1>1, <1>2, <1>5, <3>1 DEF Answers
  <2>2. \A i \in 1..Len(ms) : FALSE
    BY <1>5, LenNone
  <2> QED
    BY <1>1, <1>2, <1>4, <1>5, <2>1, <2>2 DEF Answers, Told
<1>10. Found(bt_state, prog', owed)
  BY <1>1, <1>2, <1>4 DEF Found
<1>11. Requests(uart, bt_state, prog', bc, owed, ms)
  BY <1>1, <1>2, <1>4 DEF Requests
<1> QED
  BY <1>1, <1>4, <1>6, <1>7, <1>8, <1>9, <1>10, <1>11, OnlyProg

\* The second look finds what the first one found.
LEMMA CheckKeeps ==
    ASSUME BtInv, Check
    PROVE  BtInv'
<1> DEFINE ms == owed.messages
<1>1. /\ prog.at = "check" /\ UNCHANGED <<uart, bt_state, line, bc, owed>>
  BY DEF Check, At
<1>2. /\ PType(prog) /\ Modes(bt_state, prog, line, bc, owed) /\ Queue(uart, prog, bc)
      /\ Answers(uart, bt_state, prog, bc, ms) /\ Found(bt_state, prog, owed)
      /\ Requests(uart, bt_state, prog, bc, owed, ms)
  BY ParamsOf
<1>3. /\ prog.call \in Calls /\ prog.call \in Answered \cup {"nx_bt_cancel_inquiry"}
      /\ prog.got = <<>>
  <2>1. prog.call # "none"
    BY <1>1, <1>2, InACall, NoCallPlaces
  <2> QED
    BY <1>1, <1>2, <2>1, InACall, PlacesOf DEF PType
<1>4. prog.call \in Answered => Nothing(uart)
  BY <1>1, <1>2 DEF Queue
<1>5. \A i \in 1..Len(ms) : ms[i].type \notin OwnTypes
  BY <1>1, <1>2 DEF Answers
<1>6. prog.call \in Results =>
          \/ Told(bt_state, prog) /\ bt_state.args = <<prog.arg, prog.arg>> /\ ms = <<>>
          \/ ~Told(bt_state, prog) /\ bc.faults > 0 /\ ms = <<>>
  BY <1>1, <1>2 DEF Answers
<1>7. ASSUME NEW at \in {"compare", "read", "reset_id", "clear", "return", "write"}, Moved(prog, prog', at),
             \/ Told(bt_state, prog) /\ at = AfterAnswer(prog.call)
             \/ ~Told(bt_state, prog) /\ prog.call \in Retried /\ at = "write"
             \/ prog.call = "nx_bt_send_pin" /\ at = "clear"
             \/ prog.call \notin Results /\ prog.call # "nx_bt_send_pin" /\ at = "return"
      PROVE  BtInv'
  <2>1. at \in Places(prog.call)
    BY <1>3, <1>7, PlacesOf DEF AfterAnswer
  <2>2. /\ PType(prog') /\ prog'.at = at /\ prog'.call = prog.call /\ prog'.arg = prog.arg
        /\ prog'.got = <<>>
    <3>1. at \in AnyPlace
      BY DEF AnyPlace
    <3> QED
      BY <1>2, <1>3, <1>7, <2>1, <3>1, Goes
  <2>3. Deaf(bt_state, prog') <=> Deaf(bt_state, prog)
    BY <1>1, <2>2 DEF Deaf
  <2>4. Modes(bt_state, prog', line, bc, owed)
    BY <1>1, <1>2, <1>3, <2>2, AnsweredAre DEF Modes
  <2>5. Queue(uart, prog', bc)
    BY <1>1, <1>2, <1>3, <1>4, <2>2, AnsweredAre DEF Queue, AllLoose, Nothing
  <2>6. Answers(uart, bt_state, prog', bc, ms)
    <3>1. prog.call \in Results => at \in {"compare", "read"} /\ Told(bt_state, prog)
      BY <1>7, AnsweredAre DEF AfterAnswer, Results, Retried, Matched
    <3>2. prog.call \in Answered /\ at = "write" => ~Told(bt_state, prog)
      BY <1>7 DEF AfterAnswer
    <3> QED
      BY <1>1, <1>2, <1>4, <1>5, <1>6, <2>2, <3>1, <3>2 DEF Answers, Told, Nothing
  <2>7. Found(bt_state, prog', owed)
    BY <1>1, <1>2, <2>2 DEF Found
  <2>8. Requests(uart, bt_state, prog', bc, owed, ms)
    <3>1. prog.call # "nx_bt_accept_connection"
      BY <1>3, AnsweredAre
    <3>2. prog.call = "nx_bt_send_pin" => at = "clear" /\ uart.tcr = NoPacket
      BY <1>4, <1>7, AnsweredAre DEF AfterAnswer, Retried, Results, Nothing
    <3> QED
      BY <1>1, <1>2, <2>2, <3>1, <3>2 DEF Requests
  <2> QED
    BY <1>1, <2>2, <2>3, <2>4, <2>5, <2>6, <2>7, <2>8, OnlyProg
<1>8. ASSUME ~Told(bt_state, prog), prog.call \in Results,
             MovedWith(prog, prog', "return", <<"failed">>)
      PROVE  BtInv'
  <2>1. /\ PType(prog') /\ prog'.at = "return" /\ prog'.call = prog.call /\ prog'.arg = prog.arg
        /\ prog'.got = <<"failed">>
    <3>1. "return" \in AnyPlace /\ <<"failed">> \in AnyGot /\ "return" \in Places(prog.call)
      BY <1>3, PlacesOf DEF AnyPlace, AnyGot
    <3> QED
      BY <1>2, <1>8, <3>1, GoesWith
  <2>2. Deaf(bt_state, prog') <=> Deaf(bt_state, prog)
    BY <1>1, <2>1 DEF Deaf
  <2>3. /\ prog.call \in Answered
        /\ prog.call \notin {"nx_bt_send_pin", "nx_bt_accept_connection", "nx_bt_stream_open",
                             "nx_bt_begin_inquiry"}
    BY <1>8, AnsweredAre DEF Results
  <2>4. Modes(bt_state, prog', line, bc, owed)
    BY <1>1, <1>2, <2>1, <2>3 DEF Modes
  <2>5. Queue(uart, prog', bc)
    BY <1>1, <1>2, <1>4, <2>1, <2>3 DEF Queue
  <2>6. Answers(uart, bt_state, prog', bc, ms)
    BY <1>1, <1>2, <1>4, <1>5, <1>6, <1>8, <2>1 DEF Answers, Told, Nothing
  <2>7. Found(bt_state, prog', owed)
    BY <1>1, <1>2, <2>1 DEF Found
  <2>8. Requests(uart, bt_state, prog', bc, owed, ms)
    BY <1>1, <1>2, <2>1, <2>3 DEF Requests
  <2> QED
    BY <1>1, <2>1, <2>2, <2>4, <2>5, <2>6, <2>7, <2>8, OnlyProg
<1>9. CASE Told(bt_state, prog)
  <2>1. Moved(prog, prog', AfterAnswer(prog.call))
    BY <1>9 DEF Check, Go, Told, Moved
  <2>2. AfterAnswer(prog.call) \in {"compare", "read", "reset_id", "clear", "return", "write"}
    BY DEF AfterAnswer
  <2> QED
    BY <1>7, <1>9, <2>1, <2>2
<1>10. CASE ~Told(bt_state, prog) /\ prog.call \in Retried
  <2>1. Moved(prog, prog', "write")
    BY <1>10 DEF Check, Go, Told, Moved
  <2> QED
    BY <1>7, <1>10, <2>1
<1>11. CASE ~Told(bt_state, prog) /\ prog.call \notin Retried /\ prog.call = "nx_bt_send_pin"
  <2>1. Moved(prog, prog', "clear")
    BY <1>11 DEF Check, Go, Told, Moved
  <2> QED
    BY <1>7, <1>11, <2>1
<1>12. CASE ~Told(bt_state, prog) /\ prog.call \notin Retried /\ prog.call # "nx_bt_send_pin"
  <2>1. prog' = [prog EXCEPT !.at = "return",
                             !.got = IF prog.call \in Results THEN <<"failed">> ELSE <<>>]
    BY <1>12 DEF Check, Told
  <2>2. CASE prog.call \in Results
    BY <1>8, <1>12, <2>1, <2>2 DEF MovedWith
  <2>3. CASE prog.call \notin Results
    <3>1. Moved(prog, prog', "return")
      BY <1>2, <1>3, <2>1, <2>3 DEF Moved, PType
    <3> QED
      BY <1>7, <1>12, <2>3, <3>1
  <2> QED
    BY <2>2, <2>3
<1> QED
  BY <1>9, <1>10, <1>11, <1>12

LEMMA ShortSeqs ==
    ASSUME NEW x, NEW y
    PROVE  /\ Len(<<>>) = 0 /\ Append(<<>>, x) = <<x>>
           /\ Len(<<x>>) = 1 /\ Append(<<x>>, y) = <<x, y>>
           /\ <<x, y>>[1] = x /\ <<x, y>>[2] = y
<1>1. Len(<<>>) = 0 /\ Append(<<>>, x) = <<x>> /\ Len(<<x>>) = 1
  OBVIOUS
<1>2. Append(<<x>>, y) = <<x, y>>
  <2> DEFINE S == {x, y}
  <2>1. <<x>> \in Seq(S) /\ <<x, y>> \in Seq(S) /\ y \in S
    OBVIOUS
  <2>2. /\ Append(<<x>>, y) \in Seq(S) /\ Len(Append(<<x>>, y)) = 2
        /\ Append(<<x>>, y)[1] = x /\ Append(<<x>>, y)[2] = y
    BY <1>1, <2>1, AppendProperties
  <2>3. Len(<<x, y>>) = 2 /\ <<x, y>>[1] = x /\ <<x, y>>[2] = y
    OBVIOUS
  <2>4. \A i \in 1..2 : i = 1 \/ i = 2
    OBVIOUS
  <2> HIDE DEF S
  <2> QED
    BY <2>1, <2>2, <2>3, <2>4, SeqEqual
<1> QED
  BY <1>1, <1>2

\* What is known of a call that reads args.
LEMMA ReadIs ==
    ASSUME BtInv, prog.at \in {"compare", "read"}
    PROVE  /\ prog.call \in Calls /\ prog.call \in Results /\ prog.call \in Answered
           /\ prog.arg \in Values /\ PType(prog)
           /\ prog.call \notin {"nx_bt_send_pin", "nx_bt_accept_connection",
                                "nx_bt_stream_open", "nx_bt_begin_inquiry"}
           /\ Told(bt_state, prog) /\ bt_state.args = <<prog.arg, prog.arg>>
           /\ owed.messages = <<>>
           /\ prog.at = "read" => prog.got \in {<<>>, <<prog.arg>>}
<1>1. PType(prog) /\ Answers(uart, bt_state, prog, bc, owed.messages)
  BY ParamsOf
<1>2. prog.call # "none"
  BY <1>1, InACall, NoCallPlaces
<1>3. /\ prog.call \in Calls /\ prog.call \in Results /\ prog.call \in Answered
      /\ prog.arg \in Values
      /\ prog.call \notin {"nx_bt_send_pin", "nx_bt_accept_connection", "nx_bt_stream_open",
                           "nx_bt_begin_inquiry"}
  BY <1>1, <1>2, InACall, PlacesOf, AnsweredAre DEF Results, Matched
<1> QED
  BY <1>1, <1>3 DEF Answers

\* While a call reads args, both bytes of it are of its own answer: none other is
\* on its way.
LEMMA ReadingKeeps ==
    ASSUME BtInv, prog.at \in {"compare", "read"}, UNCHANGED <<uart, bt_state, line, bc, owed>>,
           \/ MovedWith(prog, prog', "read", <<prog.arg>>)
           \/ MovedWith(prog, prog', "return", <<prog.arg, prog.arg>>)
    PROVE  BtInv'
<1> DEFINE ms == owed.messages
           arg == prog.arg
<1>1. /\ prog.at \in {"compare", "read"} /\ UNCHANGED <<uart, bt_state, line, bc, owed>>
  OBVIOUS
<1>2. /\ PType(prog) /\ Modes(bt_state, prog, line, bc, owed) /\ Queue(uart, prog, bc)
      /\ Answers(uart, bt_state, prog, bc, ms) /\ Found(bt_state, prog, owed)
      /\ Requests(uart, bt_state, prog, bc, owed, ms)
  BY ParamsOf
<1>3. /\ prog.call \in Calls /\ prog.call \in Results /\ prog.call \in Answered
      /\ prog.arg \in Values
      /\ prog.call \notin {"nx_bt_send_pin", "nx_bt_accept_connection", "nx_bt_stream_open",
                           "nx_bt_begin_inquiry"}
  BY ReadIs
<1>4. Nothing(uart)
  BY <1>1, <1>2, <1>3 DEF Queue
<1>5. Told(bt_state, prog) /\ bt_state.args = <<arg, arg>> /\ ms = <<>>
  BY ReadIs
<1>6. \/ MovedWith(prog, prog', "read", <<arg>>)
      \/ MovedWith(prog, prog', "return", <<arg, arg>>)
  OBVIOUS
<1>7. /\ PType(prog') /\ prog'.call = prog.call /\ prog'.arg = arg
      /\ \/ prog'.at = "read" /\ prog'.got = <<arg>>
         \/ prog'.at = "return" /\ prog'.got = <<arg, arg>>
  <2>1. /\ "read" \in AnyPlace /\ "read" \in Places(prog.call)
        /\ "return" \in AnyPlace /\ "return" \in Places(prog.call)
    BY <1>3, PlacesOf DEF AnyPlace
  <2>2. <<arg>> \in AnyGot /\ <<arg, arg>> \in AnyGot
    <3> DEFINE S == Devices \cup Values \cup {None, "failed"}
    <3>1. arg \in S
      BY <1>3
    <3> HIDE DEF S, arg
    <3>2. <<arg>> \in Seq(S) /\ <<arg, arg>> \in Seq(S)
      BY <3>1
    <3> QED
      BY <3>2 DEF AnyGot, S
  <2>3. CASE MovedWith(prog, prog', "read", <<arg>>)
    BY <1>2, <2>1, <2>2, <2>3, GoesWith
  <2>4. CASE MovedWith(prog, prog', "return", <<arg, arg>>)
    BY <1>2, <2>1, <2>2, <2>4, GoesWith
  <2> QED
    BY <1>6, <2>3, <2>4
<1>8. Deaf(bt_state, prog') <=> Deaf(bt_state, prog)
  BY <1>1, <1>7 DEF Deaf
<1>9. Modes(bt_state, prog', line, bc, owed)
  BY <1>1, <1>2, <1>3, <1>7 DEF Modes
<1>10. Queue(uart, prog', bc)
  BY <1>1, <1>2, <1>3, <1>4, <1>7 DEF Queue
<1>11. Answers(uart, bt_state, prog', bc, ms)
  <2>1. \A i \in 1..Len(ms) : FALSE
    BY <1>5, LenNone
  <2> QED
    BY <1>3, <1>4, <1>5, <1>7, <2>1 DEF Answers, Told, Nothing
<1>12. Found(bt_state, prog', owed)
  BY <1>1, <1>2, <1>3, <1>7 DEF Found, Listings
<1>13. Requests(uart, bt_state, prog', bc, owed, ms)
  BY <1>1, <1>2, <1>3, <1>7 DEF Requests
<1> QED
  BY <1>1, <1>7, <1>8, <1>9, <1>10, <1>11, <1>12, <1>13, OnlyProg

\* The handle is the caller's.
LEMMA CompareKeeps ==
    ASSUME BtInv, Compare
    PROVE  BtInv'
<1>1. /\ prog.at = "compare" /\ UNCHANGED <<uart, bt_state, line, bc, owed>>
      /\ prog' = IF bt_state.args[2] # prog.arg THEN [prog EXCEPT !.at = "wait"]
                 ELSE [prog EXCEPT !.at = "read", !.got = <<bt_state.args[2]>>]
  BY DEF Compare, At
<1>2. bt_state.args[2] = prog.arg
  BY <1>1, ReadIs
<1>3. MovedWith(prog, prog', "read", <<prog.arg>>)
  BY <1>1, <1>2 DEF MovedWith
<1> QED
  BY <1>1, <1>3, ReadingKeeps

\* Each byte of args is the one that was sent with the command.
LEMMA ReadKeeps ==
    ASSUME BtInv, Read
    PROVE  BtInv'
<1> DEFINE k == IF prog.call \in Matched THEN 1 ELSE Len(prog.got) + 1
           got == Append(prog.got, bt_state.args[k])
<1>1. /\ prog.at = "read" /\ UNCHANGED <<uart, bt_state, line, bc, owed>>
      /\ prog' = [prog EXCEPT !.got = got, !.at = IF prog.got = <<>> THEN "read" ELSE "return"]
  BY DEF Read, At
<1>2. /\ bt_state.args = <<prog.arg, prog.arg>>
      /\ prog.got \in {<<>>, <<prog.arg>>}
  BY <1>1, ReadIs
<1>3. CASE prog.got = <<>>
  <2>1. k = 1
    BY <1>3, LenNone
  <2>2. bt_state.args[k] = prog.arg
    BY <1>2, <2>1
  <2>3. got = <<prog.arg>>
    BY <1>3, <2>2, ShortSeqs
  <2>4. MovedWith(prog, prog', "read", <<prog.arg>>)
    BY <1>1, <1>3, <2>3 DEF MovedWith
  <2> QED
    BY <1>1, <2>4, ReadingKeeps
<1>4. CASE prog.got = <<prog.arg>>
  <2>1. Len(prog.got) = 1 /\ prog.got # <<>>
    BY <1>4, ShortSeqs
  <2>2. k \in {1, 2}
    BY <2>1
  <2>3. bt_state.args[k] = prog.arg
    BY <1>2, <2>2
  <2>4. got = <<prog.arg, prog.arg>>
    BY <1>4, <2>3, ShortSeqs
  <2>5. MovedWith(prog, prog', "return", <<prog.arg, prog.arg>>)
    BY <1>1, <2>1, <2>4 DEF MovedWith
  <2> QED
    BY <1>1, <2>5, ReadingKeeps
<1> QED
  BY <1>2, <1>3, <1>4

LEMMA DrainKeeps ==
    ASSUME BtInv, Drain
    PROVE  BtInv'
<1> DEFINE ms == owed.messages
           at == IF prog.call = "nx_bt_stream_open" THEN "mute" ELSE "return"
<1>1. /\ prog.at = "drain" /\ uart.tcr = NoPacket /\ prog' = [prog EXCEPT !.at = at]
      /\ UNCHANGED <<uart, bt_state, line, bc, owed>>
  BY DEF Drain, At, Go, IsWriting
<1>2. /\ PType(prog) /\ Modes(bt_state, prog, line, bc, owed) /\ Queue(uart, prog, bc)
      /\ Answers(uart, bt_state, prog, bc, ms) /\ Found(bt_state, prog, owed)
      /\ Requests(uart, bt_state, prog, bc, owed, ms)
  BY ParamsOf
<1>3. /\ prog.call \in Calls /\ prog.call \in {"nx_bt_accept_connection", "nx_bt_stream_open"}
      /\ prog.call \notin Answered
  <2>1. prog.call # "none"
    BY <1>1, <1>2, InACall, NoCallPlaces
  <2> QED
    BY <1>1, <1>2, <2>1, InACall, PlacesOf, AnsweredAre
<1>4. Nothing(uart)
  BY <1>1, <1>2 DEF Queue, Nothing
<1>5. /\ PType(prog') /\ prog'.at = at /\ prog'.call = prog.call /\ prog'.arg = prog.arg
      /\ prog'.got = prog.got
  <2>1. at \in AnyPlace /\ at \in Places(prog.call)
    BY <1>3, PlacesOf DEF AnyPlace
  <2>2. Moved(prog, prog', at)
    BY <1>1 DEF Moved
  <2>3. at \notin {"idle", "write", "wait", "check", "compare"}
    OBVIOUS
  <2> HIDE DEF at
  <2> QED
    BY <1>2, <2>1, <2>2, <2>3, Goes
<1>6. Deaf(bt_state, prog') <=> Deaf(bt_state, prog)
  BY <1>1, <1>2, <1>5 DEF Deaf, Modes
<1>7. Modes(bt_state, prog', line, bc, owed)
  BY <1>1, <1>2, <1>3, <1>5 DEF Modes
<1>8. Queue(uart, prog', bc)
  BY <1>1, <1>2, <1>3, <1>4, <1>5 DEF Queue
<1>9. Answers(uart, bt_state, prog', bc, ms)
  BY <1>1, <1>2, <1>3, <1>5, CallsHave DEF Answers, Own
<1>10. Found(bt_state, prog', owed)
  BY <1>1, <1>2, <1>3, <1>5 DEF Found, Listings
<1>11. Requests(uart, bt_state, prog', bc, owed, ms)
  BY <1>1, <1>2, <1>3, <1>5 DEF Requests
<1> QED
  BY <1>1, <1>5, <1>6, <1>7, <1>8, <1>9, <1>10, <1>11, OnlyProg

\* A step in no call, before which and after which the program is in none.
LEMMA NotCalling ==
    ASSUME BtInv, PType(prog'), prog.call = "none", prog'.call = "none",
           prog.at \in {"idle", "copy"}, prog'.at \in {"copy", "copied"},
           bt_state.state = "STREAMING" => prog.at # "idle"
    PROVE  /\ Deaf(bt_state, prog') <=> Deaf(bt_state, prog)
           /\ Modes(bt_state, prog', line, bc, owed)
           /\ Queue(uart, prog', bc)
           /\ Answers(uart, bt_state, prog', bc, owed.messages)
           /\ Requests(uart, bt_state, prog', bc, owed, owed.messages)
<1>1. /\ Modes(bt_state, prog, line, bc, owed) /\ Queue(uart, prog, bc)
      /\ Answers(uart, bt_state, prog, bc, owed.messages)
      /\ Requests(uart, bt_state, prog, bc, owed, owed.messages)
  BY ParamsOf
<1>2. "none" \notin Answered /\ Results \subseteq Answered
  BY CallsHave
<1>3. bt_state.state # "STREAMING"
  BY <1>1 DEF Modes
<1>4. Deaf(bt_state, prog') <=> Deaf(bt_state, prog)
  BY <1>3 DEF Deaf
<1>5. Modes(bt_state, prog', line, bc, owed)
  BY <1>1, <1>3 DEF Modes
<1>6. Queue(uart, prog', bc)
  BY <1>1, <1>2 DEF Queue
<1>7. Answers(uart, bt_state, prog', bc, owed.messages)
  BY <1>1, <1>2 DEF Answers, Own
<1>8. Requests(uart, bt_state, prog', bc, owed, owed.messages)
  BY <1>1 DEF Requests
<1> QED
  BY <1>4, <1>5, <1>6, <1>7, <1>8

LEMMA GetDeviceKeeps ==
    ASSUME BtInv, GetDevice
    PROVE  BtInv'
<1>1. /\ prog.at = "idle" /\ HasDevice /\ Entered(prog, prog', "copy", "none", None)
      /\ UNCHANGED <<uart, bt_state, line, bc, owed>>
  <2>1. [Idle EXCEPT !.at = "copy"]
            = [prog EXCEPT !.at = "copy", !.call = "none", !.arg = None, !.got = <<>>]
    BY ParamsOf DEF Idle, PType
  <2> QED
    BY <2>1 DEF GetDevice, At, Entered
<1>2. PType(prog) /\ Found(bt_state, prog, owed)
  BY ParamsOf
<1>3. prog.call = "none"
  BY <1>1, <1>2, InACall, PlacesOf
<1>4. PType(prog') /\ prog'.at = "copy" /\ prog'.call = "none" /\ prog'.got = <<>>
  <2>1. "copy" \in AnyPlace /\ "copy" \in Places("none")
    BY NoCallPlaces DEF AnyPlace
  <2> QED
    BY <1>1, <1>2, <2>1, Enters
<1>5. bt_state.state # "STREAMING"
  BY <1>1 DEF HasDevice
<1>6. Found(bt_state, prog', owed)
  BY <1>1, <1>2, <1>4 DEF Found, HasDevice, Listing, Listings
<1> QED
  BY <1>1, <1>3, <1>4, <1>5, <1>6, NotCalling, OnlyProg

LEMMA CopyDeviceKeeps ==
    ASSUME BtInv, CopyDevice
    PROVE  BtInv'
<1> DEFINE dev == bt_state.remote_device
<1>1. /\ prog.at = "copy" /\ UNCHANGED <<uart, bt_state, line, bc, owed>>
  BY DEF CopyDevice, At
<1>2. PType(prog) /\ Found(bt_state, prog, owed) /\ dev \in Devices \cup {None}
  BY ParamsOf DEF BType
<1>3. prog.call = "none"
  BY <1>1, <1>2, InACall, PlacesOf
<1>4. owed.device = dev /\ prog.got \in {<<>>, <<dev>>}
  BY <1>1, <1>2 DEF Found, Fresh
<1>5. \/ MovedWith(prog, prog', "copy", <<dev>>)
      \/ MovedWith(prog, prog', "copied", <<dev, dev>>)
  <2>1. CASE prog.got = <<>>
    <3>1. Len(prog.got) # 1 /\ Append(prog.got, dev) = <<dev>>
      BY <2>1
    <3>2. prog' = [prog EXCEPT !.got = <<dev>>, !.at = "copy"]
      BY <3>1 DEF CopyDevice
    <3> QED
      BY <1>2, <3>2 DEF MovedWith, PType
  <2>2. CASE prog.got = <<dev>>
    <3>1. Len(prog.got) = 1 /\ Append(prog.got, dev) = <<dev, dev>>
      <4> HIDE DEF dev
      <4> QED
        BY <2>2, ShortSeqs
    <3>2. prog' = [prog EXCEPT !.got = <<dev, dev>>, !.at = "copied"]
      BY <3>1 DEF CopyDevice
    <3> QED
      BY <1>2, <3>2 DEF MovedWith, PType
  <2> QED
    BY <1>4, <2>1, <2>2
<1>6. /\ PType(prog') /\ prog'.call = "none"
      /\ \/ prog'.at = "copy" /\ prog'.got = <<dev>>
         \/ prog'.at = "copied" /\ prog'.got = <<dev, dev>>
  <2>1. /\ "copy" \in AnyPlace /\ "copy" \in Places(prog.call)
        /\ "copied" \in AnyPlace /\ "copied" \in Places(prog.call)
    BY <1>3, NoCallPlaces DEF AnyPlace
  <2>2. <<dev>> \in AnyGot /\ <<dev, dev>> \in AnyGot
    BY <1>2 DEF AnyGot
  <2>3. PType(prog) /\ prog.call = "none"
    BY <1>2, <1>3
  <2>4. \/ MovedWith(prog, prog', "copy", <<dev>>)
        \/ MovedWith(prog, prog', "copied", <<dev, dev>>)
    BY <1>5
  <2> HIDE DEF dev
  <2>5. ASSUME MovedWith(prog, prog', "copy", <<dev>>)
        PROVE  PType(prog') /\ prog'.call = "none" /\ prog'.at = "copy" /\ prog'.got = <<dev>>
    BY <2>1, <2>2, <2>3, <2>5, GoesWith
  <2>6. ASSUME MovedWith(prog, prog', "copied", <<dev, dev>>)
        PROVE  /\ PType(prog') /\ prog'.call = "none" /\ prog'.at = "copied"
               /\ prog'.got = <<dev, dev>>
    BY <2>1, <2>2, <2>3, <2>6, GoesWith
  <2> QED
    BY <2>4, <2>5, <2>6
<1>7. Found(bt_state, prog', owed)
  BY <1>1, <1>2, <1>3, <1>4, <1>6 DEF Found, Listings, Fresh
<1> QED
  BY <1>1, <1>3, <1>6, <1>7, NotCalling, OnlyProg

---------------------------------------------------------------------------
(* Steps of the program and the driver *)

\* The parts make the invariant.
LEMMA Together ==
    ASSUME UType(uart'), BType(bt_state'), PType(prog'), CType(bc'), OType(owed'),
           line' \in Seq(Byte),
           Reception(uart', bt_state', prog', line', owed'),
           Modes(bt_state', prog', line', bc', owed'),
           Queue(uart', prog', bc'),
           Answers(uart', bt_state', prog', bc', owed'.messages),
           Found(bt_state', prog', owed'),
           Requests(uart', bt_state', prog', bc', owed', owed'.messages),
           Faults(uart', bt_state', bc', owed'.messages)
    PROVE  BtInv'
<1>1. Typed'
  BY DEF Typed
<1>2. InReception' /\ InModes' /\ InQueue' /\ InAnswers' /\ InFound' /\ InRequests' /\ InFaults'
  BY DEF InReception, InModes, InQueue, InAnswers, InFound, InRequests, InFaults
<1> QED
  BY <1>1, <1>2 DEF BtInv

\* Steps that change neither the UART nor the line.
LEMMA OnlyState ==
    ASSUME BtInv, UNCHANGED <<uart, line>>,
           BType(bt_state'), PType(prog'), CType(bc'), OType(owed'),
           Deaf(bt_state', prog') <=> Deaf(bt_state, prog),
           owed'.messages = owed.messages, owed'.framed = owed.framed, owed'.data = owed.data,
           bt_state'.nmb_checksum_errors = bt_state.nmb_checksum_errors,
           bc'.faults = bc.faults,
           Modes(bt_state', prog', line, bc', owed'),
           Queue(uart, prog', bc'),
           Answers(uart, bt_state', prog', bc', owed.messages),
           Found(bt_state', prog', owed'),
           Requests(uart, bt_state', prog', bc', owed', owed.messages)
    PROVE  BtInv'
<1>1. /\ UType(uart) /\ line \in Seq(Byte)
      /\ Reception(uart, bt_state, prog, line, owed)
      /\ Faults(uart, bt_state, bc, owed.messages)
  BY ParamsOf
<1>2. Reception(uart', bt_state', prog', line', owed')
  BY <1>1 DEF Reception
<1>3. Faults(uart', bt_state', bc', owed'.messages)
  BY <1>1 DEF Faults
<1> QED
  BY <1>1, <1>2, <1>3, Together

LEMMA ResetIdKeeps ==
    ASSUME BtInv, ResetId
    PROVE  BtInv'
<1> DEFINE ms == owed.messages
<1>1. /\ prog.at = "reset_id" /\ bt_state' = [bt_state EXCEPT !.last_checked_id = 0]
      /\ Moved(prog, prog', "set_state") /\ UNCHANGED <<uart, line, bc, owed>>
  BY DEF ResetId, At, Go, Moved
<1>2. /\ BType(bt_state) /\ PType(prog) /\ CType(bc) /\ OType(owed)
      /\ Modes(bt_state, prog, line, bc, owed) /\ Queue(uart, prog, bc)
      /\ Answers(uart, bt_state, prog, bc, ms) /\ Found(bt_state, prog, owed)
      /\ Requests(uart, bt_state, prog, bc, owed, ms)
  BY ParamsOf
<1>3. prog.call \in Calls /\ prog.call = "nx_bt_begin_inquiry" /\ prog.call \in Answered
  BY <1>1, <1>2, InACall, NoCallPlaces, PlacesOf, AnsweredAre
<1>4. /\ PType(prog') /\ prog'.at = "set_state" /\ prog'.call = prog.call
      /\ prog'.arg = prog.arg
  <2>1. "set_state" \in AnyPlace /\ "set_state" \in Places(prog.call)
    BY <1>3, PlacesOf DEF AnyPlace, Listings
  <2> QED
    BY <1>1, <1>2, <2>1, Goes
<1>5. /\ BType(bt_state') /\ bt_state'.last_checked_id = 0
      /\ bt_state'.state = bt_state.state /\ bt_state'.remote_id = bt_state.remote_id
      /\ bt_state'.remote_device = bt_state.remote_device
      /\ bt_state'.dev_waiting_for_pin = bt_state.dev_waiting_for_pin
      /\ bt_state'.dev_waiting_for_connection = bt_state.dev_waiting_for_connection
      /\ bt_state'.new_handle = bt_state.new_handle
      /\ bt_state'.last_msg = bt_state.last_msg /\ bt_state'.args = bt_state.args
      /\ bt_state'.nmb_checksum_errors = bt_state.nmb_checksum_errors
  BY <1>1, <1>2 DEF BType
<1>6. bt_state.state = "WAITING" /\ bt_state.remote_id = 0 /\ Nothing(uart)
  BY <1>1, <1>2, <1>3 DEF Found, Listings, Queue
<1>7. Deaf(bt_state', prog') <=> Deaf(bt_state, prog)
  BY <1>1, <1>4, <1>5 DEF Deaf
<1>8. Modes(bt_state', prog', line, bc, owed)
  BY <1>2, <1>3, <1>4, <1>5, <1>6 DEF Modes
<1>9. Queue(uart, prog', bc)
  BY <1>2, <1>3, <1>4, <1>6 DEF Queue
<1>10. Answers(uart, bt_state', prog', bc, ms)
  BY <1>1, <1>2, <1>3, <1>4, <1>6 DEF Answers, Nothing, Results
<1>11. Found(bt_state', prog', owed)
  BY <1>3, <1>4, <1>5, <1>6 DEF Found, Listing
<1>12. Requests(uart, bt_state', prog', bc, owed, ms)
  BY <1>1, <1>2, <1>3, <1>4, <1>5 DEF Requests, Waits
<1> QED
  BY <1>1, <1>2, <1>4, <1>5, <1>7, <1>8, <1>9, <1>10, <1>11, <1>12, OnlyState

LEMMA SetStateKeeps ==
    ASSUME BtInv, SetState
    PROVE  BtInv'
<1> DEFINE ms == owed.messages
           state == IF prog.call = "nx_bt_begin_inquiry" THEN "INQUIRING"
                    ELSE "KNOWN_DEVICES_DUMPING"
<1>1. /\ prog.at = "set_state" /\ bt_state' = [bt_state EXCEPT !.state = state]
      /\ Moved(prog, prog', "return") /\ UNCHANGED <<uart, line, bc, owed>>
  BY DEF SetState, At, Go, Moved
<1>2. /\ BType(bt_state) /\ PType(prog) /\ CType(bc) /\ OType(owed)
      /\ Modes(bt_state, prog, line, bc, owed) /\ Queue(uart, prog, bc)
      /\ Answers(uart, bt_state, prog, bc, ms) /\ Found(bt_state, prog, owed)
      /\ Requests(uart, bt_state, prog, bc, owed, ms)
  BY ParamsOf
<1>3. prog.call \in Calls /\ prog.call \in Listings
  BY <1>1, <1>2, InACall, NoCallPlaces, PlacesOf
<1>4. /\ PType(prog') /\ prog'.at = "return" /\ prog'.call = prog.call
      /\ prog'.arg = prog.arg
  <2>1. "return" \in AnyPlace /\ "return" \in Places(prog.call)
    BY <1>3, PlacesOf DEF AnyPlace
  <2> QED
    BY <1>1, <1>2, <2>1, Goes
<1>5. /\ BType(bt_state') /\ bt_state'.state \in {"INQUIRING", "KNOWN_DEVICES_DUMPING"}
      /\ bt_state'.last_checked_id = bt_state.last_checked_id
      /\ bt_state'.remote_id = bt_state.remote_id
      /\ bt_state'.dev_waiting_for_pin = bt_state.dev_waiting_for_pin
      /\ bt_state'.dev_waiting_for_connection = bt_state.dev_waiting_for_connection
      /\ bt_state'.new_handle = bt_state.new_handle
      /\ bt_state'.last_msg = bt_state.last_msg /\ bt_state'.args = bt_state.args
      /\ bt_state'.nmb_checksum_errors = bt_state.nmb_checksum_errors
  BY <1>1, <1>2 DEF BType
<1>6. /\ bt_state.state = "WAITING" /\ bt_state.last_checked_id = bt_state.remote_id
      /\ prog.call \notin Results
      /\ prog.call \notin {"nx_bt_send_pin", "nx_bt_accept_connection", "nx_bt_stream_open"}
  BY <1>1, <1>2, <1>3 DEF Found, Listings, Results
<1>7. Deaf(bt_state', prog') <=> Deaf(bt_state, prog)
  BY <1>1, <1>4, <1>5, <1>6 DEF Deaf
<1>8. Modes(bt_state', prog', line, bc, owed)
  BY <1>1, <1>2, <1>4, <1>5, <1>6 DEF Modes
<1>9. Queue(uart, prog', bc)
  BY <1>1, <1>2, <1>4, <1>6 DEF Queue
<1>10. Answers(uart, bt_state', prog', bc, ms)
  BY <1>1, <1>2, <1>4, <1>5, <1>6 DEF Answers, Told
<1>11. Found(bt_state', prog', owed)
  BY <1>4, <1>5, <1>6 DEF Found
<1>12. Requests(uart, bt_state', prog', bc, owed, ms)
  <2>1. SameWaits(bt_state, bt_state') /\ SameOwed(owed, owed)
    BY <1>5 DEF SameWaits, SameOwed
  <2> QED
    BY <1>2, <1>4, <1>6, <2>1, RequestsSame
<1> QED
  BY <1>1, <1>2, <1>4, <1>5, <1>7, <1>8, <1>9, <1>10, <1>11, <1>12, OnlyState

\* The request that is cleared is the one that was answered.
LEMMA ClearKeeps ==
    ASSUME BtInv, Clear
    PROVE  BtInv'
<1> DEFINE ms == owed.messages
           b == bt_state
           pin == prog.call = "nx_bt_send_pin"
           at == IF pin THEN "return" ELSE "drain"
<1>1. /\ prog.at = "clear"
      /\ bt_state' = IF pin THEN [b EXCEPT !.dev_waiting_for_pin = None]
                     ELSE [b EXCEPT !.dev_waiting_for_connection = None]
      /\ Moved(prog, prog', at) /\ UNCHANGED <<uart, line, bc, owed>>
  BY DEF Clear, At, Go, Moved
<1>2. /\ BType(b) /\ PType(prog) /\ CType(bc) /\ OType(owed)
      /\ Modes(b, prog, line, bc, owed) /\ Queue(uart, prog, bc)
      /\ Answers(uart, b, prog, bc, ms) /\ Found(b, prog, owed)
      /\ Requests(uart, b, prog, bc, owed, ms)
  BY ParamsOf
<1>3. prog.call \in Calls /\ prog.call \in {"nx_bt_send_pin", "nx_bt_accept_connection"}
  BY <1>1, <1>2, InACall, NoCallPlaces, PlacesOf
<1>4. /\ PType(prog') /\ prog'.at = at /\ prog'.call = prog.call /\ prog'.arg = prog.arg
  <2>1. at \in AnyPlace /\ at \in Places(prog.call) /\ at \notin {"idle", "write", "wait", "check", "compare"}
    BY <1>3, PlacesOf DEF AnyPlace
  <2> HIDE DEF at
  <2> QED
    BY <1>1, <1>2, <2>1, Goes
<1>5. /\ BType(bt_state') /\ bt_state'.state = b.state
      /\ bt_state'.last_checked_id = b.last_checked_id
      /\ bt_state'.remote_id = b.remote_id /\ bt_state'.remote_device = b.remote_device
      /\ bt_state'.dev_waiting_for_pin = IF pin THEN None ELSE b.dev_waiting_for_pin
      /\ bt_state'.dev_waiting_for_connection
             = IF pin THEN b.dev_waiting_for_connection ELSE None
      /\ bt_state'.new_handle = b.new_handle
      /\ bt_state'.last_msg = b.last_msg /\ bt_state'.args = b.args
      /\ bt_state'.nmb_checksum_errors = b.nmb_checksum_errors
  BY <1>1, <1>2 DEF BType
<1>6. prog.call \notin Results /\ prog.call \notin Listings /\ prog.call # "nx_bt_stream_open"
  BY <1>3 DEF Results, Listings
<1>7. Deaf(bt_state', prog') <=> Deaf(b, prog)
  BY <1>1, <1>4, <1>5, <1>2 DEF Deaf, Modes
<1>8. Modes(bt_state', prog', line, bc, owed)
  BY <1>1, <1>2, <1>4, <1>5, <1>6 DEF Modes
<1>9. Queue(uart, prog', bc)
  <2>1. CASE pin
    <3>1. Nothing(uart) /\ prog.call \in Answered
      BY <1>1, <1>2, <2>1, AnsweredAre DEF Queue
    <3> QED
      BY <1>1, <1>2, <1>4, <1>6, <2>1, <3>1 DEF Queue
  <2>2. CASE ~pin
    <3>1. prog.call = "nx_bt_accept_connection"
      BY <1>3, <2>2
    <3>2. Nothing(uart) \/ Pending(uart, prog)
      BY <1>1, <1>2, <3>1 DEF Queue
    <3>3. Nothing(uart) \/ Pending(uart, prog')
      BY <1>4, <3>2 DEF Pending
    <3> QED
      BY <1>1, <1>2, <1>4, <2>2, <3>1, <3>3, AnsweredAre DEF Queue
  <2> QED
    BY <2>1, <2>2
<1>10. Answers(uart, bt_state', prog', bc, ms)
  BY <1>1, <1>2, <1>4, <1>5, <1>6 DEF Answers, Told
<1>11. Found(bt_state', prog', owed)
  BY <1>1, <1>2, <1>4, <1>5, <1>6 DEF Found, Listing, Fresh
<1>12. Requests(uart, bt_state', prog', bc, owed, ms)
  <2>1. CASE pin
    BY <1>1, <1>2, <1>4, <1>5, <2>1 DEF Requests, Waits, Asked
  <2>2. CASE ~pin
    BY <1>1, <1>2, <1>3, <1>4, <1>5, <2>2 DEF Requests, Waits, Asked
  <2> QED
    BY <2>1, <2>2
<1> QED
  BY <1>1, <1>2, <1>4, <1>5, <1>7, <1>8, <1>9, <1>10, <1>11, <1>12, OnlyState

\* The program is done with what it did.
LEMMA Idles ==
    ASSUME PType(prog), prog' = Idle
    PROVE  /\ PType(prog') /\ prog'.at = "idle" /\ prog'.call = "none" /\ prog'.got = <<>>
           /\ prog'.calls = prog.calls
<1>1. Entered(prog, prog', "idle", "none", None)
  BY DEF Idle, Entered, PType
<1>2. "idle" \in AnyPlace /\ "idle" \in Places("none")
  BY NoCallPlaces DEF AnyPlace
<1> QED
  BY <1>1, <1>2, Enters

LEMMA CheckIdKeeps ==
    ASSUME BtInv, CheckId
    PROVE  BtInv'
<1> DEFINE ms == owed.messages
           b == bt_state
<1>1. /\ prog.at = "copied" /\ bt_state' = [b EXCEPT !.last_checked_id = b.remote_id]
      /\ owed' = [owed EXCEPT !.device = None]
      /\ prog' = Idle /\ UNCHANGED <<uart, line, bc>>
  BY DEF CheckId, At
<1>2. /\ BType(b) /\ PType(prog) /\ CType(bc) /\ OType(owed)
      /\ Modes(b, prog, line, bc, owed) /\ Queue(uart, prog, bc)
      /\ Answers(uart, b, prog, bc, ms) /\ Found(b, prog, owed)
      /\ Requests(uart, b, prog, bc, owed, ms)
  BY ParamsOf
<1>3. prog.call = "none" /\ "none" \notin Answered /\ Results \subseteq Answered
  BY <1>1, <1>2, InACall, PlacesOf, CallsHave
<1>4. PType(prog') /\ prog'.at = "idle" /\ prog'.call = "none"
  BY <1>1, <1>2, Idles
<1>5. /\ BType(bt_state') /\ bt_state'.state = b.state
      /\ bt_state'.last_checked_id = b.remote_id /\ bt_state'.remote_id = b.remote_id
      /\ bt_state'.dev_waiting_for_pin = b.dev_waiting_for_pin
      /\ bt_state'.dev_waiting_for_connection = b.dev_waiting_for_connection
      /\ bt_state'.new_handle = b.new_handle
      /\ bt_state'.last_msg = b.last_msg /\ bt_state'.args = b.args
      /\ bt_state'.nmb_checksum_errors = b.nmb_checksum_errors
  BY <1>1, <1>2 DEF BType
<1>6. /\ OType(owed') /\ owed'.messages = ms /\ owed'.framed = owed.framed
      /\ owed'.data = owed.data /\ owed'.pin = owed.pin
      /\ owed'.connection = owed.connection /\ owed'.handle = owed.handle
  BY <1>1, <1>2 DEF OType
<1>7. b.state # "STREAMING"
  BY <1>1, <1>2 DEF Modes
<1>8. Deaf(bt_state', prog') <=> Deaf(b, prog)
  BY <1>1, <1>4, <1>5, <1>7 DEF Deaf
<1>9. Modes(bt_state', prog', line, bc, owed')
  BY <1>1, <1>2, <1>3, <1>4, <1>5, <1>6, <1>7 DEF Modes
<1>10. Queue(uart, prog', bc)
  BY <1>1, <1>2, <1>3, <1>4 DEF Queue
<1>11. Answers(uart, bt_state', prog', bc, ms)
  BY <1>1, <1>2, <1>3, <1>4, <1>5 DEF Answers, Own
<1>12. Found(bt_state', prog', owed')
  BY <1>4, <1>5 DEF Found, Listings
<1>13. Requests(uart, bt_state', prog', bc, owed', ms)
  <2>1. SameWaits(b, bt_state') /\ SameOwed(owed, owed')
    BY <1>5, <1>6 DEF SameWaits, SameOwed
  <2> QED
    BY <1>2, <1>3, <1>4, <2>1, RequestsSame
<1> QED
  BY <1>1, <1>2, <1>4, <1>5, <1>6, <1>8, <1>9, <1>10, <1>11, <1>12, <1>13, OnlyState

LEMMA ReadHandleKeeps ==
    ASSUME BtInv, ReadHandle
    PROVE  BtInv'
<1> DEFINE ms == owed.messages
           b == bt_state
<1>1. /\ prog.at = "idle" /\ b.new_handle # None
      /\ prog' = [Idle EXCEPT !.at = "established", !.arg = b.new_handle]
      /\ owed' = [owed EXCEPT !.handle = None]
      /\ UNCHANGED <<uart, bt_state, line, bc>>
  BY DEF ReadHandle, At
<1>2. /\ BType(b) /\ PType(prog) /\ CType(bc) /\ OType(owed)
      /\ Modes(b, prog, line, bc, owed) /\ Queue(uart, prog, bc)
      /\ Answers(uart, b, prog, bc, ms) /\ Found(b, prog, owed)
      /\ Requests(uart, b, prog, bc, owed, ms)
  BY ParamsOf
<1>3. prog.call = "none" /\ "none" \notin Answered /\ Results \subseteq Answered
  BY <1>1, <1>2, InACall, PlacesOf, CallsHave
<1>4. PType(prog') /\ prog'.at = "established" /\ prog'.call = "none"
  <2>1. Entered(prog, prog', "established", "none", b.new_handle)
    BY <1>1, <1>2 DEF Idle, Entered, PType
  <2>2. "established" \in AnyPlace /\ "established" \in Places("none")
        /\ b.new_handle \in Values \cup {None}
    BY <1>2, NoCallPlaces DEF AnyPlace, BType
  <2> QED
    BY <1>2, <2>1, <2>2, Enters
<1>5. /\ OType(owed') /\ owed'.messages = ms /\ owed'.framed = owed.framed
      /\ owed'.data = owed.data /\ owed'.pin = owed.pin /\ owed'.device = owed.device
      /\ owed'.connection = owed.connection /\ owed'.handle = None
  BY <1>1, <1>2 DEF OType
<1>6. b.state # "STREAMING"
  BY <1>1, <1>2 DEF Modes
<1>7. Deaf(b, prog') <=> Deaf(b, prog)
  BY <1>1, <1>4, <1>6 DEF Deaf
<1>8. Modes(b, prog', line, bc, owed')
  BY <1>1, <1>2, <1>3, <1>4, <1>5, <1>6 DEF Modes
<1>9. Queue(uart, prog', bc)
  BY <1>1, <1>2, <1>3, <1>4 DEF Queue
<1>10. Answers(uart, b, prog', bc, ms)
  BY <1>1, <1>2, <1>3, <1>4 DEF Answers, Own
<1>11. Found(b, prog', owed')
  BY <1>1, <1>2, <1>3, <1>4, <1>5 DEF Found, Listings, Fresh
<1>12. Requests(uart, b, prog', bc, owed', ms)
  BY <1>1, <1>2, <1>3, <1>4, <1>5 DEF Requests, Waits
<1> QED
  BY <1>1, <1>2, <1>4, <1>5, <1>7, <1>8, <1>9, <1>10, <1>11, <1>12, OnlyState

LEMMA ResetHandleKeeps ==
    ASSUME BtInv, ResetHandle
    PROVE  BtInv'
<1> DEFINE ms == owed.messages
           b == bt_state
<1>1. /\ prog.at = "established" /\ bt_state' = [b EXCEPT !.new_handle = None]
      /\ prog' = Idle /\ UNCHANGED <<uart, line, bc, owed>>
  BY DEF ResetHandle, At
<1>2. /\ BType(b) /\ PType(prog) /\ CType(bc) /\ OType(owed)
      /\ Modes(b, prog, line, bc, owed) /\ Queue(uart, prog, bc)
      /\ Answers(uart, b, prog, bc, ms) /\ Found(b, prog, owed)
      /\ Requests(uart, b, prog, bc, owed, ms)
  BY ParamsOf
<1>3. prog.call = "none" /\ "none" \notin Answered /\ Results \subseteq Answered
  BY <1>1, <1>2, InACall, PlacesOf, CallsHave
<1>4. PType(prog') /\ prog'.at = "idle" /\ prog'.call = "none"
  BY <1>1, <1>2, Idles
<1>5. /\ BType(bt_state') /\ bt_state'.state = b.state
      /\ bt_state'.last_checked_id = b.last_checked_id /\ bt_state'.remote_id = b.remote_id
      /\ bt_state'.remote_device = b.remote_device
      /\ bt_state'.dev_waiting_for_pin = b.dev_waiting_for_pin
      /\ bt_state'.dev_waiting_for_connection = b.dev_waiting_for_connection
      /\ bt_state'.new_handle = None
      /\ bt_state'.last_msg = b.last_msg /\ bt_state'.args = b.args
      /\ bt_state'.nmb_checksum_errors = b.nmb_checksum_errors
  BY <1>1, <1>2 DEF BType
<1>6. b.state # "STREAMING"
  BY <1>1, <1>2 DEF Modes
<1>7. Deaf(bt_state', prog') <=> Deaf(b, prog)
  BY <1>1, <1>4, <1>5, <1>6 DEF Deaf
<1>8. Modes(bt_state', prog', line, bc, owed)
  BY <1>1, <1>2, <1>3, <1>4, <1>5, <1>6 DEF Modes
<1>9. Queue(uart, prog', bc)
  BY <1>1, <1>2, <1>3, <1>4 DEF Queue
<1>10. Answers(uart, bt_state', prog', bc, ms)
  BY <1>1, <1>2, <1>3, <1>4, <1>5 DEF Answers, Own
<1>11. Found(bt_state', prog', owed)
  BY <1>1, <1>2, <1>3, <1>4, <1>5 DEF Found, Listings, Fresh, Listing
<1>12. Requests(uart, bt_state', prog', bc, owed, ms)
  BY <1>1, <1>2, <1>3, <1>4, <1>5 DEF Requests, Waits, Asked
<1> QED
  BY <1>1, <1>2, <1>4, <1>5, <1>7, <1>8, <1>9, <1>10, <1>11, <1>12, OnlyState

\* What is sent when a call returns was not built in its frame.
LEMMA ReturnKeeps ==
    ASSUME BtInv, Return
    PROVE  BtInv'
<1> DEFINE ms == owed.messages
           b == bt_state
<1>1. /\ prog.at = "return"
      /\ uart' = [uart EXCEPT !.tcr = Gone(uart.tcr), !.tncr = Gone(uart.tncr)]
      /\ prog' = Idle /\ UNCHANGED <<bt_state, line, bc, owed>>
  BY DEF Return, At
<1>2. /\ UType(uart) /\ BType(b) /\ PType(prog) /\ CType(bc) /\ OType(owed)
      /\ Modes(b, prog, line, bc, owed) /\ Queue(uart, prog, bc)
      /\ Answers(uart, b, prog, bc, ms) /\ Found(b, prog, owed)
      /\ Requests(uart, b, prog, bc, owed, ms)
  BY ParamsOf
<1>3. /\ "none" \notin Answered /\ Results \subseteq Answered
  BY CallsHave
<1>4. PType(prog') /\ prog'.at = "idle" /\ prog'.call = "none"
  BY <1>1, <1>2, Idles
<1>5. AllLoose(uart)
  BY <1>1, <1>2 DEF Queue, AllLoose, Nothing
<1>6. UNCHANGED uart
  <2>1. ASSUME NEW q \in {uart.tcr, uart.tncr}
        PROVE  Gone(q) = q
    <3>1. q \in Packet /\ q.whole = TRUE /\ q.call \in Loose \cup {"none"}
      BY <1>2, <1>5 DEF Queue, AllLoose, UType, NoPacket
    <3>2. q.call \notin OnStack
      BY <3>1 DEF Loose, OnStack
    <3> QED
      BY <3>1, <3>2 DEF Gone, Packet
  <2> QED
    BY <1>1, <1>2, <2>1 DEF UType
<1>7. Deaf(b, prog') <=> Deaf(b, prog)
  BY <1>1, <1>4 DEF Deaf
<1>8. Modes(b, prog', line, bc, owed)
  BY <1>1, <1>2, <1>4 DEF Modes
<1>9. Queue(uart, prog', bc)
  BY <1>1, <1>2, <1>3, <1>4, <1>5 DEF Queue
<1>10. Answers(uart, b, prog', bc, ms)
  BY <1>1, <1>2, <1>3, <1>4 DEF Answers, Own
<1>11. Found(b, prog', owed)
  BY <1>1, <1>2, <1>4 DEF Found, Listings
<1>12. Requests(uart, b, prog', bc, owed, ms)
  BY <1>1, <1>2, <1>4 DEF Requests
<1> QED
  BY <1>1, <1>4, <1>6, <1>7, <1>8, <1>9, <1>10, <1>11, <1>12, OnlyProg

\* With the callback off and the handshake closed nothing is heard any more.
LEMMA MuteKeeps ==
    ASSUME BtInv, Mute
    PROVE  BtInv'
<1> DEFINE ms == owed.messages
           b == bt_state
<1>1. /\ prog.at = "mute" /\ uart' = SetCallback(uart, FALSE) /\ Moved(prog, prog', "raise")
      /\ UNCHANGED <<bt_state, line, bc, owed>>
  BY DEF Mute, At, Go, Moved
<1>2. /\ UType(uart) /\ BType(b) /\ PType(prog) /\ CType(bc) /\ OType(owed)
      /\ line \in Seq(Byte) /\ Reception(uart, b, prog, line, owed)
      /\ Modes(b, prog, line, bc, owed) /\ Queue(uart, prog, bc)
      /\ Answers(uart, b, prog, bc, ms) /\ Found(b, prog, owed)
      /\ Requests(uart, b, prog, bc, owed, ms) /\ Faults(uart, b, bc, ms)
  BY ParamsOf
<1>3. prog.call \in Calls /\ prog.call = "nx_bt_stream_open"
  BY <1>1, <1>2, InACall, NoCallPlaces, PlacesOf
<1>4. /\ PType(prog') /\ prog'.at = "raise" /\ prog'.call = prog.call /\ prog'.arg = prog.arg
  <2>1. "raise" \in AnyPlace /\ "raise" \in Places(prog.call)
    BY <1>3, PlacesOf DEF AnyPlace
  <2> QED
    BY <1>1, <1>2, <2>1, Goes
<1>5. /\ b.state = "WAITING" /\ line = <<>> /\ ms = <<>> /\ owed.data = <<>> /\ Nothing(uart)
      /\ owed.framed
  BY <1>1, <1>2, <1>3 DEF Modes, Queue, Reception
<1>6. uart.rhr = NoByte
  <2>1. Frame(uart, <<>>, <<>>)
    BY <1>1, <1>2, <1>5 DEF Reception, Deaf
  <2> QED
    BY <2>1, LenNone DEF Frame, Resting, Sized, Filling
<1>7. /\ UType(uart') /\ uart'.ier = {} /\ uart'.rhr = NoByte /\ uart'.rcr = 0
      /\ uart'.got = <<>> /\ uart'.brk = uart.brk
      /\ uart'.tcr = uart.tcr /\ uart'.tncr = uart.tncr
  <2>1. uart' = [uart EXCEPT !.callback = FALSE, !.rxten = FALSE, !.got = <<>>,
                             !.rcr = 0, !.ier = {}]
    BY <1>1 DEF SetCallback
  <2>2. <<>> \in Seq(Byte)
    OBVIOUS
  <2> QED
    BY <1>2, <1>6, <2>1, <2>2 DEF UType
<1>8. Reception(uart', b, prog', line, owed)
  <2>1. uart'.got \o line = owed.data
    BY <1>5, <1>7
  <2> QED
    BY <1>4, <1>5, <1>7, <2>1 DEF Reception, Deaf
<1>9. Modes(b, prog', line, bc, owed)
  BY <1>1, <1>2, <1>3, <1>4, <1>5 DEF Modes
<1>10. Queue(uart', prog', bc)
  <2>1. Nothing(uart')
    BY <1>5, <1>7 DEF Nothing
  <2>2. Queue(uart', prog', bc)
    <3>1. /\ uart'.tcr = NoPacket /\ uart'.tncr = NoPacket /\ NoPacket.framed
          /\ NoPacket.whole
      BY <2>1 DEF Nothing, NoPacket
    <3>2. prog'.at = "raise" /\ prog'.call = "nx_bt_stream_open" /\ ~bc.confused
      BY <1>2, <1>3, <1>4 DEF Queue
    <3> QED
      BY <2>1, <3>1, <3>2 DEF Queue
  <2> QED
    BY <2>2
<1>11. Answers(uart', b, prog', bc, ms)
  <2>1. prog.call \notin Answered /\ prog.call \notin Results
    BY <1>3, AnsweredAre DEF Results
  <2> QED
    BY <1>1, <1>2, <1>4, <1>7, <2>1 DEF Answers, Own
<1>12. Found(b, prog', owed)
  BY <1>1, <1>2, <1>3, <1>4 DEF Found, Listings
<1>13. Requests(uart', b, prog', bc, owed, ms)
  BY <1>1, <1>2, <1>3, <1>4 DEF Requests
<1>14. Faults(uart', b, bc, ms)
  BY <1>2, <1>7 DEF Faults
<1> QED
  BY <1>1, <1>2, <1>4, <1>7, <1>8, <1>9, <1>10, <1>11, <1>12, <1>13, <1>14, Together

LEMMA RaiseKeeps ==
    ASSUME BtInv, Raise
    PROVE  BtInv'
<1> DEFINE ms == owed.messages
           b == bt_state
<1>1. /\ prog.at = "raise" /\ bc' = [bc EXCEPT !.arm_cmd = TRUE]
      /\ bt_state' = [b EXCEPT !.state = "STREAMING"] /\ Moved(prog, prog', "return")
      /\ UNCHANGED <<uart, line, owed>>
  BY DEF Raise, At, Go, Moved
<1>2. /\ BType(b) /\ PType(prog) /\ CType(bc) /\ OType(owed)
      /\ Modes(b, prog, line, bc, owed) /\ Queue(uart, prog, bc)
      /\ Answers(uart, b, prog, bc, ms) /\ Found(b, prog, owed)
      /\ Requests(uart, b, prog, bc, owed, ms)
  BY ParamsOf
<1>3. prog.call \in Calls /\ prog.call = "nx_bt_stream_open"
  BY <1>1, <1>2, InACall, NoCallPlaces, PlacesOf
<1>4. /\ PType(prog') /\ prog'.at = "return" /\ prog'.call = prog.call /\ prog'.arg = prog.arg
  <2>1. "return" \in AnyPlace /\ "return" \in Places(prog.call)
    BY <1>3, PlacesOf DEF AnyPlace
  <2> QED
    BY <1>1, <1>2, <2>1, Goes
<1>5. /\ BType(bt_state') /\ bt_state'.state = "STREAMING"
      /\ bt_state'.last_checked_id = b.last_checked_id
      /\ bt_state'.remote_id = b.remote_id /\ bt_state'.remote_device = b.remote_device
      /\ bt_state'.dev_waiting_for_pin = b.dev_waiting_for_pin
      /\ bt_state'.dev_waiting_for_connection = b.dev_waiting_for_connection
      /\ bt_state'.new_handle = b.new_handle
      /\ bt_state'.last_msg = b.last_msg /\ bt_state'.args = b.args
      /\ bt_state'.nmb_checksum_errors = b.nmb_checksum_errors
  BY <1>1, <1>2 DEF BType
<1>6. /\ CType(bc') /\ bc'.arm_cmd = TRUE /\ bc'.peer = bc.peer /\ bc'.stream = bc.stream
      /\ bc'.faults = bc.faults /\ bc'.confused = bc.confused
  BY <1>1, <1>2 DEF CType
<1>7. Nothing(uart) /\ ms = <<>> /\ b.new_handle = None
  BY <1>1, <1>2, <1>3 DEF Modes, Queue
<1>8. Deaf(bt_state', prog') <=> Deaf(b, prog)
  BY <1>1, <1>4, <1>5 DEF Deaf
<1>9. Modes(bt_state', prog', line, bc', owed)
  BY <1>1, <1>2, <1>3, <1>4, <1>5, <1>6, <1>7 DEF Modes
<1>10. Queue(uart, prog', bc')
  <2>1. AllLoose(uart)
    BY <1>7 DEF AllLoose, Nothing
  <2> QED
    BY <1>2, <1>3, <1>4, <1>6, <1>7, <2>1 DEF Queue, Nothing
<1>11. Answers(uart, bt_state', prog', bc', ms)
  <2>1. prog.call \notin Answered /\ prog.call \notin Results
    BY <1>3, AnsweredAre DEF Results
  <2> QED
    BY <1>1, <1>2, <1>4, <2>1 DEF Answers, Own
<1>12. Found(bt_state', prog', owed)
  BY <1>3, <1>4, <1>5 DEF Found, Listing, Listings
<1>13. Requests(uart, bt_state', prog', bc', owed, ms)
  BY <1>1, <1>2, <1>3, <1>4, <1>5, <1>6 DEF Requests, Waits, Asked
<1> QED
  BY <1>1, <1>2, <1>4, <1>5, <1>6, <1>8, <1>9, <1>10, <1>11, <1>12, <1>13, OnlyState

LEMMA LowerKeeps ==
    ASSUME BtInv, Lower
    PROVE  BtInv'
<1> DEFINE ms == owed.messages
           b == bt_state
<1>1. /\ prog.at = "lower" /\ bc' = [bc EXCEPT !.arm_cmd = FALSE, !.stream = FALSE]
      /\ bt_state' = [b EXCEPT !.state = "WAITING"]
      /\ owed' = [owed EXCEPT !.data = <<>>]
      /\ prog' = Idle /\ UNCHANGED <<uart, line>>
  BY DEF Lower, At
<1>2. /\ BType(b) /\ PType(prog) /\ CType(bc) /\ OType(owed)
      /\ Modes(b, prog, line, bc, owed) /\ Queue(uart, prog, bc)
      /\ Answers(uart, b, prog, bc, ms) /\ Found(b, prog, owed)
      /\ Requests(uart, b, prog, bc, owed, ms)
  BY ParamsOf
<1>3. prog.call = "none" /\ "none" \notin Answered /\ Results \subseteq Answered
  BY <1>1, <1>2, InACall, PlacesOf, CallsHave
<1>4. PType(prog') /\ prog'.at = "idle" /\ prog'.call = "none"
  BY <1>1, <1>2, Idles
<1>5. /\ BType(bt_state') /\ bt_state'.state = "WAITING"
      /\ bt_state'.last_checked_id = b.last_checked_id
      /\ bt_state'.remote_id = b.remote_id /\ bt_state'.remote_device = b.remote_device
      /\ bt_state'.dev_waiting_for_pin = b.dev_waiting_for_pin
      /\ bt_state'.dev_waiting_for_connection = b.dev_waiting_for_connection
      /\ bt_state'.new_handle = b.new_handle
      /\ bt_state'.last_msg = b.last_msg /\ bt_state'.args = b.args
      /\ bt_state'.nmb_checksum_errors = b.nmb_checksum_errors
  BY <1>1, <1>2 DEF BType
<1>6. /\ CType(bc') /\ bc'.arm_cmd = FALSE /\ bc'.peer = bc.peer /\ bc'.stream = FALSE
      /\ bc'.faults = bc.faults /\ bc'.confused = bc.confused
  BY <1>1, <1>2 DEF CType
<1>7. Nothing(uart) /\ owed.data = <<>> /\ b.state = "STREAMING"
  BY <1>1, <1>2 DEF Modes, Queue
<1>8. OType(owed') /\ owed' = owed
  BY <1>1, <1>2, <1>7 DEF OType
<1>9. Deaf(bt_state', prog') <=> Deaf(b, prog)
  BY <1>1, <1>4, <1>5 DEF Deaf
<1>10. Modes(bt_state', prog', line, bc', owed)
  BY <1>4, <1>5, <1>6, <1>7 DEF Modes
<1>11. Queue(uart, prog', bc')
  BY <1>2, <1>3, <1>4, <1>6, <1>7 DEF Queue, Nothing, AllLoose
<1>12. Answers(uart, bt_state', prog', bc', ms)
  BY <1>1, <1>2, <1>3, <1>4 DEF Answers, Own
<1>13. Found(bt_state', prog', owed)
  BY <1>4, <1>5 DEF Found, Listing, Listings
<1>14. Requests(uart, bt_state', prog', bc', owed, ms)
  BY <1>1, <1>2, <1>3, <1>4, <1>5, <1>6 DEF Requests, Waits, Asked
<1> QED
  BY <1>1, <1>4, <1>5, <1>6, <1>8, <1>9, <1>10, <1>11, <1>12, <1>13, <1>14, OnlyState

---------------------------------------------------------------------------
(* What is written *)

SameReceiver(u, v) ==
    /\ v.ier = u.ier /\ v.rhr = u.rhr /\ v.rxten = u.rxten /\ v.rcr = u.rcr
    /\ v.got = u.got /\ v.packet_size = u.packet_size /\ v.brk = u.brk

\* The transmitter does not matter to the receiver.
LEMMA ReceptionSame ==
    ASSUME NEW u, NEW v, NEW b, NEW p, NEW l, NEW o, SameReceiver(u, v),
           Reception(u, b, p, l, o)
    PROVE  Reception(v, b, p, l, o)
<1>1. ~Deaf(b, p) => Frame(v, l, o.messages)
  BY FrameSame DEF Reception, SameReceiver
<1> QED
  BY <1>1 DEF Reception, SameReceiver

LEMMA WritesPacket ==
    ASSUME NEW u, NEW q \in Packet, UType(u), u.tncr = NoPacket
    PROVE  /\ UType(UartWrite(u, q)) /\ SameReceiver(u, UartWrite(u, q))
           /\ \/ u.tcr = NoPacket /\ UartWrite(u, q).tcr = q
                 /\ UartWrite(u, q).tncr = NoPacket
              \/ u.tcr # NoPacket /\ UartWrite(u, q).tcr = u.tcr
                 /\ UartWrite(u, q).tncr = q
<1>1. CASE u.tcr = NoPacket
  <2>1. UartWrite(u, q) = [u EXCEPT !.tcr = q]
    BY <1>1 DEF UartWrite
  <2> QED
    BY <1>1, <2>1 DEF UType, SameReceiver
<1>2. CASE u.tcr # NoPacket
  <2>1. UartWrite(u, q) = [u EXCEPT !.tncr = q]
    BY <1>2 DEF UartWrite
  <2> QED
    BY <1>2, <2>1 DEF UType, SameReceiver
<1> QED
  BY <1>1, <1>2

AfterWrite(call) ==
    CASE call \in DOMAIN Answer -> "wait"
      [] call = "nx_bt_begin_known_devices_dumping" -> "set_state"
      [] call = "nx_bt_accept_connection" -> "clear"
      [] call = "nx_bt_stream_open" -> "drain"

\* The packet of a call is behind packets of Loose calls only.
LEMMA WriteKeeps ==
    ASSUME BtInv, Write
    PROVE  BtInv'
<1> DEFINE ms == owed.messages
           b == bt_state
           u == uart
           q == [call |-> prog.call, arg |-> prog.arg,
                 framed |-> prog.call \notin Headless, whole |-> TRUE]
           at == AfterWrite(prog.call)
<1>1. /\ prog.at = "write" /\ u.tncr = NoPacket /\ uart' = UartWrite(u, q)
      /\ Moved(prog, prog', at) /\ UNCHANGED <<bt_state, line, bc, owed>>
  <2>1. prog.call # "nx_bt_close_connection"
    BY ParamsOf, InACall, NoCallPlaces DEF Write, At, Headless
  <2> QED
    BY <2>1 DEF Write, At, Go, Moved, CanWrite, AfterWrite
<1>2. /\ UType(u) /\ BType(b) /\ PType(prog) /\ CType(bc) /\ OType(owed)
      /\ line \in Seq(Byte) /\ Reception(u, b, prog, line, owed)
      /\ Modes(b, prog, line, bc, owed) /\ Queue(u, prog, bc)
      /\ Answers(u, b, prog, bc, ms) /\ Found(b, prog, owed)
      /\ Requests(u, b, prog, bc, owed, ms) /\ Faults(u, b, bc, ms)
  BY ParamsOf
<1>3. /\ prog.call \in Calls /\ prog.call \notin Headless /\ prog.arg \in Values
      /\ prog.call \in Answered \cup {"nx_bt_cancel_inquiry"} \cup Unanswered
      /\ prog.call # "none" /\ prog.call # "nx_bt_stream_write"
  BY <1>1, <1>2, InACall, NoCallPlaces, AnswerDomain, AnsweredAre DEF Calls, Unanswered
<1>4. /\ prog.call \in DOMAIN Answer => at = "wait"
      /\ prog.call = "nx_bt_begin_known_devices_dumping" => at = "set_state"
      /\ prog.call = "nx_bt_accept_connection" => at = "clear"
      /\ prog.call = "nx_bt_stream_open" => at = "drain"
      /\ at \in {"wait", "set_state", "clear", "drain"} /\ at \in Places(prog.call)
  <2>1. /\ prog.call \in DOMAIN Answer => at = "wait"
        /\ prog.call = "nx_bt_begin_known_devices_dumping" => at = "set_state"
        /\ prog.call = "nx_bt_accept_connection" => at = "clear"
        /\ prog.call = "nx_bt_stream_open" => at = "drain"
    BY AnswerDomain, AnsweredAre DEF AfterWrite
  <2>2. prog.call \in DOMAIN Answer \cup Unanswered
    BY <1>3, AnswerDomain
  <2> HIDE DEF at
  <2>3. at \in {"wait", "set_state", "clear", "drain"}
    BY <2>1, <2>2 DEF Unanswered
  <2>4. at \in Places(prog.call)
    BY <1>3, <2>1, <2>2, PlacesOf, AnswerDomain DEF Unanswered, Listings
  <2> QED
    BY <2>1, <2>3, <2>4
<1>5. /\ PType(prog') /\ prog'.at = at /\ prog'.call = prog.call /\ prog'.arg = prog.arg
  <2>1. at \in AnyPlace /\ prog.got = <<>>
    BY <1>1, <1>2, <1>4 DEF AnyPlace, PType
  <2> HIDE DEF at
  <2> QED
    BY <1>1, <1>2, <1>4, <2>1, Goes
<1>6. /\ q \in Packet /\ q.call = prog.call /\ q.arg = prog.arg /\ q.framed /\ q.whole
      /\ q # NoPacket
  BY <1>3 DEF Packet, NoPacket
<1> HIDE DEF q, at
<1>7. /\ UType(uart') /\ SameReceiver(u, uart')
      /\ \/ u.tcr = NoPacket /\ uart'.tcr = q /\ uart'.tncr = NoPacket
         \/ u.tcr # NoPacket /\ uart'.tcr = u.tcr /\ uart'.tncr = q
  BY <1>1, <1>2, <1>6, WritesPacket
<1>8. AllLoose(u) /\ b.state # "STREAMING" /\ ~bc.arm_cmd
  BY <1>1, <1>2, <1>3, AnswerDomain DEF Queue, Modes, CType
<1>9. Pending(uart', prog')
  BY <1>1, <1>5, <1>6, <1>7, <1>8 DEF Pending, Latest, AllLoose
<1>10. Reception(uart', b, prog', line, owed)
  <2>1. ~Deaf(b, prog) /\ ~Deaf(b, prog')
    BY <1>1, <1>4, <1>5, <1>8 DEF Deaf
  <2>2. Reception(u, b, prog', line, owed)
    BY <1>2, <2>1 DEF Reception
  <2> QED
    BY <1>7, <2>2, ReceptionSame
<1>11. Modes(b, prog', line, bc, owed)
  BY <1>1, <1>2, <1>4, <1>5, <1>8 DEF Modes
<1>12. Queue(uart', prog', bc)
  <2>1. uart'.tcr = NoPacket => uart'.tncr = NoPacket
    BY <1>6, <1>7
  <2>2. \A r \in {uart'.tcr, uart'.tncr} :
           /\ r.framed /\ r.whole
           /\ r # NoPacket => /\ r.call # "none"
                              /\ r.call = "nx_bt_stream_write" <=> bc.arm_cmd
    <3>1. \A r \in {uart'.tcr, uart'.tncr} : r \in {u.tcr, u.tncr, q}
      BY <1>1, <1>7
    <3>2. q.call # "none" /\ q.call # "nx_bt_stream_write"
      BY <1>3, <1>6
    <3> QED
      BY <1>2, <1>6, <1>8, <3>1, <3>2 DEF Queue
  <2>3. ~bc.confused
    BY <1>2 DEF Queue
  <2>4. CASE prog.call \in Answered \cup {"nx_bt_accept_connection", "nx_bt_stream_open"}
    <3>1. CASE prog.call = "nx_bt_stream_open"
      <4>1. uart'.tncr = NoPacket
        BY <1>1, <1>2, <1>7, <3>1 DEF Queue, Nothing
      <4> QED
        BY <1>4, <1>5, <1>9, <2>1, <2>2, <2>3, <2>4, <3>1, <4>1 DEF Queue
    <3>2. CASE prog.call \in Answered
      <4>1. at = "wait" /\ prog.call # "nx_bt_stream_open"
        BY <1>4, <3>2, AnswerDomain, AnsweredAre
      <4> QED
        BY <1>5, <1>9, <2>1, <2>2, <2>3, <2>4, <3>2, <4>1 DEF Queue
    <3>3. CASE prog.call = "nx_bt_accept_connection"
      BY <1>4, <1>5, <1>9, <2>1, <2>2, <2>3, <2>4, <3>3 DEF Queue
    <3> QED
      BY <2>4, <3>1, <3>2, <3>3
  <2>5. CASE prog.call \notin Answered \cup {"nx_bt_accept_connection", "nx_bt_stream_open"}
    <3>1. prog.call \in Loose
      BY <1>3, <2>5 DEF Loose, Unanswered
    <3>2. AllLoose(uart')
      BY <1>1, <1>6, <1>7, <1>8, <3>1 DEF AllLoose
    <3> QED
      BY <1>4, <1>5, <2>1, <2>2, <2>3, <2>5, <3>2 DEF Queue
  <2> QED
    BY <2>4, <2>5
<1>13. Answers(uart', b, prog', bc, ms)
  <2>1. \A i \in 1..Len(ms) : ms[i].type \notin OwnTypes
    BY <1>1, <1>2 DEF Answers
  <2>2. prog.call \in Answered => ~Told(b, prog)
    BY <1>1, <1>2 DEF Answers
  <2>3. prog.call \in Results => at = "wait"
    BY <1>4, AnswerDomain, AnsweredAre DEF Results
  <2> QED
    BY <1>4, <1>5, <1>9, <2>1, <2>2, <2>3 DEF Answers, Told
<1>14. Found(b, prog', owed)
  BY <1>1, <1>2, <1>4, <1>5, AnswerDomain, AnsweredAre DEF Found
<1>15. Requests(uart', b, prog', bc, owed, ms)
  <2>1. b.dev_waiting_for_connection # None =>
           \/ bc.peer = "asks"
           \/ prog'.call = "nx_bt_accept_connection" /\ prog'.at = "clear" /\ Nothing(uart')
    BY <1>1, <1>2 DEF Requests
  <2>2. prog'.call = "nx_bt_send_pin" /\ prog'.at # "return" =>
           /\ b.dev_waiting_for_pin # None /\ owed.pin = None
           /\ bc.peer = "pin"
    BY <1>1, <1>2, <1>5 DEF Requests
  <2>3. prog'.call = "nx_bt_accept_connection" =>
           /\ owed.connection = None /\ b.dev_waiting_for_connection # None
           /\ bc.peer = "asks" /\ prog'.at = "clear"
           /\ \A i \in 1..Len(ms) : ms[i].type \notin Asked
    BY <1>1, <1>2, <1>4, <1>5 DEF Requests, Asked, Stage, Waits
  <2>4. /\ \A i \in 1..Len(ms) : ms[i].type \in Asked =>
               bc.peer = Stage(ms[i].type) /\ Waits(b, ms[i].type) = None
        /\ \A i, j \in 1..Len(ms) : ms[i].type \in Asked /\ ms[j].type \in Asked => i = j
        /\ owed.pin # None => b.dev_waiting_for_pin = owed.pin
        /\ owed.connection # None => b.dev_waiting_for_connection = owed.connection
        /\ owed.handle # None => b.new_handle = owed.handle
        /\ b.new_handle # None => bc.peer = "none"
    BY <1>2 DEF Requests
  <2>5. b.dev_waiting_for_pin # None =>
           /\ bc.peer # "accepted"
           /\ bc.peer = "pin" \/ (prog'.call = "nx_bt_send_pin" /\ prog'.at # "return")
    BY <1>1, <1>2, <1>4, <1>5 DEF Requests
  <2>6. prog'.at # "established"
    BY <1>4, <1>5
  <2> QED
    BY <2>1, <2>2, <2>3, <2>4, <2>5, <2>6 DEF Requests
<1>16. Faults(uart', b, bc, ms)
  BY <1>2, <1>7 DEF Faults, SameReceiver
<1> QED
  BY <1>1, <1>2, <1>5, <1>7, <1>10, <1>11, <1>12, <1>13, <1>14, <1>15, <1>16, Together

\* A call begins.
LEMMA CallKeeps ==
    ASSUME BtInv, Careful, Call
    PROVE  BtInv'
<1> DEFINE ms == owed.messages
           b == bt_state
           u == uart
<1>1. /\ prog.at = "idle" /\ b.state # "STREAMING" /\ UNCHANGED <<uart, bt_state, line, bc>>
  BY DEF Call, At, Streaming
<1>2. PICK c \in prog.calls, v \in Values :
           /\ CallMay(c)
           /\ c = "nx_bt_send_pin" => b.dev_waiting_for_pin # None
           /\ c = "nx_bt_accept_connection" => b.dev_waiting_for_connection # None
           /\ prog' = [Idle EXCEPT !.at = "write", !.call = c, !.arg = v]
           /\ owed' = IF c = "nx_bt_send_pin" THEN [owed EXCEPT !.pin = None]
                      ELSE IF c = "nx_bt_accept_connection" THEN [owed EXCEPT !.connection = None]
                      ELSE IF c \in Listings THEN [owed EXCEPT !.device = None]
                      ELSE owed
  BY DEF Call
<1>3. /\ UType(u) /\ BType(b) /\ PType(prog) /\ CType(bc) /\ OType(owed)
      /\ Modes(b, prog, line, bc, owed) /\ Queue(u, prog, bc)
      /\ Answers(u, b, prog, bc, ms) /\ Found(b, prog, owed)
      /\ Requests(u, b, prog, bc, owed, ms)
  BY ParamsOf
<1>4. /\ prog.call = "none" /\ "none" \notin Answered /\ Results \subseteq Answered
  BY <1>1, <1>3, InACall, PlacesOf, CallsHave
<1>5. /\ c \in Calls /\ c # "none" /\ c \in Answered \cup {"nx_bt_cancel_inquiry"} \cup Unanswered
  BY <1>3, AnswerDomain, CallsHave DEF PType, Calls
<1>6. /\ PType(prog') /\ prog'.at = "write" /\ prog'.call = c /\ prog'.arg = v
  <2>1. Entered(prog, prog', "write", c, v)
    BY <1>2, <1>3 DEF Idle, Entered, PType
  <2>2. "write" \in AnyPlace /\ "write" \in Places(c)
    BY <1>5, PlacesOf DEF AnyPlace
  <2> QED
    BY <1>3, <2>1, <2>2, Enters
<1>7. /\ OType(owed') /\ owed'.messages = ms /\ owed'.framed = owed.framed
      /\ owed'.data = owed.data /\ owed'.handle = owed.handle
      /\ owed'.pin = IF c = "nx_bt_send_pin" THEN None ELSE owed.pin
      /\ owed'.connection = IF c = "nx_bt_accept_connection" THEN None ELSE owed.connection
      /\ owed'.device = IF c \in Listings THEN None ELSE owed.device
  BY <1>2, <1>3 DEF OType, Listings
<1>8. AllLoose(u)
  BY <1>3, <1>4, CallsHave DEF Queue
<1>9. c \in Answered => b.last_msg # Answer[c]
  BY <1>2, AnswerDomain, RulesKept DEF CallMay
<1>10. c = "nx_bt_stream_open" =>
           ms = <<>> /\ line = <<>> /\ Nothing(u) /\ b.state = "WAITING" /\ b.new_handle = None
  <2>1. ASSUME c = "nx_bt_stream_open"
        PROVE  Silent /\ u.tcr = NoPacket /\ Unpaired /\ Unlisted
    BY <1>2, <2>1, RulesKept DEF CallMay, IsWriting
  <2> QED
    BY <1>3, <2>1, SilentMeans DEF Silent, Unpaired, Unlisted, Queue, Nothing
<1>11. c \in Listings =>
           /\ b.state = "WAITING"
           /\ c = "nx_bt_begin_inquiry" => b.remote_id = 0
           /\ c # "nx_bt_begin_inquiry" => b.last_checked_id = b.remote_id
  BY <1>2, RulesKept DEF CallMay, Unlisted, Listings
<1>12. Deaf(b, prog') <=> Deaf(b, prog)
  BY <1>1, <1>6 DEF Deaf
<1>13. Modes(b, prog', line, bc, owed')
  BY <1>1, <1>3, <1>4, <1>6, <1>7, <1>10 DEF Modes
<1>14. Queue(u, prog', bc)
  BY <1>3, <1>6, <1>8, <1>10 DEF Queue
<1>15. Answers(u, b, prog', bc, ms)
  <2>1. \A i \in 1..Len(ms) : ms[i].type \notin OwnTypes
    BY <1>1, <1>3 DEF Answers
  <2> QED
    BY <1>6, <1>9, <2>1 DEF Answers, Told
<1>16. Found(b, prog', owed')
  <2>1. c \in Listings => ~Listing(b)
    BY <1>11 DEF Listing
  <2>2. Listing(b) /\ b.last_checked_id # b.remote_id => Fresh(b, owed')
    BY <1>3, <1>7, <2>1 DEF Found, Fresh
  <2> QED
    BY <1>6, <1>11, <2>2 DEF Found
<1>17. Requests(u, b, prog', bc, owed', ms)
  <2>1. /\ \A i \in 1..Len(ms) : ms[i].type \in Asked =>
               bc.peer = Stage(ms[i].type) /\ Waits(b, ms[i].type) = None
        /\ \A i, j \in 1..Len(ms) : ms[i].type \in Asked /\ ms[j].type \in Asked => i = j
        /\ b.new_handle # None => bc.peer = "none"
        /\ b.dev_waiting_for_pin # None => bc.peer = "pin"
        /\ b.dev_waiting_for_connection # None => bc.peer = "asks"
    BY <1>3, <1>4 DEF Requests
  <2>2. /\ owed'.pin # None => b.dev_waiting_for_pin = owed'.pin
        /\ owed'.connection # None => b.dev_waiting_for_connection = owed'.connection
        /\ owed'.handle # None => b.new_handle = owed'.handle
    BY <1>3, <1>7 DEF Requests
  <2>3. c = "nx_bt_send_pin" => b.dev_waiting_for_pin # None /\ owed'.pin = None
    BY <1>2, <1>7
  <2>4. c = "nx_bt_accept_connection" =>
            /\ b.dev_waiting_for_connection # None /\ owed'.connection = None
            /\ \A i \in 1..Len(ms) : ms[i].type \notin Asked
    BY <1>2, <1>7, <2>1 DEF Asked, Stage, Waits
  <2> QED
    BY <1>6, <2>1, <2>2, <2>3, <2>4 DEF Requests
<1> QED
  BY <1>1, <1>3, <1>6, <1>7, <1>12, <1>13, <1>14, <1>15, <1>16, <1>17, OnlyState

---------------------------------------------------------------------------
(* A stream *)

\* A stream: what has been taken is in front of what has not.
LEMMA SubSeqAfter ==
    ASSUME NEW S, NEW s \in Seq(S), NEW t \in Seq(S)
    PROVE  SubSeq(s \o t, Len(s) + 1, Len(s \o t)) = t
<1> DEFINE m == Len(s)
           n == Len(t)
           r == SubSeq(s \o t, m + 1, m + n)
<1>1. m \in Nat /\ n \in Nat
  OBVIOUS
<1>2. /\ s \o t \in Seq(S) /\ Len(s \o t) = m + n
      /\ \A i \in 1..(m + n) : (s \o t)[i] = IF i <= m THEN s[i] ELSE t[i - m]
  BY ConcatProperties
<1>3. /\ r \in Seq(S) /\ Len(r) = n
      /\ \A i \in 1..n : r[i] = (s \o t)[m + i]
  <2>1. \A i \in (m + 1)..(m + n) : i \in 1..(m + n)
    BY <1>1
  <2>2. \A i \in (m + 1)..(m + n) : (s \o t)[i] \in S
    BY <1>1, <1>2, <2>1
  <2>3. m + 1 \in Int /\ m + n \in Int
    BY <1>1
  <2> DEFINE w == s \o t
  <2> HIDE DEF w
  <2>4. /\ SubSeq(w, m + 1, m + n) \in Seq(S)
        /\ Len(SubSeq(w, m + 1, m + n))
               = IF m + 1 <= m + n THEN (m + n) - (m + 1) + 1 ELSE 0
        /\ \A i \in 1..((m + n) - (m + 1) + 1) :
               SubSeq(w, m + 1, m + n)[i] = w[(m + 1) + i - 1]
    BY <2>2, <2>3, SubSeqProperties DEF w
  <2> HIDE DEF m, n
  <2>5. (IF m + 1 <= m + n THEN (m + n) - (m + 1) + 1 ELSE 0) = n
    BY <1>1
  <2>6. \A i \in 1..n : i \in 1..((m + n) - (m + 1) + 1) /\ (m + 1) + i - 1 = m + i
    BY <1>1
  <2>7. /\ SubSeq(w, m + 1, m + n) \in Seq(S) /\ Len(SubSeq(w, m + 1, m + n)) = n
        /\ \A i \in 1..n : SubSeq(w, m + 1, m + n)[i] = w[m + i]
    BY <2>4, <2>5, <2>6
  <2> QED
    BY <2>7 DEF w
<1>4. ASSUME NEW i \in 1..n
      PROVE  r[i] = t[i]
  <2>1. m + i \in 1..(m + n) /\ ~(m + i <= m) /\ (m + i) - m = i
    BY <1>1
  <2> QED
    BY <1>2, <1>3, <2>1
<1> HIDE DEF r
<1>5. r = t
  BY <1>3, <1>4, SeqEqual
<1> QED
  BY <1>2, <1>5 DEF r

LEMMA AppendConcat ==
    ASSUME NEW S, NEW s \in Seq(S), NEW t \in Seq(S), t # <<>>
    PROVE  Append(s, Head(t)) \o Tail(t) = s \o t
<1> DEFINE m == Len(s)
           n == Len(t)
           a == Append(s, Head(t))
           l == Tail(t)
<1>1. m \in Nat /\ n \in Nat /\ n # 0
  BY EmptySeq
<1>2. Head(t) = t[1] /\ Head(t) \in S
  BY HeadTailProperties
<1>3. /\ a \in Seq(S) /\ Len(a) = m + 1
      /\ \A i \in 1..m : a[i] = s[i]
      /\ a[m + 1] = t[1]
  BY <1>2, AppendProperties
<1>4. l \in Seq(S) /\ Len(l) = n - 1 /\ \A i \in 1..(n - 1) : l[i] = t[i + 1]
  BY HeadTailProperties
<1>5. /\ s \o t \in Seq(S) /\ Len(s \o t) = m + n
      /\ \A i \in 1..(m + n) : (s \o t)[i] = IF i <= m THEN s[i] ELSE t[i - m]
  BY ConcatProperties
<1> HIDE DEF a, l
<1>6. /\ a \o l \in Seq(S) /\ Len(a \o l) = m + n
      /\ \A i \in 1..(m + n) : (a \o l)[i] = IF i <= m + 1 THEN a[i] ELSE l[i - (m + 1)]
  <2>1. Len(a) + Len(l) = m + n
    BY <1>1, <1>3, <1>4
  <2>2. /\ a \o l \in Seq(S) /\ Len(a \o l) = Len(a) + Len(l)
        /\ \A i \in 1..(Len(a) + Len(l)) :
               (a \o l)[i] = IF i <= Len(a) THEN a[i] ELSE l[i - Len(a)]
    BY <1>3, <1>4, ConcatProperties
  <2> HIDE DEF m, n
  <2> QED
    BY <1>3, <2>1, <2>2, Zenon
<1>7. ASSUME NEW i \in 1..(m + n)
      PROVE  (a \o l)[i] = (s \o t)[i]
  <2>1. CASE i <= m
    <3>1. i \in 1..m /\ i <= m + 1
      BY <1>1, <2>1
    <3> QED
      BY <1>3, <1>5, <1>6, <3>1
  <2>2. CASE i = m + 1
    <3>1. ~(i <= m) /\ i <= m + 1 /\ i - m = 1
      BY <1>1, <2>2
    <3> QED
      BY <1>3, <1>5, <1>6, <2>2, <3>1
  <2>3. CASE ~(i <= m + 1)
    <3>1. ~(i <= m) /\ i - (m + 1) \in 1..(n - 1) /\ (i - (m + 1)) + 1 = i - m
      BY <1>1, <2>3
    <3> QED
      BY <1>4, <1>5, <1>6, <2>3, <3>1
  <2>4. i <= m \/ i = m + 1 \/ ~(i <= m + 1)
    BY <1>1
  <2> QED
    BY <2>1, <2>2, <2>3, <2>4
<1>8. a \o l = s \o t
  BY <1>5, <1>6, <1>7, SeqEqual
<1> QED
  BY <1>8 DEF a, l

LEMMA PacketsSame ==
    ASSUME NEW u, NEW v, NEW b, NEW p, NEW c, NEW o, NEW ms,
           v.tcr = u.tcr, v.tncr = u.tncr,
           Queue(u, p, c), Answers(u, b, p, c, ms), Requests(u, b, p, c, o, ms)
    PROVE  Queue(v, p, c) /\ Answers(v, b, p, c, ms) /\ Requests(v, b, p, c, o, ms)
<1>1. Nothing(v) = Nothing(u) /\ Pending(v, p) = Pending(u, p) /\ AllLoose(v) = AllLoose(u)
  BY DEF Nothing, Pending, Latest, AllLoose
<1>2. Queue(v, p, c)
  BY <1>1 DEF Queue
<1>3. Answers(v, b, p, c, ms)
  BY <1>1 DEF Answers
<1>4. Requests(v, b, p, c, o, ms)
  BY <1>1 DEF Requests
<1> QED
  BY <1>2, <1>3, <1>4

LEMMA StreamReadKeeps ==
    ASSUME BtInv, StreamRead
    PROVE  BtInv'
<1> DEFINE ms == owed.messages
           b == bt_state
           u == uart
<1>1. /\ prog.at = "idle" /\ b.state = "STREAMING"
      /\ owed' = [owed EXCEPT !.data = SubSeq(owed.data, Len(u.got) + 1, Len(owed.data))]
      /\ UNCHANGED <<bt_state, prog, line, bc>>
  BY DEF StreamRead, At, Streaming
<1>2. PICK n \in 1..2 : uart' = UartRead(u, n)
  BY DEF StreamRead
<1>3. /\ UType(u) /\ BType(b) /\ PType(prog) /\ CType(bc) /\ OType(owed)
      /\ line \in Seq(Byte) /\ Reception(u, b, prog, line, owed)
      /\ Modes(b, prog, line, bc, owed) /\ Queue(u, prog, bc)
      /\ Answers(u, b, prog, bc, ms) /\ Found(b, prog, owed)
      /\ Requests(u, b, prog, bc, owed, ms) /\ Faults(u, b, bc, ms)
  BY ParamsOf
<1>4. /\ UType(uart') /\ uart'.ier = u.ier /\ uart'.rhr = u.rhr /\ uart'.rxten = TRUE
      /\ uart'.got = <<>> /\ uart'.brk = u.brk /\ uart'.tcr = u.tcr /\ uart'.tncr = u.tncr
  <2>1. uart' = [u EXCEPT !.to_read = n, !.got = <<>>, !.rcr = n, !.rxten = TRUE]
    BY <1>2 DEF UartRead
  <2>2. <<>> \in Seq(Byte) /\ n \in Nat
    OBVIOUS
  <2> QED
    BY <1>3, <2>1, <2>2 DEF UType
<1>5. Deaf(b, prog)
  BY <1>1 DEF Deaf
<1>6. SubSeq(owed.data, Len(u.got) + 1, Len(owed.data)) = line
  <2>1. u.got \in Seq(Byte) /\ owed.data = u.got \o line
    BY <1>3, <1>5 DEF Reception, UType
  <2> QED
    BY <1>3, <2>1, SubSeqAfter
<1>7. /\ OType(owed') /\ owed'.messages = ms /\ owed'.framed = owed.framed
      /\ owed'.data = line /\ owed'.device = owed.device /\ owed'.pin = owed.pin
      /\ owed'.connection = owed.connection /\ owed'.handle = owed.handle
  BY <1>1, <1>3, <1>6 DEF OType
<1>8. Reception(uart', b, prog, line, owed')
  <2>1. uart'.got \o line = line
    BY <1>3, <1>4
  <2> QED
    BY <1>3, <1>4, <1>5, <1>7, <2>1 DEF Reception
<1>9. Modes(b, prog, line, bc, owed')
  BY <1>1, <1>3, <1>7 DEF Modes
<1>10. /\ Queue(uart', prog, bc) /\ Answers(uart', b, prog, bc, ms)
       /\ Requests(uart', b, prog, bc, owed, ms)
  BY <1>3, <1>4, PacketsSame
<1>11. Requests(uart', b, prog, bc, owed', ms)
  BY <1>7, <1>10 DEF Requests
<1>12. Found(b, prog, owed')
  BY <1>3, <1>7 DEF Found, Fresh
<1>13. Faults(uart', b, bc, ms)
  BY <1>3, <1>4 DEF Faults
<1> QED
  BY <1>1, <1>3, <1>4, <1>7, <1>8, <1>9, <1>10, <1>11, <1>12, <1>13, Together

LEMMA StreamWriteKeeps ==
    ASSUME BtInv, StreamWrite
    PROVE  BtInv'
<1> DEFINE ms == owed.messages
           b == bt_state
           u == uart
           q == [call |-> "nx_bt_stream_write", arg |-> 0, framed |-> TRUE, whole |-> TRUE]
<1>1. /\ prog.at = "idle" /\ b.state = "STREAMING" /\ u.tncr = NoPacket
      /\ uart' = UartWrite(u, q)
      /\ UNCHANGED <<bt_state, prog, line, bc, owed>>
  BY DEF StreamWrite, At, Streaming, CanWrite
<1>2. /\ UType(u) /\ BType(b) /\ PType(prog) /\ CType(bc) /\ OType(owed)
      /\ line \in Seq(Byte) /\ Reception(u, b, prog, line, owed)
      /\ Modes(b, prog, line, bc, owed) /\ Queue(u, prog, bc)
      /\ Answers(u, b, prog, bc, ms) /\ Found(b, prog, owed)
      /\ Requests(u, b, prog, bc, owed, ms) /\ Faults(u, b, bc, ms)
  BY ParamsOf
<1>3. /\ prog.call = "none" /\ "none" \notin Answered /\ Results \subseteq Answered
      /\ bc.arm_cmd
  BY <1>1, <1>2, InACall, PlacesOf, CallsHave DEF Modes
<1>4. q \in Packet /\ q # NoPacket /\ q.call = "nx_bt_stream_write" /\ q.framed /\ q.whole
  BY DEF Packet, NoPacket, Values
<1> HIDE DEF q
<1>5. /\ UType(uart') /\ SameReceiver(u, uart')
      /\ \/ u.tcr = NoPacket /\ uart'.tcr = q /\ uart'.tncr = NoPacket
         \/ u.tcr # NoPacket /\ uart'.tcr = u.tcr /\ uart'.tncr = q
  BY <1>1, <1>2, <1>4, WritesPacket
<1>6. Reception(uart', b, prog, line, owed)
  BY <1>2, <1>5, ReceptionSame
<1>7. Queue(uart', prog, bc)
  <2>1. AllLoose(uart')
    <3>1. AllLoose(u)
      BY <1>2, <1>3 DEF Queue
    <3> QED
      BY <1>4, <1>5, <3>1 DEF AllLoose, Loose
  <2>2. uart'.tcr = NoPacket => uart'.tncr = NoPacket
    BY <1>4, <1>5
  <2>3. \A r \in {uart'.tcr, uart'.tncr} :
           /\ r.framed /\ r.whole
           /\ r # NoPacket => /\ r.call # "none"
                              /\ r.call = "nx_bt_stream_write" <=> bc.arm_cmd
    <3>1. \A r \in {uart'.tcr, uart'.tncr} : r \in {u.tcr, u.tncr, q}
      BY <1>1, <1>5
    <3> QED
      BY <1>2, <1>3, <1>4, <3>1 DEF Queue
  <2> QED
    BY <1>1, <1>2, <1>3, <2>1, <2>2, <2>3 DEF Queue
<1>8. Answers(uart', b, prog, bc, ms)
  BY <1>1, <1>2, <1>3 DEF Answers, Own
<1>9. Requests(uart', b, prog, bc, owed, ms)
  BY <1>1, <1>2, <1>3 DEF Requests
<1>10. Faults(uart', b, bc, ms)
  BY <1>2, <1>5 DEF Faults, SameReceiver
<1> QED
  BY <1>1, <1>2, <1>5, <1>6, <1>7, <1>8, <1>9, <1>10, Together

\* Nothing is on its way, so that the next byte is a length again.
LEMMA StreamCloseKeeps ==
    ASSUME BtInv, Careful, StreamClose
    PROVE  BtInv'
<1> DEFINE ms == owed.messages
           b == bt_state
           u == uart
<1>1. /\ prog.at = "idle" /\ b.state = "STREAMING" /\ line = <<>> /\ u.tcr = NoPacket
      /\ uart' = SetCallback(u, TRUE) /\ prog' = [Idle EXCEPT !.at = "lower"]
      /\ owed' = [owed EXCEPT !.data = SubSeq(owed.data, Len(u.got) + 1, Len(owed.data))]
      /\ UNCHANGED <<bt_state, line, bc>>
  BY RulesKept DEF StreamClose, At, Streaming, IsWriting
<1>2. /\ UType(u) /\ BType(b) /\ PType(prog) /\ CType(bc) /\ OType(owed)
      /\ line \in Seq(Byte) /\ Reception(u, b, prog, line, owed)
      /\ Modes(b, prog, line, bc, owed) /\ Queue(u, prog, bc)
      /\ Answers(u, b, prog, bc, ms) /\ Found(b, prog, owed)
      /\ Requests(u, b, prog, bc, owed, ms) /\ Faults(u, b, bc, ms)
  BY ParamsOf
<1>3. /\ prog.call = "none" /\ "none" \notin Answered /\ Results \subseteq Answered
  BY <1>1, <1>2, InACall, PlacesOf, CallsHave
<1>4. PType(prog') /\ prog'.at = "lower" /\ prog'.call = "none"
  <2>1. Entered(prog, prog', "lower", "none", None)
    BY <1>1, <1>2 DEF Idle, Entered, PType
  <2>2. "lower" \in AnyPlace /\ "lower" \in Places("none")
    BY NoCallPlaces DEF AnyPlace
  <2> QED
    BY <1>2, <2>1, <2>2, Enters
<1>5. Deaf(b, prog) /\ ~Deaf(b, prog')
  BY <1>1, <1>4 DEF Deaf
<1>6. u.rhr = NoByte /\ ms = <<>> /\ owed.data = u.got \o line /\ owed.framed
  BY <1>2, <1>5 DEF Reception
<1>7. SubSeq(owed.data, Len(u.got) + 1, Len(owed.data)) = <<>>
  <2>1. u.got \in Seq(Byte)
    BY <1>2 DEF UType
  <2> QED
    BY <1>1, <1>2, <1>6, <2>1, SubSeqAfter
<1>8. /\ OType(owed') /\ owed'.messages = ms /\ owed'.framed = owed.framed
      /\ owed'.data = <<>> /\ owed'.device = owed.device /\ owed'.pin = owed.pin
      /\ owed'.connection = owed.connection /\ owed'.handle = owed.handle
  <2>1. <<>> \in Seq(Byte)
    OBVIOUS
  <2> QED
    BY <1>1, <1>2, <1>7, <2>1 DEF OType
<1>9. /\ UType(uart') /\ uart'.brk = u.brk /\ uart'.tcr = u.tcr /\ uart'.tncr = u.tncr
  <2>1. uart' = [u EXCEPT !.callback = TRUE, !.rxten = FALSE, !.got = <<>>,
                             !.rcr = BufSize, !.ier = {"RXRDY", "RXBRK"}]
    BY <1>1 DEF SetCallback
  <2>2. <<>> \in Seq(Byte) /\ BufSize \in Nat /\ {"RXRDY", "RXBRK"} \subseteq Interrupts
    BY UartAssumption DEF Interrupts
  <2> QED
    BY <1>2, <2>1, <2>2 DEF UType
<1>10. Reception(uart', b, prog', line, owed')
  <2>1. Frame(uart', <<>>, <<>>)
    BY <1>1, <1>2, <1>6, FrameOpened
  <2> QED
    BY <1>1, <1>5, <1>6, <1>8, <2>1 DEF Reception
<1>11. Modes(b, prog', line, bc, owed')
  BY <1>1, <1>2, <1>4, <1>6, <1>8 DEF Modes
<1>12. Queue(uart', prog', bc)
  <2>1. Nothing(uart')
    BY <1>1, <1>2, <1>9 DEF Queue, Nothing
  <2> QED
    BY <1>2, <1>3, <1>4, <2>1 DEF Queue, Nothing, AllLoose, NoPacket
<1>13. Answers(uart', b, prog', bc, ms)
  BY <1>1, <1>2, <1>3, <1>4 DEF Answers, Own
<1>14. Found(b, prog', owed')
  BY <1>2, <1>3, <1>4, <1>8 DEF Found, Fresh, Listings
<1>15. Requests(uart', b, prog', bc, owed', ms)
  BY <1>1, <1>2, <1>3, <1>4, <1>8 DEF Requests
<1>16. Faults(uart', b, bc, ms)
  BY <1>2, <1>9 DEF Faults
<1> QED
  BY <1>1, <1>2, <1>4, <1>8, <1>9, <1>10, <1>11, <1>12, <1>13, <1>14, <1>15, <1>16, Together

---------------------------------------------------------------------------
(* The line *)

\* The interrupt of the byte before has been served.
LEMMA DeliverKeeps ==
    ASSUME BtInv, Careful, Deliver
    PROVE  BtInv'
<1> DEFINE ms == owed.messages
           b == bt_state
           u == uart
<1>1. /\ line # <<>> /\ u.rcr > 0 /\ u.rhr = NoByte /\ ~Interrupting(u)
      /\ uart' = Received(u, Head(line)) /\ line' = Tail(line)
      /\ UNCHANGED <<bt_state, prog, bc, owed>>
  BY RulesKept DEF Deliver, RTS
<1>2. /\ UType(u) /\ BType(b) /\ PType(prog) /\ CType(bc) /\ OType(owed)
      /\ line \in Seq(Byte) /\ Reception(u, b, prog, line, owed)
      /\ Modes(b, prog, line, bc, owed) /\ Queue(u, prog, bc)
      /\ Answers(u, b, prog, bc, ms) /\ Found(b, prog, owed)
      /\ Requests(u, b, prog, bc, owed, ms) /\ Faults(u, b, bc, ms)
  BY ParamsOf
<1>3. Head(line) \in Byte /\ line' \in Seq(Byte)
  BY <1>1, <1>2, HeadTailProperties
<1>4. /\ UType(uart') /\ uart'.brk = u.brk /\ uart'.tcr = u.tcr /\ uart'.tncr = u.tncr
      /\ uart'.ier = u.ier /\ uart'.rxten = u.rxten
      /\ u.rxten => uart'.rhr = u.rhr /\ uart'.got = Append(u.got, Head(line))
  <2>1. CASE u.rxten
    <3>1. uart' = [u EXCEPT !.got = Append(u.got, Head(line)), !.rcr = u.rcr - 1]
      BY <1>1, <2>1 DEF Received
    <3>2. Append(u.got, Head(line)) \in Seq(Byte) /\ u.rcr - 1 \in Nat
      BY <1>1, <1>2, <1>3 DEF UType
    <3> QED
      BY <1>2, <3>1, <3>2 DEF UType
  <2>2. CASE ~u.rxten
    <3>1. uart' = [u EXCEPT !.rhr = Head(line)]
      BY <1>1, <2>2 DEF Received
    <3> QED
      BY <1>2, <1>3, <2>2, <3>1 DEF UType
  <2> QED
    BY <2>1, <2>2
<1>5. Reception(uart', b, prog, line', owed)
  <2>1. CASE Deaf(b, prog)
    <3>1. /\ u.ier = {} /\ ms = <<>> /\ u.rxten /\ u.got \o line = owed.data /\ owed.framed
      BY <1>1, <1>2, <2>1 DEF Reception
    <3>2. uart'.got \o line' = owed.data
      <4>1. u.got \in Seq(Byte)
        BY <1>2 DEF UType
      <4>2. Append(u.got, Head(line)) \o Tail(line) = u.got \o line
        BY <1>1, <1>2, <4>1, AppendConcat
      <4>3. uart'.got = Append(u.got, Head(line))
        BY <1>4, <3>1
      <4> QED
        BY <1>1, <3>1, <4>2, <4>3, Zenon
    <3> QED
      BY <1>1, <1>4, <2>1, <3>1, <3>2 DEF Reception
  <2>2. CASE ~Deaf(b, prog)
    <3>1. ms \in Seq(Msg) /\ Frame(u, line, ms)
      BY <1>2, <2>2 DEF Reception, OType
    <3>2. Frame(uart', line', ms)
      BY <1>1, <1>2, <3>1, FrameDelivers DEF RTS
    <3> QED
      BY <1>2, <2>2, <3>2 DEF Reception
  <2> QED
    BY <2>1, <2>2
<1>6. Modes(b, prog, line', bc, owed)
  BY <1>1, <1>2 DEF Modes
<1>7. /\ Queue(uart', prog, bc) /\ Answers(uart', b, prog, bc, ms)
      /\ Requests(uart', b, prog, bc, owed, ms)
  BY <1>2, <1>4, PacketsSame
<1>8. Faults(uart', b, bc, ms)
  BY <1>2, <1>4 DEF Faults
<1> QED
  BY <1>1, <1>2, <1>3, <1>4, <1>5, <1>6, <1>7, <1>8, Together

LEMMA HarmedIs ==
    ASSUME NEW ms
    PROVE  Harmed(ms) \in Nat
BY DEF Harmed, Harm

LEMMA BreakKeeps ==
    ASSUME BtInv, Break
    PROVE  BtInv'
<1> DEFINE ms == owed.messages
           b == bt_state
           u == uart
<1>1. /\ uart' = [u EXCEPT !.brk = TRUE] /\ bc' = [bc EXCEPT !.faults = bc.faults + 1]
      /\ UNCHANGED <<bt_state, prog, line, owed>>
  BY DEF Break
<1>2. /\ UType(u) /\ BType(b) /\ PType(prog) /\ CType(bc) /\ OType(owed)
      /\ line \in Seq(Byte) /\ Reception(u, b, prog, line, owed)
      /\ Modes(b, prog, line, bc, owed) /\ Queue(u, prog, bc)
      /\ Answers(u, b, prog, bc, ms) /\ Found(b, prog, owed)
      /\ Requests(u, b, prog, bc, owed, ms) /\ Faults(u, b, bc, ms)
  BY ParamsOf
<1>3. /\ UType(uart') /\ uart'.brk = TRUE /\ uart'.tcr = u.tcr /\ uart'.tncr = u.tncr
      /\ uart'.ier = u.ier /\ uart'.rhr = u.rhr /\ uart'.rxten = u.rxten
      /\ uart'.rcr = u.rcr /\ uart'.got = u.got /\ uart'.packet_size = u.packet_size
  BY <1>1, <1>2 DEF UType
<1>4. /\ CType(bc') /\ bc'.arm_cmd = bc.arm_cmd /\ bc'.peer = bc.peer
      /\ bc'.stream = bc.stream /\ bc'.faults = bc.faults + 1 /\ bc'.confused = bc.confused
      /\ bc.faults \in Nat
  BY <1>1, <1>2 DEF CType
<1>5. Reception(uart', b, prog, line, owed)
  <2>1. ~Deaf(b, prog) => Frame(uart', line, ms)
    BY <1>2, <1>3, FrameSame DEF Reception
  <2> QED
    BY <1>2, <1>3, <2>1 DEF Reception
<1>6. Modes(b, prog, line, bc', owed)
  BY <1>2, <1>4 DEF Modes
<1>7. /\ Queue(uart', prog, bc) /\ Answers(uart', b, prog, bc, ms)
      /\ Requests(uart', b, prog, bc, owed, ms)
  BY <1>2, <1>3, PacketsSame
<1>8. Queue(uart', prog, bc') /\ Requests(uart', b, prog, bc', owed, ms)
  BY <1>4, <1>7 DEF Queue, Requests
<1>9. Answers(uart', b, prog, bc', ms)
  <2>1. bc.faults > 0 => bc'.faults > 0
    BY <1>4
  <2> QED
    BY <1>7, <2>1 DEF Answers
<1>10. Faults(uart', b, bc', ms)
  <2>1. /\ Len(ms) <= 2
        /\ b.nmb_checksum_errors + (IF u.brk THEN 1 ELSE 0) + Harmed(ms) <= bc.faults
    BY <1>2 DEF Faults
  <2>2. b.nmb_checksum_errors \in Nat /\ Harmed(ms) \in Nat
    BY <1>2, HarmedIs DEF BType
  <2>3. b.nmb_checksum_errors + 1 + Harmed(ms) <= bc.faults + 1
    BY <1>4, <2>1, <2>2
  <2> QED
    BY <1>3, <1>4, <2>1, <2>3 DEF Faults
<1> QED
  BY <1>1, <1>2, <1>3, <1>4, <1>5, <1>6, <1>8, <1>9, <1>10, Together

LEMMA StreamKeeps ==
    ASSUME BtInv, Careful, Stream
    PROVE  BtInv'
<1> DEFINE ms == owed.messages
           b == bt_state
           x == [of |-> [size |-> 1, data |-> bc.next], k |-> 1]
<1>1. /\ bc.stream /\ bc.arm_cmd /\ line = <<>> /\ prog.at # "lower"
      /\ line' = <<x>> /\ owed' = [owed EXCEPT !.data = Append(owed.data, Head(line'))]
      /\ bc' = [bc EXCEPT !.next = (bc.next + 1) % 4]
      /\ UNCHANGED <<uart, bt_state, prog>>
  BY RulesKept DEF Stream, At
<1>2. /\ UType(uart) /\ BType(b) /\ PType(prog) /\ CType(bc) /\ OType(owed)
      /\ Reception(uart, b, prog, line, owed)
      /\ Modes(b, prog, line, bc, owed) /\ Queue(uart, prog, bc)
      /\ Answers(uart, b, prog, bc, ms) /\ Found(b, prog, owed)
      /\ Requests(uart, b, prog, bc, owed, ms) /\ Faults(uart, b, bc, ms)
  BY ParamsOf
<1>3. x \in Byte
  BY <1>2 DEF CType, Byte
<1> HIDE DEF x
<1>4. line' \in Seq(Byte) /\ Head(line') = x
  BY <1>1, <1>3
<1>5. b.state = "STREAMING" /\ Deaf(b, prog)
  BY <1>1, <1>2 DEF Modes, Deaf
<1>6. /\ OType(owed') /\ owed'.messages = ms /\ owed'.framed = owed.framed
      /\ owed'.data = Append(owed.data, x) /\ owed'.device = owed.device
      /\ owed'.pin = owed.pin /\ owed'.connection = owed.connection
      /\ owed'.handle = owed.handle
  <2>1. owed' = [owed EXCEPT !.data = Append(owed.data, x)]
    BY <1>1, <1>4
  <2>2. owed.data \in Seq(Byte)
    BY <1>2 DEF OType
  <2>3. Append(owed.data, x) \in Seq(Byte)
    BY <1>3, <2>2, AppendProperties
  <2> QED
    BY <1>2, <2>1, <2>3 DEF OType
<1>7. /\ CType(bc') /\ bc'.arm_cmd = bc.arm_cmd /\ bc'.peer = bc.peer
      /\ bc'.stream = bc.stream /\ bc'.faults = bc.faults /\ bc'.confused = bc.confused
  <2>1. (bc.next + 1) % 4 \in 0..3
    BY <1>2 DEF CType
  <2> QED
    BY <1>1, <1>2, <2>1 DEF CType
<1>8. Reception(uart, b, prog, line', owed')
  <2>1. uart.got \in Seq(Byte) /\ uart.got \o <<>> = owed.data
    BY <1>1, <1>2, <1>5 DEF Reception, UType
  <2>2. owed.data = uart.got
    BY <2>1
  <2>3. uart.got \o <<x>> = Append(uart.got, x)
    BY <1>3, <2>1
  <2> QED
    BY <1>1, <1>2, <1>5, <1>6, <2>2, <2>3 DEF Reception
<1>9. Modes(b, prog, line', bc', owed')
  BY <1>1, <1>2, <1>5, <1>6, <1>7 DEF Modes
<1>10. Queue(uart, prog, bc')
  BY <1>2, <1>7 DEF Queue
<1>11. Answers(uart, b, prog, bc', ms)
  BY <1>2, <1>7 DEF Answers
<1>12. Found(b, prog, owed')
  BY <1>2, <1>6 DEF Found, Fresh
<1>13. Requests(uart, b, prog, bc', owed', ms)
  BY <1>2, <1>6, <1>7 DEF Requests
<1>14. Faults(uart, b, bc', ms)
  BY <1>2, <1>7 DEF Faults
<1> QED
  BY <1>1, <1>2, <1>4, <1>6, <1>7, <1>8, <1>9, <1>10, <1>11, <1>12, <1>13, <1>14, Together

---------------------------------------------------------------------------
(* What the Bluecore sends *)

Sending(l, o, c, m, l2, o2, c2) ==
    /\ l = <<>> /\ l2 = Bytes(m) /\ l2 \in Seq(Byte)
    /\ OType(o2) /\ o2.messages = Append(o.messages, m)
    /\ o2.framed = o.framed /\ o2.data = o.data /\ o2.device = o.device
    /\ o2.pin = o.pin /\ o2.connection = o.connection /\ o2.handle = o.handle
    /\ CType(c2) /\ c2.peer = c.peer /\ c2.stream = c.stream /\ c2.arm_cmd = c.arm_cmd
    /\ c2.confused = c.confused /\ c2.faults = c.faults + Harm(m)

LEMMA MessageIs ==
    ASSUME NEW type \in OwnTypes \cup UnaskedTypes, NEW arg \in Args(type), NEW sound \in BOOLEAN
    PROVE  /\ Message(type, arg, sound) \in Msg
           /\ Message(type, arg, sound).type = type /\ Message(type, arg, sound).arg = arg
           /\ Message(type, arg, sound).sound = sound
<1>1. arg \in Devices \cup Peers \cup Values \cup {None}
  BY DEF Args
<1> QED
  BY <1>1 DEF Message, Msg

LEMMA SendsIs ==
    ASSUME BtInv, NEW c, CType(c), NEW type \in OwnTypes \cup UnaskedTypes,
           NEW arg \in Args(type), Sends(c, type, arg)
    PROVE  \E m \in Msg : /\ m.type = type /\ m.arg = arg
                          /\ Sending(line, owed, c, m, line', owed', bc')
<1>1. PICK sound \in BOOLEAN :
           /\ line' = Bytes(Message(type, arg, sound))
           /\ owed' = [owed EXCEPT !.messages = Append(owed.messages, Message(type, arg, sound))]
           /\ bc' = [c EXCEPT !.faults = IF sound THEN c.faults ELSE c.faults + 1]
  BY DEF Sends
<1> DEFINE m == Message(type, arg, sound)
<1>2. m \in Msg /\ m.type = type /\ m.arg = arg /\ m.sound = sound
  BY MessageIs
<1> HIDE DEF m
<1>3. line' \in Seq(Byte)
  <2>1. 0 \in 0..m.size
    BY <1>2, MsgFields
  <2> QED
    BY <1>1, <1>2, <2>1, FromAll, FromShape DEF m
<1>4. OType(owed) /\ owed.messages \in Seq(Msg) /\ Append(owed.messages, m) \in Seq(Msg)
  <2>1. OType(owed) /\ owed.messages \in Seq(Msg)
    BY ParamsOf DEF OType
  <2> QED
    BY <1>2, <2>1, AppendProperties
<1>5. owed' = [owed EXCEPT !.messages = Append(owed.messages, m)]
  BY <1>1 DEF m
<1>6. /\ OType(owed') /\ owed'.messages = Append(owed.messages, m)
      /\ owed'.framed = owed.framed /\ owed'.data = owed.data
      /\ owed'.device = owed.device /\ owed'.pin = owed.pin
      /\ owed'.connection = owed.connection /\ owed'.handle = owed.handle
  BY <1>4, <1>5 DEF OType
<1>7. /\ CType(bc') /\ bc'.peer = c.peer /\ bc'.stream = c.stream /\ bc'.arm_cmd = c.arm_cmd
      /\ bc'.confused = c.confused /\ bc'.faults = c.faults + Harm(m)
  BY <1>1, <1>2 DEF CType, Harm
<1> QED
  BY <1>1, <1>2, <1>3, <1>6, <1>7 DEF Sending, Sends, m

LEMMA AppendedMessages ==
    ASSUME NEW ms \in Seq(Msg), NEW m \in Msg
    PROVE  /\ Append(ms, m) \in Seq(Msg) /\ Append(ms, m) # <<>>
           /\ Len(ms) \in Nat /\ Len(Append(ms, m)) = Len(ms) + 1
           /\ \A i \in 1..Len(Append(ms, m)) :
                  \/ i \in 1..Len(ms) /\ Append(ms, m)[i] = ms[i]
                  \/ i = Len(Append(ms, m)) /\ Append(ms, m)[i] = m
           /\ Append(ms, m)[Len(Append(ms, m))] = m
<1>1. /\ Append(ms, m) \in Seq(Msg) /\ Append(ms, m) # <<>>
      /\ Len(ms) \in Nat /\ Len(Append(ms, m)) = Len(ms) + 1
      /\ \A i \in 1..Len(ms) : Append(ms, m)[i] = ms[i]
      /\ Append(ms, m)[Len(ms) + 1] = m
  BY AppendProperties
<1>2. \A n \in Nat : \A i \in 1..(n + 1) : i \in 1..n \/ i = n + 1
  OBVIOUS
<1> QED
  BY <1>1, <1>2

\* One message more.
LEMMA HarmedAppend ==
    ASSUME NEW ms \in Seq(Msg), NEW m \in Msg, Len(Append(ms, m)) <= 2
    PROVE  Harmed(Append(ms, m)) = Harmed(ms) + Harm(m)
<1> DEFINE n == Len(ms)
           a == Append(ms, m)
<1>1. /\ a # <<>> /\ n \in Nat /\ Len(a) = n + 1 /\ a[n + 1] = m
      /\ \A i \in 1..n : a[i] = ms[i]
  BY AppendProperties, AppendedMessages
<1>2. ms = <<>> <=> n = 0
  BY LenNone, EmptySeq
<1> HIDE DEF n, a
<1>3. n \in {0, 1}
  BY <1>1 DEF a
<1>4. CASE n = 0
  BY <1>1, <1>2, <1>4 DEF Harmed, Harm, a
<1>5. CASE n = 1
  BY <1>1, <1>2, <1>5 DEF Harmed, a, n
<1> QED
  BY <1>3, <1>4, <1>5 DEF a

\* What a message on its way leaves as it was, whatever it says.
LEMMA SendingKeeps ==
    ASSUME BtInv, NEW c, CType(c), NEW m \in Msg,
           Sending(line, owed, c, m, line', owed', bc'),
           UType(uart'), SameReceiver(uart, uart'), UNCHANGED <<bt_state, prog>>,
           ~Deaf(bt_state, prog), prog.at # "lower", prog.call # "nx_bt_stream_open",
           c.faults >= bc.faults, c.arm_cmd = bc.arm_cmd, c.stream = bc.stream,
           Queue(uart', prog, bc'),
           Answers(uart', bt_state, prog, bc', Append(owed.messages, m)),
           Requests(uart', bt_state, prog, bc', owed, Append(owed.messages, m))
    PROVE  BtInv'
<1> DEFINE ms == owed.messages
           b == bt_state
           u == uart
<1>1. /\ UType(u) /\ BType(b) /\ PType(prog) /\ CType(bc) /\ OType(owed)
      /\ Reception(u, b, prog, line, owed) /\ Modes(b, prog, line, bc, owed)
      /\ Found(b, prog, owed) /\ Faults(u, b, bc, ms) /\ ms \in Seq(Msg)
  BY ParamsOf DEF OType
<1>2. /\ line = <<>> /\ line' = Bytes(m) /\ line' \in Seq(Byte) /\ OType(owed')
      /\ owed'.messages = Append(ms, m)
      /\ owed'.framed = owed.framed /\ owed'.data = owed.data
      /\ owed'.device = owed.device /\ owed'.pin = owed.pin
      /\ owed'.connection = owed.connection /\ owed'.handle = owed.handle
      /\ CType(bc') /\ bc'.peer = c.peer /\ bc'.stream = bc.stream
      /\ bc'.arm_cmd = bc.arm_cmd /\ bc'.faults = c.faults + Harm(m)
  BY DEF Sending
<1>3. Frame(u, <<>>, ms)
  BY <1>1, <1>2 DEF Reception
<1>4. Frame(u, line', Append(ms, m))
  BY <1>1, <1>2, <1>3, FrameSends
<1>5. Reception(u, b, prog, line', owed')
  BY <1>1, <1>2, <1>4 DEF Reception
<1>6. Reception(uart', b, prog, line', owed')
  BY <1>5, ReceptionSame
<1>7. Modes(b, prog, line', bc', owed')
  BY <1>1, <1>2 DEF Modes
<1>8. Found(b, prog, owed')
  BY <1>1, <1>2 DEF Found, Fresh
<1>9. Faults(uart', b, bc', owed'.messages)
  <2>1. Append(ms, m) \in Seq(Msg)
    BY <1>1, AppendedMessages
  <2>2. Len(Append(ms, m)) <= 2
    BY <1>4, <2>1, FrameLen
  <2>3. Harmed(Append(ms, m)) = Harmed(ms) + Harm(m)
    BY <1>1, <2>2, HarmedAppend
  <2>4. /\ Harmed(ms) \in Nat /\ Harm(m) \in Nat /\ b.nmb_checksum_errors \in Nat
        /\ bc.faults \in Nat /\ c.faults \in Nat
    BY <1>1, HarmedIs DEF Harm, BType, CType
  <2>5. b.nmb_checksum_errors + (IF u.brk THEN 1 ELSE 0) + Harmed(ms) <= bc.faults
    BY <1>1 DEF Faults
  <2>6. b.nmb_checksum_errors + (IF u.brk THEN 1 ELSE 0) + (Harmed(ms) + Harm(m))
            <= c.faults + Harm(m)
    BY <2>4, <2>5
  <2>7. uart'.brk = u.brk
    BY DEF SameReceiver
  <2> QED
    BY <1>2, <2>2, <2>3, <2>6, <2>7 DEF Faults
<1>10. Requests(uart', b, prog, bc', owed', Append(ms, m))
  BY <1>2 DEF Requests
<1> QED
  BY <1>1, <1>2, <1>6, <1>7, <1>8, <1>9, <1>10, Together

Quietly(c) ==
    \/ prog.call = "none"
    \/ c.peer # bc.peer /\ prog.call \in {"nx_bt_accept_connection", "nx_bt_send_pin"}

RequestsWith(c, type, arg) ==
    \A m \in Msg : m.type = type /\ m.arg = arg =>
        Requests(uart, bt_state, prog, c, owed, Append(owed.messages, m))

\* A message that nobody asked for comes when no call waits.
LEMMA UnaskedKeeps ==
    ASSUME BtInv, Careful, NEW c, CType(c), NEW type \in UnaskedTypes, NEW arg \in Args(type),
           Unasked(c, type, arg), c.faults >= bc.faults, c.arm_cmd = bc.arm_cmd,
           c.stream = bc.stream, c.confused = bc.confused,
           Quietly(c) => RequestsWith(c, type, arg)
    PROVE  BtInv'
<1> DEFINE ms == owed.messages
           b == bt_state
           u == uart
<1>1. /\ ~bc.arm_cmd /\ ~bc.stream /\ Quietly(c) /\ Sends(c, type, arg)
      /\ UNCHANGED <<uart, bt_state, prog>>
  BY RulesKept DEF Unasked, Quietly
<1>2. /\ UType(u) /\ BType(b) /\ PType(prog) /\ CType(bc) /\ OType(owed)
      /\ Modes(b, prog, line, bc, owed) /\ Queue(u, prog, bc)
      /\ Answers(u, b, prog, bc, ms) /\ ms \in Seq(Msg)
  BY ParamsOf DEF OType
<1>3. PICK m \in Msg : /\ m.type = type /\ m.arg = arg
                       /\ Sending(line, owed, c, m, line', owed', bc')
  BY <1>1, SendsIs
<1>4. /\ prog.call \in {"none", "nx_bt_accept_connection", "nx_bt_send_pin"}
      /\ prog.call \notin Results
  BY <1>1, CallsHave, AnsweredAre DEF Quietly, Results
<1>5. /\ prog.at # "lower" /\ prog.at # "raise" /\ b.state # "STREAMING"
  <2>1. b.state # "STREAMING" /\ prog.at # "lower"
    BY <1>1, <1>2 DEF Modes
  <2>2. prog.at # "raise"
    <3>1. CASE prog.call = "none"
      BY <1>2, <3>1, InACall, NoCallPlaces
    <3>2. CASE prog.call # "none"
      BY <1>2, <1>4, <3>2, InACall, PlacesOf
    <3> QED
      BY <3>1, <3>2
  <2> QED
    BY <2>1, <2>2
<1>6. ~Deaf(b, prog)
  BY <1>5 DEF Deaf
<1>7. UType(uart') /\ SameReceiver(uart, uart')
  BY <1>1, <1>2 DEF SameReceiver
<1>8. /\ bc'.peer = c.peer /\ bc'.arm_cmd = bc.arm_cmd /\ bc'.confused = bc.confused
  BY <1>3 DEF Sending
<1>9. Queue(uart', prog, bc')
  BY <1>1, <1>2, <1>8 DEF Queue
<1>10. Answers(uart', b, prog, bc', Append(ms, m))
  <2>1. m.type \notin OwnTypes
    BY <1>3, OwnUnasked
  <2>2. \A i \in 1..Len(Append(ms, m)) : Append(ms, m)[i].type \in OwnTypes =>
            i \in 1..Len(ms) /\ Append(ms, m)[i] = ms[i]
    BY <1>2, <2>1, AppendedMessages
  <2>3. \A i \in 1..Len(ms) : ms[i].type \in OwnTypes =>
            /\ prog.at = "wait" /\ Own(prog, ms[i]) /\ ~Told(b, prog) /\ Nothing(u)
    BY <1>2 DEF Answers
  <2>4. \A i, j \in 1..Len(ms) : ms[i].type \in OwnTypes /\ ms[j].type \in OwnTypes => i = j
    BY <1>2 DEF Answers
  <2>5. prog.call \in Answered /\ (prog.at = "write" \/ u.tcr # NoPacket) => ~Told(b, prog)
    BY <1>2 DEF Answers
  <2>6. \A i \in 1..Len(Append(ms, m)) : Append(ms, m)[i].type \in OwnTypes =>
           /\ prog.at = "wait" /\ Own(prog, Append(ms, m)[i]) /\ ~Told(b, prog) /\ Nothing(u)
    BY <2>2, <2>3
  <2>7. \A i, j \in 1..Len(Append(ms, m)) :
            Append(ms, m)[i].type \in OwnTypes /\ Append(ms, m)[j].type \in OwnTypes => i = j
    BY <2>2, <2>4
  <2> QED
    BY <1>1, <1>4, <2>5, <2>6, <2>7 DEF Answers
<1>11. Requests(uart', b, prog, bc', owed, Append(ms, m))
  <2>1. Requests(u, b, prog, c, owed, Append(ms, m))
    BY <1>1, <1>3 DEF RequestsWith
  <2> QED
    BY <1>1, <1>8, <2>1 DEF Requests
<1>12. prog.call # "nx_bt_stream_open"
  BY <1>4
<1> QED
  BY <1>1, <1>3, <1>5, <1>6, <1>7, <1>9, <1>10, <1>11, <1>12, SendingKeeps

\* Those that ask nothing.
LEMMA RequestsUnasked ==
    ASSUME NEW u, NEW b, NEW p, NEW c, NEW d, NEW o, NEW ms \in Seq(Msg), NEW m \in Msg,
           Requests(u, b, p, c, o, ms), m.type \notin Asked, d.peer = c.peer
    PROVE  Requests(u, b, p, d, o, Append(ms, m))
<1>1. \A i \in 1..Len(Append(ms, m)) : Append(ms, m)[i].type \in Asked =>
          i \in 1..Len(ms) /\ Append(ms, m)[i] = ms[i]
  BY AppendedMessages
<1>2. \A i \in 1..Len(Append(ms, m)) : Append(ms, m)[i].type \in Asked =>
          d.peer = Stage(Append(ms, m)[i].type) /\ Waits(b, Append(ms, m)[i].type) = None
  BY <1>1 DEF Requests
<1>3. \A i, j \in 1..Len(Append(ms, m)) :
          Append(ms, m)[i].type \in Asked /\ Append(ms, m)[j].type \in Asked => i = j
  BY <1>1 DEF Requests
<1>4. p.call = "nx_bt_accept_connection" /\ u.tcr # NoPacket =>
          \A i \in 1..Len(Append(ms, m)) : Append(ms, m)[i].type \notin Asked
  BY <1>1 DEF Requests
<1> QED
  BY <1>2, <1>3, <1>4 DEF Requests

LEMMA WithUnasked ==
    ASSUME BtInv, NEW c, c.peer = bc.peer, NEW type, type \notin Asked, NEW arg
    PROVE  RequestsWith(c, type, arg)
<1>1. Requests(uart, bt_state, prog, bc, owed, owed.messages) /\ owed.messages \in Seq(Msg)
  BY ParamsOf DEF OType
<1> QED
  BY <1>1, RequestsUnasked DEF RequestsWith

LEMMA HeartbeatKeeps ==
    ASSUME BtInv, Careful, Heartbeat
    PROVE  BtInv'
<1>1. CType(bc) /\ bc.faults >= bc.faults
  <2>1. CType(bc)
    BY ParamsOf
  <2>2. bc.faults \in Nat
    BY <2>1 DEF CType
  <2> QED
    BY <2>1, <2>2
<1>2. "HEARTBEAT" \in UnaskedTypes /\ "HEARTBEAT" \notin Asked /\ None \in Args("HEARTBEAT")
  BY DEF UnaskedTypes, Asked, Args
<1>3. RequestsWith(bc, "HEARTBEAT", None)
  BY <1>2, WithUnasked
<1>4. Unasked(bc, "HEARTBEAT", None)
  BY DEF Heartbeat
<1> QED
  BY <1>1, <1>2, <1>3, <1>4, UnaskedKeeps

LEMMA ListKeeps ==
    ASSUME BtInv, Careful, List
    PROVE  BtInv'
<1> DEFINE item == IF bc.listing = "LIST" THEN "LIST_ITEM" ELSE "INQUIRY_RESULT"
           end == IF bc.listing = "LIST" THEN "LIST_DUMP_STOPPED" ELSE "INQUIRY_STOPPED"
           c == [bc EXCEPT !.listing = "none"]
<1>1. CType(bc) /\ bc.faults \in Nat
  BY ParamsOf DEF CType
<1>2. /\ CType(c) /\ c.faults = bc.faults /\ c.arm_cmd = bc.arm_cmd /\ c.stream = bc.stream
      /\ c.confused = bc.confused /\ c.peer = bc.peer
  BY <1>1 DEF CType
<1>3. /\ item \in UnaskedTypes /\ item \notin Asked /\ Args(item) = Devices
      /\ end \in UnaskedTypes /\ end \notin Asked /\ None \in Args(end)
  BY DEF UnaskedTypes, Asked, Args
<1>4. \/ \E d \in Devices : Unasked(bc, item, d)
      \/ Unasked(c, end, None)
  BY DEF List
<1> HIDE DEF item, end, c
<1>5. ASSUME NEW d \in Devices, Unasked(bc, item, d)
      PROVE  BtInv'
  <2>1. RequestsWith(bc, item, d)
    BY <1>3, WithUnasked
  <2>2. d \in Args(item) /\ bc.faults >= bc.faults
    BY <1>1, <1>3
  <2> QED
    BY <1>1, <1>3, <1>5, <2>1, <2>2, UnaskedKeeps
<1>6. ASSUME Unasked(c, end, None)
      PROVE  BtInv'
  <2>1. RequestsWith(c, end, None)
    BY <1>2, <1>3, WithUnasked
  <2>2. c.faults >= bc.faults
    BY <1>1, <1>2
  <2> QED
    BY <1>2, <1>3, <1>6, <2>1, <2>2, UnaskedKeeps
<1> QED
  BY <1>4, <1>5, <1>6

LEMMA ResetKeeps ==
    ASSUME BtInv, Careful, Reset
    PROVE  BtInv'
<1> DEFINE c == [bc EXCEPT !.listing = "none", !.peer = "none", !.faults = bc.faults + 1]
<1>1. CType(bc) /\ bc.faults \in Nat
  BY ParamsOf DEF CType
<1>2. bc.peer = "none" /\ Unasked(c, "RESET_INDICATION", None)
  BY RulesKept DEF Reset, PeerIs
<1>3. /\ CType(c) /\ c.faults >= bc.faults /\ c.arm_cmd = bc.arm_cmd /\ c.stream = bc.stream
      /\ c.confused = bc.confused /\ c.peer = bc.peer
  <2>1. /\ CType(c) /\ c.faults = bc.faults + 1 /\ c.arm_cmd = bc.arm_cmd
        /\ c.stream = bc.stream /\ c.confused = bc.confused /\ c.peer = "none"
    <3> DEFINE n == bc.faults + 1
    <3>1. n \in Nat
      BY <1>1
    <3>2. c = [bc EXCEPT !.listing = "none", !.peer = "none", !.faults = n]
      OBVIOUS
    <3> HIDE DEF n, c
    <3>3. /\ CType(c) /\ c.faults = n /\ c.arm_cmd = bc.arm_cmd
          /\ c.stream = bc.stream /\ c.confused = bc.confused /\ c.peer = "none"
      BY <1>1, <3>1, <3>2 DEF CType
    <3> QED
      BY <3>3 DEF n
  <2> HIDE DEF c
  <2> QED
    BY <1>1, <1>2, <2>1
<1>4. /\ "RESET_INDICATION" \in UnaskedTypes /\ "RESET_INDICATION" \notin Asked
      /\ None \in Args("RESET_INDICATION")
  BY DEF UnaskedTypes, Asked, Args
<1> HIDE DEF c
<1>5. RequestsWith(c, "RESET_INDICATION", None)
  BY <1>3, <1>4, WithUnasked
<1> QED
  BY <1>2, <1>3, <1>4, <1>5, UnaskedKeeps

\* A new request finds no other.
LEMMA RequestsAsked ==
    ASSUME NEW u, NEW b, NEW p, NEW c, NEW o, NEW ms \in Seq(Msg), NEW m \in Msg,
           Requests(u, b, p, c, o, ms), m.type \in Asked,
           \A i \in 1..Len(ms) : ms[i].type \notin Asked,
           c.peer = Stage(m.type), Waits(b, m.type) = None,
           p.call = "nx_bt_accept_connection" => u.tcr = NoPacket
    PROVE  Requests(u, b, p, c, o, Append(ms, m))
<1>1. \A i \in 1..Len(Append(ms, m)) : Append(ms, m)[i].type \in Asked =>
          i = Len(Append(ms, m)) /\ Append(ms, m)[i] = m
  BY AppendedMessages
<1>2. \A i \in 1..Len(Append(ms, m)) : Append(ms, m)[i].type \in Asked =>
          c.peer = Stage(Append(ms, m)[i].type) /\ Waits(b, Append(ms, m)[i].type) = None
  BY <1>1
<1>3. \A i, j \in 1..Len(Append(ms, m)) :
          Append(ms, m)[i].type \in Asked /\ Append(ms, m)[j].type \in Asked => i = j
  BY <1>1
<1> QED
  BY <1>2, <1>3 DEF Requests

\* A step of the one who wants a connection.
PeerGoes(c, stage) == c = [bc EXCEPT !.peer = stage]

LEMMA PeerStep ==
    ASSUME BtInv, Careful, NEW type \in Asked, NEW arg \in Args(type), NEW c,
           PeerGoes(c, Stage(type)), Unasked(c, type, arg),
           bc.peer = CASE type = "REQUEST_CONNECTION" -> "none"
                       [] type = "REQUEST_PIN_CODE" -> "accepted"
                       [] type = "CONNECT_RESULT" -> "paired",
           type = "REQUEST_CONNECTION" => Unpaired
    PROVE  BtInv'
<1> DEFINE ms == owed.messages
           b == bt_state
           u == uart
<1>1. /\ CType(bc) /\ bc.faults \in Nat /\ Requests(u, b, prog, bc, owed, ms)
      /\ ms \in Seq(Msg)
  BY ParamsOf DEF CType, OType
<1>2. type \in {"REQUEST_PIN_CODE", "REQUEST_CONNECTION", "CONNECT_RESULT"}
  BY DEF Asked
<1>3. /\ CType(c) /\ c.faults = bc.faults /\ c.arm_cmd = bc.arm_cmd /\ c.stream = bc.stream
      /\ c.confused = bc.confused /\ c.peer = Stage(type)
  BY <1>1, <1>2 DEF CType, PeerGoes, Stage
<1>4. \A i \in 1..Len(ms) : ms[i].type \notin Asked
  <2>1. CASE type = "REQUEST_CONNECTION"
    <3>1. ms = <<>>
      BY <2>1, SilentMeans DEF Unpaired
    <3> QED
      BY <3>1, LenNone
  <2>2. CASE type # "REQUEST_CONNECTION"
    <3>1. bc.peer \in {"accepted", "paired"}
      BY <1>2, <2>2
    <3>2. \A i \in 1..Len(ms) : ms[i].type \in Asked => bc.peer = Stage(ms[i].type)
      BY <1>1 DEF Requests
    <3> QED
      BY <3>1, <3>2 DEF Asked, Stage
  <2> QED
    BY <2>1, <2>2
<1>5. /\ b.dev_waiting_for_pin # None =>
             /\ bc.peer # "accepted"
             /\ bc.peer = "pin" \/ (prog.call = "nx_bt_send_pin" /\ prog.at # "return")
      /\ b.dev_waiting_for_connection # None =>
            \/ bc.peer = "asks"
            \/ prog.call = "nx_bt_accept_connection" /\ prog.at = "clear" /\ Nothing(u)
      /\ b.new_handle # None => bc.peer = "none"
      /\ prog.call = "nx_bt_send_pin" /\ prog.at # "return" =>
             /\ b.dev_waiting_for_pin # None /\ owed.pin = None
             /\ prog.at # "write" /\ u.tcr = NoPacket
      /\ prog.call = "nx_bt_accept_connection" =>
             /\ prog.at # "write" /\ u.tcr = NoPacket
  <2>1. bc.peer \notin {"pin", "asks"}
    BY <1>2
  <2> QED
    BY <1>1, <2>1 DEF Requests
<1>6. Waits(b, type) = None
  <2>1. CASE type = "REQUEST_CONNECTION"
    BY <2>1 DEF Waits, Unpaired
  <2>2. CASE type = "REQUEST_PIN_CODE"
    BY <1>5, <2>2 DEF Waits
  <2>3. CASE type = "CONNECT_RESULT"
    BY <1>5, <2>3 DEF Waits
  <2> QED
    BY <1>2, <2>1, <2>2, <2>3
<1>7. Requests(u, b, prog, c, owed, ms)
  <2>1. c.peer \in {"pin", "asks", "none"}
    BY <1>2, <1>3 DEF Stage
  <2>2. b.dev_waiting_for_pin # None =>
           /\ c.peer # "accepted"
           /\ c.peer = "pin" \/ (prog.call = "nx_bt_send_pin" /\ prog.at # "return")
    BY <1>2, <1>5, <2>1
  <2>3. b.dev_waiting_for_connection # None =>
           \/ c.peer = "asks"
           \/ prog.call = "nx_bt_accept_connection" /\ prog.at = "clear" /\ Nothing(u)
    BY <1>2, <1>5
  <2>4. b.new_handle # None => c.peer = "none"
    <3>1. CASE type = "REQUEST_CONNECTION"
      BY <3>1 DEF Unpaired
    <3>2. CASE type # "REQUEST_CONNECTION"
      BY <1>2, <1>5, <3>2
    <3> QED
      BY <3>1, <3>2
  <2>5. /\ prog.call = "nx_bt_send_pin" /\ prog.at # "return" =>
               /\ b.dev_waiting_for_pin # None /\ owed.pin = None
               /\ prog.at = "write" \/ u.tcr # NoPacket => c.peer = "pin"
        /\ prog.call = "nx_bt_accept_connection" =>
               /\ prog.at \in {"write", "clear"} =>
                      owed.connection = None /\ b.dev_waiting_for_connection # None
               /\ prog.at = "write" \/ u.tcr # NoPacket => c.peer = "asks"
               /\ u.tcr # NoPacket =>
                      /\ prog.at = "drain" => b.dev_waiting_for_connection = None
                      /\ \A i \in 1..Len(ms) : ms[i].type \notin Asked
    BY <1>1, <1>5 DEF Requests
  <2> QED
    BY <1>1, <1>4, <2>2, <2>3, <2>4, <2>5 DEF Requests
<1>8. RequestsWith(c, type, arg)
  BY <1>1, <1>3, <1>4, <1>5, <1>6, <1>7, RequestsAsked DEF RequestsWith
<1>9. type \in UnaskedTypes /\ c.faults >= bc.faults
  BY <1>1, <1>3 DEF UnaskedTypes
<1> QED
  BY <1>3, <1>8, <1>9, UnaskedKeeps

LEMMA PeerKeeps ==
    ASSUME BtInv, Careful, Peer
    PROVE  BtInv'
<1>1. CASE bc.peer = "none" /\ Unpaired /\ \E d \in Peers :
              Unasked([bc EXCEPT !.peer = "asks"], "REQUEST_CONNECTION", d)
  <2>1. PICK d \in Peers : Unasked([bc EXCEPT !.peer = "asks"], "REQUEST_CONNECTION", d)
    BY <1>1
  <2> DEFINE c == [bc EXCEPT !.peer = "asks"]
  <2>2. PeerGoes(c, Stage("REQUEST_CONNECTION"))
    BY DEF PeerGoes, Stage
  <2>3. d \in Args("REQUEST_CONNECTION") /\ "REQUEST_CONNECTION" \in Asked
    BY DEF Args, Asked
  <2>4. Unasked(c, "REQUEST_CONNECTION", d)
    BY <2>1
  <2> HIDE DEF c
  <2> QED
    BY <1>1, <2>2, <2>3, <2>4, PeerStep
<1>2. CASE bc.peer = "accepted" /\ \E d \in Peers :
              Unasked([bc EXCEPT !.peer = "pin"], "REQUEST_PIN_CODE", d)
  <2>1. PICK d \in Peers : Unasked([bc EXCEPT !.peer = "pin"], "REQUEST_PIN_CODE", d)
    BY <1>2
  <2> DEFINE c == [bc EXCEPT !.peer = "pin"]
  <2>2. PeerGoes(c, Stage("REQUEST_PIN_CODE"))
    BY DEF PeerGoes, Stage
  <2>3. d \in Args("REQUEST_PIN_CODE") /\ "REQUEST_PIN_CODE" \in Asked
    BY DEF Args, Asked
  <2>4. Unasked(c, "REQUEST_PIN_CODE", d)
    BY <2>1
  <2> HIDE DEF c
  <2> QED
    BY <1>2, <2>2, <2>3, <2>4, PeerStep
<1>3. CASE bc.peer = "paired" /\ \E h \in Values \cup {None} :
              Unasked([bc EXCEPT !.peer = "none"], "CONNECT_RESULT", h)
  <2>1. PICK h \in Values \cup {None} :
            Unasked([bc EXCEPT !.peer = "none"], "CONNECT_RESULT", h)
    BY <1>3
  <2> DEFINE c == [bc EXCEPT !.peer = "none"]
  <2>2. PeerGoes(c, Stage("CONNECT_RESULT"))
    BY DEF PeerGoes, Stage
  <2>3. h \in Args("CONNECT_RESULT") /\ "CONNECT_RESULT" \in Asked
    BY DEF Args, Asked
  <2>4. Unasked(c, "CONNECT_RESULT", h)
    BY <2>1
  <2> HIDE DEF c
  <2> QED
    BY <1>3, <2>2, <2>3, <2>4, PeerStep
<1> QED
  BY <1>1, <1>2, <1>3, RulesKept DEF Peer, PeerIs

---------------------------------------------------------------------------
(* A command gets to the Bluecore *)

\* The next packet moves up.
LEMMA SentIs ==
    ASSUME NEW u, UType(u)
    PROVE  /\ UType(Sent(u)) /\ SameReceiver(u, Sent(u))
           /\ Sent(u).tcr = u.tncr /\ Sent(u).tncr = NoPacket
<1>1. NoPacket \in Packet
  BY DEF NoPacket, Packet, Values
<1> QED
  BY <1>1 DEF Sent, UType, SameReceiver

\* The packet that is sent next is the program's, and then the last one, or
\* belongs to no call that waits.
Whose(p, c) ==
    \/ uart.tcr.call \in Loose
    \/ /\ uart.tncr = NoPacket /\ uart.tcr.call = p.call /\ uart.tcr.arg = p.arg
       /\ p.at \in {"wait", "clear", "drain"}
       /\ p.call \in Answered \cup {"nx_bt_accept_connection", "nx_bt_stream_open"}
       /\ p.call \in Answered => p.at = "wait"

\* What the Bluecore gets is a command, whole, and of a call that waits for it.
LEMMA ServedIs ==
    ASSUME BtInv, uart.tcr # NoPacket
    PROVE  /\ Whose(prog, bc)
           /\ uart.tcr \in Packet /\ uart.tcr.framed /\ uart.tcr.whole
           /\ uart.tcr.call # "none"
           /\ uart.tcr.call = "nx_bt_stream_write" <=> bc.arm_cmd
           /\ prog.call \in Answered =>
                  /\ ~Told(bt_state, prog)
                  /\ prog.at = "write" \/ (prog.at = "wait" /\ Pending(uart, prog))
           /\ prog.at # "lower"
           /\ \A i \in 1..Len(owed.messages) : owed.messages[i].type \notin OwnTypes
<1> DEFINE u == uart
           ms == owed.messages
<1>1. /\ UType(u) /\ PType(prog) /\ Modes(bt_state, prog, line, bc, owed)
      /\ Queue(u, prog, bc) /\ Answers(u, bt_state, prog, bc, ms)
  BY ParamsOf
<1>2. ~Nothing(u)
  BY DEF Nothing
<1>3. /\ u.tcr \in Packet /\ u.tcr.framed /\ u.tcr.whole
      /\ u.tcr.call # "none" /\ (u.tcr.call = "nx_bt_stream_write" <=> bc.arm_cmd)
      /\ prog.at # "lower"
  BY <1>1, <1>2 DEF Queue, UType
<1>4. prog.call \in Answered => ~Told(bt_state, prog)
  BY <1>1 DEF Answers
<1>5. \A i \in 1..Len(ms) : ms[i].type \notin OwnTypes
  BY <1>1, <1>2 DEF Answers
<1>6. ASSUME prog.call \in Answered
      PROVE  prog.at = "write" \/ (prog.at = "wait" /\ Pending(u, prog))
  <2>1. prog.call # "nx_bt_stream_open" /\ prog.call # "nx_bt_accept_connection"
    BY <1>6, AnsweredAre
  <2>2. prog.at \in {"write", "wait", "clear", "drain"}
    BY <1>1, <1>2, <1>6, <2>1 DEF Queue
  <2>3. prog.at \in {"clear", "drain"} => prog.call = "nx_bt_send_pin" /\ prog.at = "clear"
    BY <1>1, <1>6, <2>1, InACall, PlacesOf, CallsHave
  <2> QED
    BY <1>1, <1>2, <1>6, <2>2, <2>3 DEF Queue
<1>7. Whose(prog, bc)
  <2>1. CASE AllLoose(u)
    BY <2>1 DEF Whose, AllLoose
  <2>2. CASE ~AllLoose(u)
    <3>1. prog.call \in Answered \cup {"nx_bt_accept_connection", "nx_bt_stream_open"}
      BY <1>1, <2>2 DEF Queue
    <3>2. prog.at \in {"wait", "clear", "drain"} /\ Pending(u, prog)
      BY <1>1, <1>2, <2>2, <3>1 DEF Queue
    <3>3. prog.call \in Answered => prog.at = "wait"
      BY <1>6, <3>2
    <3> QED
      BY <3>1, <3>2, <3>3 DEF Whose, Pending, Latest
  <2> QED
    BY <2>1, <2>2
<1> QED
  BY <1>3, <1>4, <1>5, <1>6, <1>7

\* What is left in the transmitter.
LEMMA ServeQueue ==
    ASSUME NEW u, NEW v, NEW p, NEW c, NEW d, Queue(u, p, c), u.tcr # NoPacket,
           v.tcr = u.tncr, v.tncr = NoPacket, d.arm_cmd = c.arm_cmd, d.confused = c.confused
    PROVE  Queue(v, p, d)
<1>1. ~Nothing(u)
  BY DEF Nothing
<1>2. Pending(u, p) => Nothing(v) \/ Pending(v, p)
  BY DEF Pending, Latest, Nothing
<1>3. AllLoose(u) => AllLoose(v)
  BY DEF AllLoose
<1>4. \A q \in {v.tcr, v.tncr} :
           /\ q.framed /\ q.whole
           /\ q # NoPacket => /\ q.call # "none"
                              /\ q.call = "nx_bt_stream_write" <=> d.arm_cmd
  BY DEF Queue, NoPacket
<1>5. CASE p.call \in Answered \cup {"nx_bt_accept_connection", "nx_bt_stream_open"}
  <2>1. CASE p.at = "write"
    BY <1>1, <1>3, <1>4, <1>5, <2>1 DEF Queue
  <2>2. CASE p.at \in {"wait", "clear", "drain"}
    BY <1>1, <1>2, <1>4, <1>5, <2>2 DEF Queue
  <2>3. CASE p.at \notin {"write", "wait", "clear", "drain"}
    <3>1. p.at = "return" /\ p.call = "nx_bt_stream_open" /\ AllLoose(u)
      BY <1>1, <1>5, <2>3 DEF Queue
    <3> QED
      BY <1>1, <1>3, <1>4, <1>5, <3>1 DEF Queue
  <2> QED
    BY <2>1, <2>2, <2>3
<1>6. CASE p.call \notin Answered \cup {"nx_bt_accept_connection", "nx_bt_stream_open"}
  BY <1>1, <1>3, <1>4, <1>6 DEF Queue
<1> QED
  BY <1>5, <1>6

\* What a command makes of the Bluecore.
LEMMA CommandedIs ==
    ASSUME NEW q \in Packet, CType(bc)
    PROVE  /\ CType(Commanded(q))
           /\ Commanded(q).arm_cmd = bc.arm_cmd /\ Commanded(q).confused = bc.confused
           /\ Commanded(q).faults = bc.faults
           /\ Commanded(q).stream = (bc.stream \/ q.call = "nx_bt_stream_open")
           /\ q.call = "nx_bt_accept_connection" => Commanded(q).peer \in {"accepted", "none"}
           /\ q.call = "nx_bt_send_pin" => Commanded(q).peer = "paired"
           /\ q.call \notin {"nx_bt_accept_connection", "nx_bt_send_pin"} =>
                  Commanded(q).peer = bc.peer
BY DEF Commanded, CType

\* What the answered packet is no more waited for, and what the Bluecore makes of it.
LEMMA ServeRequests ==
    ASSUME BtInv, uart.tcr # NoPacket, NEW v, v.tcr = uart.tncr, v.tncr = NoPacket
    PROVE  Requests(v, bt_state, prog, Commanded(uart.tcr), owed, owed.messages)
<1> DEFINE u == uart
           b == bt_state
           ms == owed.messages
           q == u.tcr
           c == Commanded(q)
<1>1. /\ UType(u) /\ PType(prog) /\ CType(bc) /\ Queue(u, prog, bc)
      /\ Requests(u, b, prog, bc, owed, ms)
  BY ParamsOf
<1>2. Whose(prog, bc) /\ q \in Packet
  BY ServedIs
<1>3. /\ q.call = "nx_bt_accept_connection" => c.peer \in {"accepted", "none"}
      /\ q.call = "nx_bt_send_pin" => c.peer = "paired"
      /\ q.call \notin {"nx_bt_accept_connection", "nx_bt_send_pin"} => c.peer = bc.peer
  BY <1>1, <1>2, CommandedIs
<1>4. ~Nothing(u)
  BY DEF Nothing
<1> SUFFICES Requests(v, b, prog, c, owed, ms)
  OBVIOUS
<1> HIDE DEF c
<1>5. CASE q.call \notin {"nx_bt_accept_connection", "nx_bt_send_pin"}
  <2>1. c.peer = bc.peer
    BY <1>3, <1>5
  <2>2. \A i \in 1..Len(ms) : ms[i].type \in Asked =>
            c.peer = Stage(ms[i].type) /\ Waits(b, ms[i].type) = None
    BY <1>1, <2>1 DEF Requests
  <2>3. b.dev_waiting_for_pin # None =>
            /\ c.peer # "accepted"
            /\ c.peer = "pin" \/ (prog.call = "nx_bt_send_pin" /\ prog.at # "return")
    BY <1>1, <2>1 DEF Requests
  <2>4. b.dev_waiting_for_connection # None => c.peer = "asks"
    BY <1>1, <1>4, <2>1 DEF Requests
  <2>5. b.new_handle # None => c.peer = "none"
    BY <1>1, <2>1 DEF Requests
  <2>6. prog.call = "nx_bt_send_pin" /\ prog.at # "return" =>
            /\ b.dev_waiting_for_pin # None /\ owed.pin = None
            /\ c.peer = "pin"
    BY <1>1, <2>1 DEF Requests
  <2>7. prog.call = "nx_bt_accept_connection" =>
            /\ prog.at \in {"write", "clear"} =>
                   owed.connection = None /\ b.dev_waiting_for_connection # None
            /\ c.peer = "asks"
            /\ prog.at = "drain" => b.dev_waiting_for_connection = None
            /\ \A i \in 1..Len(ms) : ms[i].type \notin Asked
    BY <1>1, <2>1 DEF Requests
  <2> QED
    BY <1>1, <2>2, <2>3, <2>4, <2>5, <2>6, <2>7 DEF Requests
<1>6. CASE q.call = "nx_bt_accept_connection"
  <2>1. /\ prog.call = "nx_bt_accept_connection" /\ v.tcr = NoPacket /\ Nothing(v)
        /\ prog.at \in {"wait", "clear", "drain"}
    BY <1>2, <1>6 DEF Whose, Loose, Nothing
  <2>2. prog.at \in {"clear", "drain"}
    BY <1>1, <2>1, InACall, PlacesOf, AnsweredAre
  <2>3. bc.peer = "asks" /\ \A i \in 1..Len(ms) : ms[i].type \notin Asked
    BY <1>1, <2>1 DEF Requests
  <2>4. b.dev_waiting_for_pin = None /\ b.new_handle = None
    BY <1>1, <2>1, <2>3 DEF Requests
  <2>5. prog.at = "drain" => b.dev_waiting_for_connection = None
    BY <1>1, <2>1 DEF Requests
  <2>6. \A i \in 1..Len(ms) : ms[i].type \in Asked =>
            c.peer = Stage(ms[i].type) /\ Waits(b, ms[i].type) = None
    BY <2>3
  <2>7. prog.at = "clear" => owed.connection = None /\ b.dev_waiting_for_connection # None
    BY <1>1, <2>1 DEF Requests
  <2>8. \A i, j \in 1..Len(ms) : ms[i].type \in Asked /\ ms[j].type \in Asked => i = j
    BY <2>3
  <2>9. /\ owed.pin # None => b.dev_waiting_for_pin = owed.pin
        /\ owed.connection # None => b.dev_waiting_for_connection = owed.connection
        /\ owed.handle # None => b.new_handle = owed.handle
        /\ prog.at = "established" => b.new_handle # None /\ owed.handle = None
    BY <1>1 DEF Requests
  <2> QED
    BY <2>1, <2>2, <2>4, <2>5, <2>6, <2>7, <2>8, <2>9 DEF Requests
<1>7. CASE q.call = "nx_bt_send_pin"
  <2>1. /\ prog.call = "nx_bt_send_pin" /\ v.tcr = NoPacket
        /\ prog.at = "wait"
    BY <1>2, <1>7, AnsweredAre DEF Whose, Loose
  <2>2. bc.peer = "pin" /\ b.dev_waiting_for_pin # None /\ owed.pin = None
    BY <1>1, <2>1 DEF Requests
  <2>3. \A i \in 1..Len(ms) : ms[i].type \notin Asked
    BY <1>1, <2>2 DEF Requests, Asked, Stage, Waits
  <2>4. b.dev_waiting_for_connection = None /\ b.new_handle = None
    BY <1>1, <2>1, <2>2 DEF Requests
  <2> QED
    BY <1>1, <1>3, <1>7, <2>1, <2>2, <2>3, <2>4 DEF Requests
<1> QED
  BY <1>5, <1>6, <1>7

LEMMA ServePending ==
    ASSUME NEW u, NEW v, NEW p, Pending(u, p), v.tcr = u.tncr, v.tncr = NoPacket,
           u.tcr.call # p.call
    PROVE  Pending(v, p)
BY DEF Pending, Latest

\* A command that nothing answers.
LEMMA ServeUnanswered ==
    ASSUME BtInv, uart.tcr # NoPacket, uart.tcr.call \notin DOMAIN Answer, uart' = Sent(uart),
           bc' = Commanded(uart.tcr), UNCHANGED <<bt_state, prog, line, owed>>
    PROVE  BtInv'
<1> DEFINE u == uart
           v == Sent(uart)
           b == bt_state
           ms == owed.messages
           q == u.tcr
           c == Commanded(q)
<1>1. /\ UType(u) /\ BType(b) /\ PType(prog) /\ CType(bc) /\ OType(owed) /\ line \in Seq(Byte)
      /\ Reception(u, b, prog, line, owed) /\ Modes(b, prog, line, bc, owed)
      /\ Queue(u, prog, bc) /\ Answers(u, b, prog, bc, ms) /\ Found(b, prog, owed)
      /\ Faults(u, b, bc, ms)
  BY ParamsOf
<1>2. /\ UType(v) /\ SameReceiver(u, v) /\ v.tcr = u.tncr /\ v.tncr = NoPacket
  BY <1>1, SentIs
<1>3. /\ Whose(prog, bc) /\ q \in Packet
      /\ prog.call \in Answered =>
             /\ ~Told(b, prog)
             /\ prog.at = "write" \/ (prog.at = "wait" /\ Pending(u, prog))
      /\ \A i \in 1..Len(ms) : ms[i].type \notin OwnTypes
  BY ServedIs
<1>4. /\ CType(c) /\ c.arm_cmd = bc.arm_cmd /\ c.confused = bc.confused
      /\ c.faults = bc.faults /\ c.stream = (bc.stream \/ q.call = "nx_bt_stream_open")
  BY <1>1, <1>3, CommandedIs
<1>5. Requests(v, b, prog, c, owed, ms)
  BY <1>2, ServeRequests
<1>6. uart' = v /\ bc' = c /\ bt_state' = b /\ prog' = prog /\ line' = line /\ owed' = owed
  OBVIOUS
<1> HIDE DEF v, c
<1>7. Reception(v, b, prog, line, owed)
  BY <1>1, <1>2, ReceptionSame
<1>8. Modes(b, prog, line, c, owed)
  <2>1. q.call = "nx_bt_stream_open" => prog.call = "nx_bt_stream_open" /\ prog.at = "drain"
    <3>1. ASSUME q.call = "nx_bt_stream_open"
          PROVE  prog.call = "nx_bt_stream_open" /\ prog.at \in {"wait", "clear", "drain"}
      BY <1>3, <3>1 DEF Whose, Loose
    <3>2. prog.call = "nx_bt_stream_open" => prog.at \notin {"wait", "clear"}
      BY <1>1, InACall, PlacesOf, AnsweredAre
    <3> QED
      BY <3>1, <3>2
  <2> QED
    BY <1>1, <1>4, <2>1 DEF Modes
<1>9. Queue(v, prog, c)
  BY <1>1, <1>2, <1>4, ServeQueue
<1>10. Answers(v, b, prog, c, ms)
  <2>1. prog.call \in Results /\ prog.at \in {"wait", "check", "compare", "read"} =>
            prog.at = "wait" /\ Pending(v, prog)
    <3>1. ASSUME prog.call \in Results, prog.at \in {"wait", "check", "compare", "read"}
          PROVE  prog.at = "wait" /\ Pending(v, prog)
      <4>1. prog.at = "wait" /\ Pending(u, prog) /\ prog.call \in DOMAIN Answer
        BY <1>3, <3>1, CallsHave DEF Answered
      <4> QED
        BY <1>2, <4>1, ServePending
    <3> QED
      BY <3>1
  <2>2. prog.call \in Results => prog.at \notin {"compare", "read", "return"}
    BY <1>3, CallsHave
  <2> QED
    BY <1>3, <2>1, <2>2 DEF Answers
<1>11. Faults(v, b, c, ms)
  BY <1>1, <1>2, <1>4 DEF Faults, SameReceiver
<1> QED
  BY <1>1, <1>2, <1>4, <1>5, <1>6, <1>7, <1>8, <1>9, <1>10, <1>11, Together

\* What answers a command: the call that waits for it, or none.
LEMMA ServeAnswers ==
    ASSUME BtInv, uart.tcr # NoPacket, uart.tcr.call \in DOMAIN Answer,
           NEW v, v.tcr = uart.tncr, v.tncr = NoPacket, NEW d, NEW m \in Msg,
           m.type = Answer[uart.tcr.call],
           m.arg = IF uart.tcr.call \in Results THEN uart.tcr.arg ELSE None
    PROVE  Answers(v, bt_state, prog, d, Append(owed.messages, m))
<1> DEFINE u == uart
           b == bt_state
           ms == owed.messages
           ns == Append(ms, m)
           q == u.tcr
<1>1. ms \in Seq(Msg)
  BY ParamsOf DEF OType
<1>2. /\ Whose(prog, bc)
      /\ prog.call \in Answered =>
             /\ ~Told(b, prog)
             /\ prog.at = "write" \/ (prog.at = "wait" /\ Pending(u, prog))
      /\ \A i \in 1..Len(ms) : ms[i].type \notin OwnTypes
  BY ServedIs
<1>3. /\ ns # <<>> /\ ns[Len(ns)] = m
      /\ \A i \in 1..Len(ns) : ns[i].type \in OwnTypes => i = Len(ns) /\ ns[i] = m
  BY <1>1, <1>2, AppendedMessages
<1>4. prog.call \in Results => prog.at \notin {"check", "compare", "read", "return"}
  BY <1>2, CallsHave
<1> HIDE DEF ns
<1>5. CASE q.call \in Loose
  <2>1. q.call = "nx_bt_cancel_inquiry"
    <3>1. DOMAIN Answer = Answered \cup {"nx_bt_cancel_inquiry"}
      BY AnswerDomain
    <3>2. q.call \notin {"nx_bt_begin_known_devices_dumping", "nx_bt_stream_write"}
      BY <3>1, AnsweredAre
    <3> QED
      BY <1>5, <3>2 DEF Loose
  <2>2. m.type \notin OwnTypes
    BY <2>1, OwnUnasked DEF Answer
  <2>3. \A i \in 1..Len(ns) : ns[i].type \notin OwnTypes
    BY <1>3, <2>2
  <2>4. prog.call \in Results /\ prog.at = "wait" => Pending(v, prog)
    <3>1. prog.call \in Results => prog.call # q.call
      BY <2>1, CallsHave
    <3> QED
      BY <1>2, <3>1, CallsHave, ServePending
  <2> QED
    BY <1>2, <1>4, <2>3, <2>4 DEF Answers, ns
<1>6. CASE q.call \notin Loose
  <2>1. /\ u.tncr = NoPacket /\ q.call = prog.call /\ q.arg = prog.arg
        /\ prog.call \in Answered /\ prog.at = "wait" /\ Nothing(v)
    BY <1>2, <1>6 DEF Whose, Nothing, Loose, Answered
  <2>2. Own(prog, m)
    BY <2>1 DEF Own
  <2>3. \A i \in 1..Len(ns) : ns[i].type \in OwnTypes =>
            /\ prog.at = "wait" /\ Own(prog, ns[i]) /\ ~Told(b, prog) /\ Nothing(v)
            /\ prog.call \in Results => i = Len(ns) /\ ns[i].arg = prog.arg
    BY <1>2, <1>3, <2>1, <2>2
  <2>4. \A i, j \in 1..Len(ns) : ns[i].type \in OwnTypes /\ ns[j].type \in OwnTypes => i = j
    BY <1>3
  <2>5. ns # <<>> /\ ns[Len(ns)].type = Answer[prog.call]
    BY <1>3, <2>1
  <2>6. prog.call \in Answered => ~Told(b, prog)
    BY <1>2
  <2> QED
    BY <1>4, <2>1, <2>3, <2>4, <2>5, <2>6 DEF Answers, ns
<1> QED
  BY <1>5, <1>6

\* A command that is answered.
LEMMA ServeAnswered ==
    ASSUME BtInv, uart.tcr # NoPacket, uart.tcr.call \in DOMAIN Answer, uart' = Sent(uart),
           Sends(Commanded(uart.tcr), Answer[uart.tcr.call],
                 IF uart.tcr.call \in Results THEN uart.tcr.arg ELSE None),
           UNCHANGED <<bt_state, prog>>
    PROVE  BtInv'
<1> DEFINE u == uart
           v == Sent(uart)
           b == bt_state
           ms == owed.messages
           q == u.tcr
           c == Commanded(q)
           type == Answer[q.call]
           arg == IF q.call \in Results THEN q.arg ELSE None
<1>1. /\ UType(u) /\ PType(prog) /\ CType(bc) /\ OType(owed)
      /\ Modes(b, prog, line, bc, owed) /\ Queue(u, prog, bc)
      /\ ms \in Seq(Msg)
  BY ParamsOf DEF OType
<1>2. /\ UType(v) /\ SameReceiver(u, v) /\ v.tcr = u.tncr /\ v.tncr = NoPacket
  BY <1>1, SentIs
<1>3. /\ Whose(prog, bc) /\ q \in Packet /\ prog.at # "lower"
      /\ q.call = "nx_bt_stream_write" <=> bc.arm_cmd
  BY ServedIs
<1>4. /\ CType(c) /\ c.arm_cmd = bc.arm_cmd /\ c.confused = bc.confused
      /\ c.faults = bc.faults /\ c.stream = (bc.stream \/ q.call = "nx_bt_stream_open")
  BY <1>1, <1>3, CommandedIs
<1>5. /\ q.call # "nx_bt_stream_open" /\ q.call # "nx_bt_stream_write"
      /\ q.call # "nx_bt_accept_connection"
  BY AnswerDomain, AnsweredAre
<1>6. type \in OwnTypes \cup UnaskedTypes /\ type \notin Asked /\ arg \in Args(type)
  <2>1. CASE q.call \in Answered
    <3>1. type \in OwnTypes
      BY <2>1 DEF OwnTypes
    <3>2. type \notin UnaskedTypes /\ type \notin Asked
      BY <3>1, OwnUnasked DEF UnaskedTypes
    <3>3. Args(type) = Values \cup {None}
      BY <3>2 DEF Args, UnaskedTypes, Asked
    <3>4. q.arg \in Values
      BY <1>3 DEF Packet
    <3> QED
      BY <3>1, <3>2, <3>3, <3>4
  <2>2. CASE q.call \notin Answered
    <3>1. q.call = "nx_bt_cancel_inquiry" /\ q.call \notin Results
      BY <2>2, CallsHave DEF Answered
    <3>2. type = "INQUIRY_STOPPED" /\ arg = None
      BY <3>1 DEF Answer
    <3> QED
      BY <3>2 DEF UnaskedTypes, Asked, Args
  <2> QED
    BY <2>1, <2>2
<1>7. Sends(c, type, arg)
  OBVIOUS
<1>8. Requests(v, b, prog, c, owed, ms)
  BY <1>2, ServeRequests
<1>9. uart' = v
  OBVIOUS
<1> HIDE DEF v, c
<1>10. ASSUME NEW m \in Msg, m.type = type, m.arg = arg
       PROVE  Answers(v, b, prog, bc', Append(ms, m))
  BY <1>2, <1>10, ServeAnswers
<1> HIDE DEF type, arg
<1>11. PICK m \in Msg : /\ m.type = type /\ m.arg = arg
                        /\ Sending(line, owed, c, m, line', owed', bc')
  BY <1>4, <1>6, <1>7, SendsIs
<1>12. /\ bc'.peer = c.peer /\ bc'.arm_cmd = c.arm_cmd /\ bc'.confused = c.confused
  BY <1>11 DEF Sending
<1>13. prog.call # "nx_bt_stream_open"
  <2>1. ASSUME prog.call = "nx_bt_stream_open"
        PROVE  FALSE
    <3>1. q.call \in Loose
      BY <1>3, <1>5, <2>1 DEF Whose
    <3>2. ~Nothing(u)
      BY DEF Nothing
    <3>3. ~Pending(u, prog) \/ u.tncr # NoPacket
      BY <1>5, <2>1 DEF Pending, Latest
    <3>4. prog.at # "write"
      BY <1>1, <2>1, <3>2 DEF Queue
    <3>5. prog.at \notin {"wait", "clear", "drain"}
      <4>1. prog.at \notin {"wait", "clear"}
        BY <1>1, <2>1, InACall, PlacesOf, AnsweredAre
      <4>2. prog.at = "drain" => u.tncr = NoPacket /\ Pending(u, prog)
        BY <1>1, <2>1, <3>2 DEF Queue
      <4> QED
        BY <3>3, <4>1, <4>2
    <3>6. prog.at = "return"
      BY <1>1, <2>1, <3>2, <3>4, <3>5 DEF Queue
    <3> QED
      BY <1>1, <1>3, <1>5, <2>1, <3>6 DEF Modes
  <2> QED
    BY <2>1
<1>14. ~Deaf(b, prog)
  <2>1. b.state # "STREAMING"
    BY <1>1, <1>3, <1>5 DEF Modes
  <2>2. prog.at # "raise"
    <3>1. CASE prog.call = "none"
      BY <1>1, <3>1, InACall, NoCallPlaces
    <3>2. CASE prog.call # "none"
      BY <1>1, <1>13, <3>2, InACall, PlacesOf
    <3> QED
      BY <3>1, <3>2
  <2> QED
    BY <2>1, <2>2 DEF Deaf
<1>15. Queue(v, prog, bc')
  BY <1>1, <1>2, <1>4, <1>12, ServeQueue
<1>16. Requests(v, b, prog, bc', owed, Append(ms, m))
  BY <1>1, <1>6, <1>8, <1>11, <1>12, RequestsUnasked
<1>17. c.stream = bc.stream /\ c.faults >= bc.faults
  <2>1. bc.stream \in BOOLEAN /\ bc.faults \in Nat
    BY <1>1 DEF CType
  <2> QED
    BY <1>4, <1>5, <2>1
<1>18. Answers(v, b, prog, bc', Append(ms, m))
  BY <1>10, <1>11
<1> QED
  BY <1>2, <1>3, <1>4, <1>9, <1>11, <1>13, <1>14, <1>15, <1>16, <1>17, <1>18, SendingKeeps

LEMMA ServeKeeps ==
    ASSUME BtInv, Serve
    PROVE  BtInv'
<1>1. uart.tcr # NoPacket /\ uart' = Sent(uart) /\ UNCHANGED <<bt_state, prog>>
  BY DEF Serve, IsWriting
<1>2. /\ uart.tcr.framed /\ uart.tcr.whole
      /\ uart.tcr.call = "nx_bt_stream_write" <=> bc.arm_cmd
  BY <1>1, ServedIs
<1>3. CASE uart.tcr.call \notin DOMAIN Answer
  <2>1. bc' = Commanded(uart.tcr) /\ UNCHANGED <<line, owed>>
    BY <1>2, <1>3 DEF Serve
  <2> QED
    BY <1>1, <1>3, <2>1, ServeUnanswered
<1>4. CASE uart.tcr.call \in DOMAIN Answer
  <2>1. Sends(Commanded(uart.tcr), Answer[uart.tcr.call],
              IF uart.tcr.call \in Results THEN uart.tcr.arg ELSE None)
    BY <1>2, <1>4 DEF Serve
  <2> QED
    BY <1>1, <1>4, <2>1, ServeAnswered
<1> QED
  BY <1>3, <1>4

---------------------------------------------------------------------------
(* The invariant and what it says *)

\* At the start everything rests.
LEMMA InitKeeps ==
    ASSUME Careful, Init
    PROVE  BtInv
<1>1. uart = UartInit /\ bt_state = NewBtState /\ line = <<>>
  BY DEF Init
<1>2. /\ bc.peer = "none" /\ ~bc.stream /\ ~bc.arm_cmd /\ bc.faults = 0 /\ ~bc.confused
      /\ CType(bc)
  BY DEF Init, CType
<1>3. /\ owed.messages = <<>> /\ owed.framed /\ owed.device = None /\ owed.pin = None
      /\ owed.connection = None /\ owed.handle = None /\ owed.data = <<>> /\ OType(owed)
  BY DEF Init, OType
<1>4. PICK calls \in Programs :
          prog = [calls |-> calls, at |-> "idle", call |-> "none", arg |-> None, got |-> <<>>]
  BY DEF Init
<1>5. prog.at = "idle" /\ prog.call = "none" /\ prog.got = <<>> /\ PType(prog)
  <2>1. calls \in SUBSET (Calls \ Headless)
    BY BluetoothAssumption DEF Careful, Calls
  <2>2. prog \in [calls : SUBSET (Calls \ Headless), at : AnyPlace, call : Calls \cup {"none"},
                  arg : Values \cup {None},
                  got : Seq(Devices \cup Values \cup {None, "failed"})]
    BY <1>4, <2>1 DEF AnyPlace
  <2>3. prog.at = "idle" /\ prog.call = "none" /\ prog.got = <<>>
    BY <1>4
  <2> QED
    BY <2>2, <2>3, NoCallPlaces DEF PType
<1>6. "none" \notin Answered /\ "none" \notin Results
  BY CallsHave
<1>7. /\ UType(uart) /\ Nothing(uart) /\ ~uart.brk
      /\ Frame(uart, <<>>, <<>>) /\ uart.tcr.framed /\ uart.tcr.whole
      /\ uart.tncr.framed /\ uart.tncr.whole
  <2>1. BufSize \in Nat
    BY UartAssumption
  <2>2. NoPacket \in Packet /\ NoByte \in Byte /\ NoPacket.framed /\ NoPacket.whole
    BY DEF NoPacket, Packet, Values, Byte
  <2>3. {"RXRDY", "RXBRK"} \in SUBSET Interrupts
    BY DEF Interrupts
  <2>4. UType(uart)
    BY <1>1, <2>1, <2>2, <2>3 DEF UartInit, UType
  <2>5. Resting(uart, <<>>, <<>>) /\ "RXBRK" \in uart.ier
    BY <1>1 DEF UartInit, Resting, After
  <2> QED
    BY <1>1, <2>2, <2>4, <2>5 DEF UartInit, Frame, Nothing
<1>8. /\ BType(bt_state) /\ bt_state.state = "WAITING" /\ bt_state.new_handle = None
      /\ bt_state.dev_waiting_for_pin = None /\ bt_state.dev_waiting_for_connection = None
      /\ bt_state.nmb_checksum_errors = 0 /\ bt_state.last_checked_id = bt_state.remote_id
  BY <1>1 DEF NewBtState, BType
<1>9. Len(owed.messages) = 0
  BY <1>3, LenNone
<1>10. Reception(uart, bt_state, prog, line, owed)
  BY <1>1, <1>3, <1>5, <1>7, <1>8 DEF Reception, Deaf
<1>11. Modes(bt_state, prog, line, bc, owed)
  BY <1>2, <1>3, <1>5, <1>8 DEF Modes
<1>12. Queue(uart, prog, bc)
  BY <1>2, <1>5, <1>6, <1>7 DEF Queue, Nothing, AllLoose
<1>13. Answers(uart, bt_state, prog, bc, owed.messages)
  BY <1>5, <1>6, <1>9 DEF Answers
<1>14. Found(bt_state, prog, owed)
  BY <1>5, <1>8 DEF Found, Listing, Listings
<1>15. Requests(uart, bt_state, prog, bc, owed, owed.messages)
  BY <1>3, <1>5, <1>8, <1>9 DEF Requests
<1>16. Faults(uart, bt_state, bc, owed.messages)
  BY <1>2, <1>3, <1>7, <1>8, <1>9 DEF Faults, Harmed
<1>17. line \in Seq(Byte)
  BY <1>1
<1> QED
  BY <1>2, <1>3, <1>5, <1>7, <1>8, <1>10, <1>11, <1>12, <1>13, <1>14, <1>15, <1>16, <1>17
     DEF BtInv, Typed, InReception, InModes, InQueue, InAnswers, InFound, InRequests, InFaults

LEMMA NextKeeps ==
    ASSUME BtInv, Careful, [Next]_vars
    PROVE  BtInv'
<1>1. CASE Isr
  BY <1>1, IsrKeeps
<1>2. CASE Program
  <2>1. CASE InCall
    <3>1. CASE \/ Write \/ Wait \/ Timeout \/ Check \/ Compare \/ Read
               \/ ResetId \/ SetState \/ Clear
      BY <3>1, WriteKeeps, WaitKeeps, TimeoutKeeps, CheckKeeps, CompareKeeps, ReadKeeps,
         ResetIdKeeps, SetStateKeeps, ClearKeeps
    <3>2. CASE Drain \/ Mute \/ Raise \/ Return
      BY <3>2, DrainKeeps, MuteKeeps, RaiseKeeps, ReturnKeeps
    <3>3. CASE CopyDevice \/ CheckId \/ ResetHandle \/ Lower
      BY <3>3, CopyDeviceKeeps, CheckIdKeeps, ResetHandleKeeps, LowerKeeps
    <3> QED
      BY <2>1, <3>1, <3>2, <3>3 DEF InCall
  <2>2. CASE Call \/ GetDevice \/ ReadHandle
    BY <2>2, CallKeeps, GetDeviceKeeps, ReadHandleKeeps
  <2>3. CASE StreamRead \/ StreamWrite \/ StreamClose
    BY <2>3, StreamReadKeeps, StreamWriteKeeps, StreamCloseKeeps
  <2> QED
    BY <1>2, <2>1, <2>2, <2>3 DEF Program
<1>3. CASE Deliver \/ Serve
  BY <1>3, DeliverKeeps, ServeKeeps
<1>4. CASE Heartbeat \/ List \/ Peer \/ Reset
  BY <1>4, HeartbeatKeeps, ListKeeps, PeerKeeps, ResetKeeps
<1>5. CASE Break \/ Stream
  BY <1>5, BreakKeeps, StreamKeeps
<1>6. CASE UNCHANGED vars
  <2>1. UNCHANGED <<uart, bt_state, prog, line, bc, owed>>
    BY <1>6 DEF vars
  <2> QED
    BY <2>1, ParamsOf, Together
<1> QED
  BY <1>1, <1>2, <1>3, <1>4, <1>5, <1>6 DEF Next

\* The properties follow.
LEMMA CallsOfInv ==
    ASSUME BtInv
    PROVE  CallsTrue
<1>1. PType(prog) /\ Queue(uart, prog, bc)
      /\ Answers(uart, bt_state, prog, bc, owed.messages)
  BY ParamsOf
<1>2. CommandsWhole
  BY <1>1 DEF Queue, CommandsWhole
<1>3. AnswersOwn
  BY <1>1 DEF Answers, AnswersOwn, At
<1> QED
  BY <1>2, <1>3 DEF CallsTrue

LEMMA MessagesOfInv ==
    ASSUME BtInv
    PROVE  MessagesTrue
<1>1. /\ UType(uart) /\ BType(bt_state) /\ CType(bc) /\ OType(owed)
      /\ Reception(uart, bt_state, prog, line, owed) /\ Found(bt_state, prog, owed)
      /\ Requests(uart, bt_state, prog, bc, owed, owed.messages)
      /\ Faults(uart, bt_state, bc, owed.messages)
  BY ParamsOf
<1>2. owed.framed
  BY <1>1 DEF Reception
<1>3. bt_state.nmb_checksum_errors <= bc.faults
  <2> DEFINE harmed == Harmed(owed.messages)
             broken == IF uart.brk THEN 1 ELSE 0
             errors == bt_state.nmb_checksum_errors
             faults == bc.faults
  <2>1. harmed \in Nat /\ errors \in Nat /\ faults \in Nat /\ broken \in Nat
    BY <1>1, HarmedIs DEF Faults, OType, BType, CType
  <2>2. errors + broken + harmed <= faults
    BY <1>1 DEF Faults
  <2> HIDE DEF harmed, broken, errors, faults
  <2>3. errors <= faults
    BY <2>1, <2>2
  <2> QED
    BY <2>3 DEF errors, faults
<1>4. Silent => owed.messages = <<>>
  BY SilentMeans
<1>5. MessagesFramed
  BY <1>2, <1>3, <1>4 DEF MessagesFramed
<1>6. DevicesWhole
  BY <1>1 DEF Found, Fresh, DevicesWhole, At
<1>7. RequestsKept
  BY <1>1 DEF Requests, RequestsKept
<1> QED
  BY <1>5, <1>6, <1>7 DEF MessagesTrue

LEMMA StreamOfInv ==
    ASSUME BtInv
    PROVE  StreamWhole
<1>1. /\ Reception(uart, bt_state, prog, line, owed)
      /\ Modes(bt_state, prog, line, bc, owed)
  BY ParamsOf
<1>2. CASE Deaf(bt_state, prog)
  BY <1>1, <1>2 DEF Reception, StreamWhole
<1>3. CASE ~Deaf(bt_state, prog) /\ Streaming
  <2>1. line = <<>> /\ owed.messages = <<>> /\ owed.data = <<>>
    BY <1>1, <1>3 DEF Modes, Deaf, Streaming
  <2>2. Frame(uart, <<>>, <<>>)
    BY <1>1, <1>3, <2>1 DEF Reception
  <2>3. uart.got = <<>>
    BY <2>2, LenNone DEF Frame, Resting, Sized, Filling
  <2>4. <<>> \o <<>> = <<>>
    OBVIOUS
  <2> QED
    BY <2>1, <2>3, <2>4 DEF StreamWhole
<1> QED
  BY <1>2, <1>3 DEF StreamWhole

\* The invariant, of a program and a Bluecore that keep all the rules: the two
\* ends of the line agree on what is on its way in both directions, at every
\* place of the calls and of the interrupt.
THEOREM Invariant == Careful => (Spec => []BtInv)
<1> SUFFICES ASSUME Careful
             PROVE  Spec => []BtInv
  OBVIOUS
<1>1. Init => BtInv
  BY InitKeeps
<1>2. BtInv /\ [Next]_vars => BtInv'
  BY NextKeeps
<1> QED
  BY <1>1, <1>2, PTL DEF Spec

\* What the Bluecore receives is each command whole, with its length, in the mode
\* it is meant for; and a call of bt.c returns both bytes of the answer to this
\* very call, or fails after a fault, although bt_wait_msg takes any message of
\* the type for it.
THEOREM CallsAreTrue == Careful => (Spec => []CallsTrue)
<1>1. BtInv => CallsTrue
  BY CallsOfInv
<1> QED
  BY <1>1, Invariant, PTL

\* Whatever finds itself in the status register when uart_isr reads it, every
\* message gets to the callback once, in order, with its own bytes; errors are
\* counted for faults only; a device is copied whole, of this listing, once; and
\* requests and handles stay until they are answered or taken.
THEOREM MessagesAreTrue == Careful => (Spec => []MessagesTrue)
<1>1. BtInv => MessagesTrue
  BY MessagesOfInv
<1> QED
  BY <1>1, Invariant, PTL

\* Between nx_bt_stream_open and nx_bt_stream_close the bytes in the buffer and on
\* the line are those that the other end has sent and the program has not had.
THEOREM StreamIsWhole == Careful => (Spec => []StreamWhole)
<1>1. BtInv => StreamWhole
  BY StreamOfInv
<1> QED
  BY <1>1, Invariant, PTL

=============================================================================
