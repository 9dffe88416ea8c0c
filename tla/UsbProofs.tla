----------------------------- MODULE UsbProofs -----------------------------
(***************************************************************************)
(* What Usb promises, for every length of the descriptors and answers, of  *)
(* what the host asks for and of the program's messages, every address and *)
(* any number of bus resets: the control endpoint is told the truth, and   *)
(* so are the two streams when each message is one packet.                 *)
(*                                                                         *)
(* The invariant is about a driver u, a controller c, a host h and a       *)
(* program p, so that what a handler does to u and c is said of values.    *)
(***************************************************************************)
EXTENDS Usb, SequenceTheorems, TLAPS

\* What the host and the program keep to, see HostMay.
AllRules == {"whole_address", "short_config", "prompt", "in_turn", "awake"} \subseteq Rules

\* A message of nx_usb_write fits into one packet.
OnePacket == Writes \subseteq {1}

Status == {"USB_UNINITIALIZED", "USB_READY", "USB_BUSY", "USB_SUSPENDED"}
Words == Answers \cup Orders \cup {"none", "nothing", "mixed"}
AnyRequest == [what : Words, asked : Nat, value : Nat]
AnyData == [what : Words, from : Nat, len : Nat]
Unit == Words \X Nat
Message == Seq({0, 1} \X Nat)
BankContents == Packets \cup {NoPacket}
Places == {"idle", "read_length", "read_check", "read_enable", "write_check", "write_wait",
           "write_busy", "write_send", "halted"}

Driver ==
    [status : Status, pre : Status, new_address : Nat, config : {0, 1},
     tx : [{0, 1} -> AnyData \cup Message],
     rx_size : {0, 1}, rx_len : {0, 1}, buf : BankContents, bank : Banks]

Ep0 == [setup : AnyRequest, out : BOOLEAN, tx : AnyData, full : BOOLEAN, txcomp : BOOLEAN,
        stall : BOOLEAN, stalled : BOOLEAN]
Ep1 == [on : BOOLEAN, bank : [Banks -> BankContents], fill : Banks, read : Banks]
Ep2 == [on : BOOLEAN, tx : Message, txcomp : BOOLEAN]

Controller ==
    [flags : SUBSET {"ENDBUSRES", "RXSUSP", "RXRSM"}, faddr : Nat,
     mode : {"default", "addressed", "configured"}, ep0 : Ep0, ep1 : Ep1, ep2 : Ep2]

Host ==
    [addr : Nat, config : {0, 1}, ctl : AnyRequest, got : Seq(Unit), done : BOOLEAN,
     next : Packets, asleep : BOOLEAN, wrong : BOOLEAN, resets : Nat]

Prog == [at : Places, armed : BOOLEAN, len : Nat, turn : {0, 1}]

Typed(u, c, h, p) == u \in Driver /\ c \in Controller /\ h \in Host /\ p \in Prog

---------------------------------------------------------------------------
(* The control endpoint *)

\* The length of the answer to r, and what is left of it from a unit on.
Total(r) == Min({SizeOf[r.what], r.asked})
Rest(what, from, total) ==
    IF from < total THEN Data(what, from, total - from) ELSE Nothing

EmptyEp0(c) ==
    c.ep0.setup = None /\ ~c.ep0.full /\ c.ep0.tx = Nothing /\ ~c.ep0.stall

\* No transfer; the interrupt for the last packet of one may still be due, and
\* with it the address that the host uses already.
Rested(u, c, h) ==
    /\ h.ctl = None /\ ~h.done
    /\ EmptyEp0(c)
    /\ u.new_address # 0 => c.ep0.txcomp /\ h.addr = u.new_address /\ h.config = 0
    /\ c.ep0.txcomp \/ h.config = 1 => u.tx[0] = Nothing

\* The driver has still to look at the request.
Asked(u, c, h) ==
    /\ h.ctl \in Requests /\ ~h.done /\ h.got = <<>>
    /\ c.ep0.setup = h.ctl /\ ~c.ep0.full /\ c.ep0.tx = Nothing /\ ~c.ep0.stall
    /\ ~c.ep0.txcomp
    /\ u.new_address = 0

\* The next packet of an answer is in the FIFO, or is put there next.
Answering(u, c, h) ==
    LET what == h.ctl.what
        total == Total(h.ctl)
        n == Len(h.got)
        len == Min({total - n, MaxEp0}) IN
    /\ h.ctl \in Requests /\ what \in Answers /\ ~h.done
    /\ c.ep0.setup = None /\ ~c.ep0.stall
    /\ u.new_address = 0
    /\ n <= total /\ h.got = Units(Data(what, 0, n))
    /\ IF c.ep0.full
       THEN /\ ~c.ep0.txcomp
            /\ c.ep0.tx = Data(what, n, len) /\ u.tx[0] = Rest(what, n + len, total)
       ELSE c.ep0.tx = Nothing /\ u.tx[0] = Rest(what, n, total)

\* The host has the answer and has still to acknowledge it.
Answered(u, c, h) ==
    /\ h.ctl \in Requests /\ h.ctl.what \in Answers /\ h.done
    /\ h.got = Units(Data(h.ctl.what, 0, Total(h.ctl)))
    /\ EmptyEp0(c)
    /\ u.new_address = 0 /\ u.tx[0] = Nothing

\* An order is acknowledged by an empty packet.
Acknowledged(u, c, h) ==
    /\ h.ctl \in Requests /\ h.ctl.what \in {"feature", "set_config", "set_address"}
    /\ ~h.done
    /\ c.ep0.setup = None /\ c.ep0.full /\ c.ep0.tx = Nothing /\ ~c.ep0.stall
    /\ ~c.ep0.txcomp
    /\ u.new_address = h.ctl.value /\ u.tx[0] = Nothing

Refused(u, c, h) ==
    /\ h.ctl \in Requests /\ h.ctl.what = "unknown" /\ ~h.done
    /\ c.ep0.setup = None /\ ~c.ep0.full /\ c.ep0.tx = Nothing /\ c.ep0.stall
    /\ ~c.ep0.txcomp
    /\ u.new_address = 0

Transfer(u, c, h) ==
    \/ Rested(u, c, h) \/ Asked(u, c, h) \/ Answering(u, c, h)
    \/ Answered(u, c, h) \/ Acknowledged(u, c, h) \/ Refused(u, c, h)

\* The addresses and the configurations.
Named(u, c, h) ==
    /\ h.config = 1 => h.addr # 0
    /\ h.ctl.what \in {"set_config", "unknown"} => h.config = 0
    /\ h.ctl.what = "set_config" => h.addr # 0
    /\ h.ctl.what = "set_address" => h.addr = 0
    /\ h.ctl.what = "config" => h.ctl.asked <= SizeOf["config"]
    /\ IF "ENDBUSRES" \in c.flags
       THEN h.ctl = None /\ h.addr = 0 /\ h.config = 0 /\ u.new_address = 0
       ELSE /\ u.new_address = 0 => c.faddr = h.addr
            /\ u.config = 1 <=> c.mode = "configured"
            /\ u.config = IF h.ctl.what = "set_config" /\ c.ep0.setup = None
                          THEN 1 ELSE h.config

---------------------------------------------------------------------------
(* Suspension, and the calls of the program *)

\* The status, which a suspension hides.
Underneath(u) == IF u.status = "USB_SUSPENDED" THEN u.pre ELSE u.status

NoEndpoint(c) ==
    /\ c.ep0.setup = None /\ ~c.ep0.out /\ ~c.ep0.txcomp /\ ~c.ep0.stalled
    /\ ~Flagged(c.ep1) /\ ~c.ep2.txcomp

\* Who suspends or resumes the bus is noticed by the next interrupt.
Power(u, c, h, p) ==
    /\ h.asleep =>
         /\ c.flags \in {{}, {"RXSUSP"}}
         /\ NoEndpoint(c)
         /\ p.at \in {"idle", "write_wait"} /\ p.armed /\ u.rx_len = 0
    /\ "ENDBUSRES" \notin c.flags =>
         /\ ~h.asleep => c.flags \in {{}, {"RXSUSP", "RXRSM"}, {"RXRSM"}}
         /\ u.status = "USB_SUSPENDED" <=> c.flags = (IF h.asleep THEN {} ELSE {"RXRSM"})
         /\ u.status = "USB_SUSPENDED" => u.pre # "USB_SUSPENDED"
         /\ u.config = 1 => Underneath(u) \in {"USB_READY", "USB_BUSY"}

\* A message that is on its way, or being written, keeps the status busy and
\* the control endpoint out of use.
Calls(u, c, h, p) ==
    /\ c.ep2.tx # <<>> \/ c.ep2.txcomp =>
         /\ h.ctl = None /\ ~c.ep0.txcomp /\ h.config = 1
         /\ Underneath(u) = "USB_BUSY"
    /\ c.ep2.txcomp => c.ep2.tx = <<>>
    /\ p.at \in {"write_check", "write_wait", "write_busy", "write_send"} =>
         h.ctl = None /\ ~c.ep0.txcomp /\ h.config = 1 /\ p.len \in Writes
    /\ p.at \in {"write_check", "write_busy", "write_send"} => c.flags = {} /\ ~h.asleep
    /\ p.at = "write_wait" /\ u.status = "USB_READY" => c.flags = {}
    /\ p.at \in {"write_busy", "write_send"} => c.ep2.tx = <<>> /\ ~c.ep2.txcomp
    /\ p.at = "write_send" => u.status = "USB_BUSY"
    /\ p.at # "halted"

Good(u, c, h, p) ==
    /\ Typed(u, c, h, p)
    /\ Transfer(u, c, h)
    /\ Named(u, c, h)
    /\ Power(u, c, h, p)
    /\ Calls(u, c, h, p)

ControlInv == Good(usb_state, udp, host, prog)

---------------------------------------------------------------------------
(* The streams *)

InBank(ep1, b) == IF ep1.bank[b] = NoPacket THEN <<>> ELSE <<ep1.bank[b]>>

\* The driver and the controller read the same bank, and the controller fills
\* the banks in the order in which they are read.
Banked(u, c) ==
    LET r == c.ep1.read
        o == OtherBank(r) IN
    /\ IF "ENDBUSRES" \in c.flags THEN \A b \in Banks : c.ep1.bank[b] = NoPacket
                                  ELSE u.bank = r
    /\ c.ep1.bank[r] = NoPacket => c.ep1.bank[o] = NoPacket
    /\ c.ep1.fill = IF c.ep1.bank[r] # NoPacket /\ c.ep1.bank[o] = NoPacket THEN o ELSE r

Received(u, c, s) ==
    s = (IF u.rx_len > 0 THEN <<u.buf>> ELSE <<>>)
            \o InBank(c.ep1, c.ep1.read) \o InBank(c.ep1, OtherBank(c.ep1.read))

Ep1Inv == Banked(usb_state, udp) /\ Received(usb_state, udp, stream)

Ep2Inv == udp.ep2.tx = written /\ Len(written) <= 1 /\ ~host.wrong

---------------------------------------------------------------------------
(* The operators *)

LEMMA MinOfTwo ==
    ASSUME NEW a \in Nat, NEW b \in Nat
    PROVE  Min({a, b}) = IF a <= b THEN a ELSE b
<1> DEFINE m == IF a <= b THEN a ELSE b
<1>1. m \in {a, b} /\ \A y \in {a, b} : m =< y
    OBVIOUS
<1>2. \A x \in {a, b} : (\A y \in {a, b} : x =< y) => x = m
    OBVIOUS
<1> QED
    BY <1>1, <1>2 DEF Min

LEMMA UnitsOf ==
    ASSUME NEW what \in Words, NEW from \in Nat, NEW n \in Nat
    PROVE  /\ Units(Data(what, from, n)) \in Seq(Unit)
           /\ Len(Units(Data(what, from, n))) = n
           /\ \A k \in 1..n : Units(Data(what, from, n))[k] = <<what, from + k - 1>>
<1> DEFINE us == [k \in 1..n |-> <<what, from + k - 1>>]
<1>1. Units(Data(what, from, n)) = us
    BY DEF Units, Data
<1>2. us \in [1..n -> Unit]
    <2> SUFFICES ASSUME NEW k \in 1..n PROVE <<what, from + k - 1>> \in Unit
        OBVIOUS
    <2>1. from + k - 1 \in Nat
        OBVIOUS
    <2> QED
        BY <2>1 DEF Unit
<1>3. \A k \in 1..n : us[k] = <<what, from + k - 1>>
    OBVIOUS
<1> HIDE DEF us
<1>4. us \in Seq(Unit) /\ Len(us) = n
    BY <1>2
<1> QED
    BY <1>1, <1>3, <1>4

LEMMA UnitsOfNothing == Units(Nothing) = <<>>
<1>1. "nothing" \in Words
    BY DEF Words
<1>2. Units(Nothing) \in Seq(Unit) /\ Len(Units(Nothing)) = 0
    BY <1>1, UnitsOf DEF Nothing
<1> QED
    BY <1>2, EmptySeq

\* The units of two pieces that follow each other.
LEMMA UnitsJoin ==
    ASSUME NEW what \in Words, NEW n \in Nat, NEW m \in Nat
    PROVE  Units(Data(what, 0, n)) \o Units(Data(what, n, m)) = Units(Data(what, 0, n + m))
<1> DEFINE a == Units(Data(what, 0, n))
           b == Units(Data(what, n, m))
           c == Units(Data(what, 0, n + m))
<1>1. a \in Seq(Unit) /\ Len(a) = n /\ \A k \in 1..n : a[k] = <<what, 0 + k - 1>>
    BY UnitsOf
<1>2. b \in Seq(Unit) /\ Len(b) = m /\ \A k \in 1..m : b[k] = <<what, n + k - 1>>
    BY UnitsOf
<1>3. c \in Seq(Unit) /\ Len(c) = n + m /\ \A k \in 1..(n + m) : c[k] = <<what, 0 + k - 1>>
    <2>1. n + m \in Nat
        OBVIOUS
    <2> QED
        BY <2>1, UnitsOf
<1> HIDE DEF a, b, c
<1>4. /\ a \o b \in Seq(Unit) /\ Len(a \o b) = n + m
      /\ \A k \in 1..(n + m) : (a \o b)[k] = IF k <= n THEN a[k] ELSE b[k - n]
    BY <1>1, <1>2, ConcatProperties
<1>5. ASSUME NEW k \in 1..(n + m)
      PROVE  (a \o b)[k] = c[k]
    <2>0. c[k] = <<what, 0 + k - 1>>
        BY <1>3
    <2>1. CASE k <= n
        <3>1. k \in 1..n
            BY <2>1
        <3>2. a[k] = <<what, 0 + k - 1>>
            BY <1>1, <3>1
        <3> QED
            BY <1>4, <2>0, <2>1, <3>2
    <2>2. CASE ~(k <= n)
        <3>1. k - n \in 1..m /\ n + (k - n) - 1 = 0 + k - 1
            BY <2>2
        <3>2. b[k - n] = <<what, 0 + k - 1>>
            BY <1>2, <3>1
        <3>3. (a \o b)[k] = b[k - n]
            BY <1>4, <2>2
        <3> QED
            BY <2>0, <3>2, <3>3
    <2> QED
        BY <2>1, <2>2
<1>6. a \o b = c
    BY <1>3, <1>4, <1>5, SeqEqual
<1> QED
    BY <1>6 DEF a, b, c

LEMMA UnitsPrefix ==
    ASSUME NEW what \in Words, NEW n \in Nat, NEW m \in Nat, n <= m
    PROVE  IsPrefix(Units(Data(what, 0, n)), Units(Data(what, 0, m)))
<1> DEFINE a == Units(Data(what, 0, n))
           c == Units(Data(what, 0, m))
<1>1. a \in Seq(Unit) /\ Len(a) = n /\ \A k \in 1..n : a[k] = <<what, 0 + k - 1>>
    BY UnitsOf
<1>0. c \in Seq(Unit) /\ Len(c) = m /\ \A k \in 1..m : c[k] = <<what, 0 + k - 1>>
    BY UnitsOf
<1> HIDE DEF a, c
<1>2. SubSeq(a, 1, n) = a
    BY <1>1, SubSeqFull
<1>3. /\ SubSeq(c, 1, n) \in Seq(Unit) /\ Len(SubSeq(c, 1, n)) = n
      /\ \A k \in 1..n : SubSeq(c, 1, n)[k] = c[k]
    <2>1. \A k \in 1..n : c[k] \in Unit
        BY <1>0, ElementOfSeq
    <2> QED
        BY <2>1, SubSeqProperties
<1>4. ASSUME NEW k \in 1..n
      PROVE  SubSeq(c, 1, n)[k] = a[k]
    <2>1. k \in 1..m
        OBVIOUS
    <2>2. c[k] = <<what, 0 + k - 1>>
        BY <1>0, <2>1
    <2>3. a[k] = <<what, 0 + k - 1>>
        BY <1>1
    <2> QED
        BY <1>3, <2>2, <2>3
<1>5. SubSeq(c, 1, n) = a
    BY <1>1, <1>3, <1>4, SeqEqual
<1> QED
    BY <1>0, <1>1, <1>2, <1>5 DEF IsPrefix, a, c

---------------------------------------------------------------------------
(* What the handlers leave alone *)

Pair(u, c) == [u |-> u, c |-> c]

\* All of the driver but its status, what a suspension hides and what it sends.
SameDriver(u, v) ==
    /\ v.new_address = u.new_address /\ v.config = u.config
    /\ v.rx_size = u.rx_size /\ v.rx_len = u.rx_len /\ v.buf = u.buf /\ v.bank = u.bank

\* All of the controller but the control endpoint.
SameController(c, d) ==
    /\ d.flags = c.flags /\ d.faddr = c.faddr /\ d.mode = c.mode
    /\ d.ep1 = c.ep1 /\ d.ep2 = c.ep2

\* s is what u and c become when a packet is sent and the rest is kept.
Sends(u, c, s, packet, rest) ==
    /\ s = Pair(s.u, s.c) /\ s.u \in Driver /\ s.c \in Controller
    /\ SameDriver(u, s.u) /\ s.u.pre = u.pre /\ s.u.status = "USB_BUSY"
    /\ s.u.tx[0] = rest /\ s.u.tx[1] = u.tx[1]
    /\ SameController(c, s.c)
    /\ s.c.ep0 = [c.ep0 EXCEPT !.full = TRUE, !.tx = packet]

LEMMA TransferFrame ==
    ASSUME NEW u, NEW c, NEW h, Transfer(u, c, h),
           NEW v, v.new_address = u.new_address, v.tx[0] = u.tx[0],
           NEW d, d.ep0.setup = c.ep0.setup, d.ep0.full = c.ep0.full, d.ep0.tx = c.ep0.tx,
                  d.ep0.stall = c.ep0.stall, d.ep0.txcomp = c.ep0.txcomp,
           NEW g, g.ctl = h.ctl, g.done = h.done, g.got = h.got, g.addr = h.addr,
                  g.config = h.config
    PROVE  Transfer(v, d, g)
<1>1. CASE Rested(u, c, h)
    BY <1>1 DEF Transfer, Rested, EmptyEp0
<1>2. CASE Asked(u, c, h)
    BY <1>2 DEF Transfer, Asked
<1>3. CASE Answering(u, c, h)
    BY <1>3 DEF Transfer, Answering
<1>4. CASE Answered(u, c, h)
    BY <1>4 DEF Transfer, Answered, EmptyEp0
<1>5. CASE Acknowledged(u, c, h)
    BY <1>5 DEF Transfer, Acknowledged
<1>6. CASE Refused(u, c, h)
    BY <1>6 DEF Transfer, Refused
<1> QED
    BY <1>1, <1>2, <1>3, <1>4, <1>5, <1>6 DEF Transfer

\* The piece of an answer that goes out, and what is kept of it for later.
LEMMA WriteEp0Is ==
    ASSUME NEW u \in Driver, NEW c \in Controller, ~c.ep0.full,
           NEW what \in Words, NEW from \in Nat, NEW left \in Nat,
           NEW s, s = WriteEp0(Pair(u, c), Data(what, from, left)),
           NEW len \in Nat, len = IF left <= 2 THEN left ELSE 2
    PROVE  Sends(u, c, s, Data(what, from, len), Rest(what, from + len, from + left))
<1> DEFINE data == Data(what, from, left)
           rest == Data(what, from + len, left - len)
           new == IF rest.len > 0 THEN rest ELSE Nothing
<1>1. len = Min({data.len, MaxEp0})
    BY MinOfTwo DEF MaxEp0, Data
<1>2. /\ from + len \in Nat /\ left - len \in Nat
      /\ (from + left) - (from + len) = left - len
    OBVIOUS
<1>3. rest.len = left - len /\ data.len = left /\ data.from = from /\ data.what = what
    BY DEF Data
<1>4. new = Rest(what, from + len, from + left)
    BY <1>2, <1>3 DEF Rest
<1>5. new \in AnyData /\ Data(what, from, len) \in AnyData
    BY <1>2, <1>3 DEF Data, AnyData, Nothing, Words
<1> HIDE DEF new
<1>6. s = [u |-> [u EXCEPT !.status = "USB_BUSY", !.tx[0] = new],
           c |-> [c EXCEPT !.ep0.full = TRUE, !.ep0.tx = Data(what, from, len)]]
    BY <1>1, <1>3 DEF WriteEp0, Pair, new
<1> DEFINE tx == [u.tx EXCEPT ![0] = new]
           e == [c.ep0 EXCEPT !.full = TRUE, !.tx = Data(what, from, len)]
<1>7. /\ tx \in [{0, 1} -> AnyData \cup Message]
      /\ tx[0] = new /\ tx[1] = u.tx[1]
    BY <1>5 DEF Driver
<1>8. e \in Ep0
    BY <1>5 DEF Controller, Ep0
<1>9. s.u = [u EXCEPT !.status = "USB_BUSY", !.tx = tx] /\ s.c = [c EXCEPT !.ep0 = e]
    <2>1. s.u = [u EXCEPT !.status = "USB_BUSY", !.tx[0] = new]
        BY <1>6
    <2>2. s.c = [c EXCEPT !.ep0.full = TRUE, !.ep0.tx = Data(what, from, len)]
        BY <1>6
    <2> QED
        BY <2>1, <2>2 DEF Driver, Controller, Ep0
<1> HIDE DEF tx, e
<1>10. /\ s.u \in Driver /\ SameDriver(u, s.u) /\ s.u.pre = u.pre
       /\ s.u.status = "USB_BUSY" /\ s.u.tx = tx
    BY <1>7, <1>9 DEF Driver, SameDriver, Status
<1>11. s.c \in Controller /\ SameController(c, s.c) /\ s.c.ep0 = e
    BY <1>8, <1>9 DEF Controller, SameController
<1> QED
    BY <1>4, <1>6, <1>7, <1>10, <1>11 DEF Pair, e, Sends

\* The empty packet.
LEMMA SendNullIs ==
    ASSUME NEW u \in Driver, NEW c \in Controller, ~c.ep0.full,
           NEW s, s = SendNull(Pair(u, c))
    PROVE  Sends(u, c, s, Nothing, Nothing)
<1>1. PICK z \in Nat : z = 0
    OBVIOUS
<1>2. s = WriteEp0(Pair(u, c), Data("nothing", z, z)) /\ "nothing" \in Words
    BY <1>1 DEF SendNull, Nothing, Words
<1>3. z = IF z <= 2 THEN z ELSE 2
    BY <1>1
<1>4. Rest("nothing", z + z, z + z) = Nothing /\ Data("nothing", z, z) = Nothing
    BY <1>1 DEF Rest, Nothing
<1> QED
    BY <1>2, <1>3, <1>4, WriteEp0Is

---------------------------------------------------------------------------
(* The interrupt: what each handler makes of a good state *)

LEMMA RequestIs ==
    ASSUME NEW r \in Requests
    PROVE  /\ r \in AnyRequest /\ r # None /\ r.what \in Answers \cup Orders
           /\ r.what \in Answers =>
                  r.what \notin Orders /\ r.value = 0 /\ r.asked \in Nat /\ SizeOf[r.what] \in Nat
           /\ r.what \in {"feature", "set_config", "unknown"} => r.value = 0
           /\ r.what = "set_address" => r.value # 0
<1>1. \/ \E what \in Answers, asked \in Lengths : r = Request(what, asked, 0)
      \/ \E what \in {"feature", "set_config", "unknown"} : r = Request(what, 0, 0)
      \/ \E a \in Addresses : r = Request("set_address", 0, a)
    BY DEF Requests
<1>2. ASSUME NEW what \in Answers, NEW asked \in Lengths, r = Request(what, asked, 0)
      PROVE  /\ r \in AnyRequest /\ r.what \in Answers /\ r.what \notin Orders
             /\ r.value = 0 /\ r.asked \in Nat /\ SizeOf[r.what] \in Nat /\ r # None
    BY <1>2, UsbAssumption DEF Request, AnyRequest, Words, Orders, None
<1>3. ASSUME NEW what \in {"feature", "set_config", "unknown"}, r = Request(what, 0, 0)
      PROVE  r \in AnyRequest /\ r.what = what /\ r.what \in Orders /\ r.value = 0 /\ r # None
    BY <1>3 DEF Request, AnyRequest, Words, Orders, None
<1>4. ASSUME NEW a \in Addresses, r = Request("set_address", 0, a)
      PROVE  /\ r \in AnyRequest /\ r.what = "set_address" /\ r.what \in Orders /\ r.value # 0
             /\ r # None
    BY <1>4, UsbAssumption DEF Request, AnyRequest, Words, Orders, None
<1>5. "set_address" \notin Answers /\ \A o \in Orders : o \notin Answers
    BY UsbAssumption DEF Orders
<1> QED
    BY <1>1, <1>2, <1>3, <1>4, <1>5

LEMMA TotalIs ==
    ASSUME NEW r \in Requests, r.what \in Answers
    PROVE  /\ Total(r) \in Nat /\ Total(r) <= r.asked
           /\ Total(r) = Min({SizeOf[r.what], r.asked})
BY RequestIs, MinOfTwo DEF Total

\* Until a transfer is over, and the interrupt of its last packet with it, no
\* message is on its way, and the program writes none.
LEMMA GoodInTransfer ==
    ASSUME NEW u, NEW c, NEW h, NEW p, Good(u, c, h, p), c.flags = {}, ~h.asleep,
           h.ctl # None \/ c.ep0.txcomp,
           NEW v \in Driver, NEW d \in Controller, d.flags = {}, d.ep2.tx = <<>>, ~d.ep2.txcomp,
           v.status # "USB_SUSPENDED",
           v.config = 1 => v.status \in {"USB_READY", "USB_BUSY"},
           Transfer(v, d, h), Named(v, d, h)
    PROVE  Good(v, d, h, p)
<1>1. Typed(v, d, h, p)
    BY DEF Good, Typed
<1>2. Power(v, d, h, p)
    BY DEF Good, Power, Underneath
<1>3. Calls(v, d, h, p)
    BY DEF Good, Calls
<1> QED
    BY <1>1, <1>2, <1>3 DEF Good

\* What the streams see of the driver and the controller.
SameStreams(u, c, v, d) ==
    /\ v.rx_len = u.rx_len /\ v.buf = u.buf /\ v.bank = u.bank
    /\ d.flags = c.flags
    /\ d.ep1.bank = c.ep1.bank /\ d.ep1.fill = c.ep1.fill /\ d.ep1.read = c.ep1.read
    /\ d.ep2.tx = c.ep2.tx

LEMMA SetupKeeps ==
    ASSUME AllRules,
           NEW u, NEW c, NEW h, NEW p, Good(u, c, h, p), c.flags = {}, ~h.asleep,
           c.ep0.setup # None,
           NEW s, s = Setup(Pair(u, c))
    PROVE  Good(s.u, s.c, h, p) /\ SameStreams(u, c, s.u, s.c)
<1> DEFINE r == h.ctl
           e == [c.ep0 EXCEPT !.setup = None]
           d == [c EXCEPT !.ep0 = e]
           t == Pair(u, d)
<1>1. /\ u \in Driver /\ c \in Controller /\ h \in Host
      /\ Transfer(u, c, h) /\ Named(u, c, h) /\ Power(u, c, h, p) /\ Calls(u, c, h, p)
    BY DEF Good, Typed
<1>2. Asked(u, c, h)
    BY <1>1 DEF Transfer, Rested, Answering, Answered, Acknowledged, Refused, EmptyEp0
<1>3. r \in Requests /\ r # None /\ c.ep0.setup = r
    BY <1>2, RequestIs DEF Asked
<1>4. None \in AnyRequest
    BY DEF None, Request, AnyRequest, Words
<1>5. /\ e \in Ep0 /\ e.setup = None /\ e.out = c.ep0.out /\ e.tx = Nothing /\ ~e.full
      /\ ~e.txcomp /\ ~e.stall /\ e.stalled = c.ep0.stalled
    BY <1>1, <1>2, <1>4 DEF Controller, Ep0, Asked
<1>6. /\ d \in Controller /\ d.ep0 = e /\ SameController(c, d)
      /\ [Pair(u, c) EXCEPT !.c.ep0.setup = None] = t
    BY <1>1, <1>5 DEF Controller, SameController, Pair, Ep0
<1>7. /\ "ENDBUSRES" \notin c.flags /\ c.ep2.tx = <<>> /\ ~c.ep2.txcomp
      /\ u.status # "USB_SUSPENDED"
      /\ u.new_address = 0 /\ ~h.done /\ h.got = <<>>
    BY <1>1, <1>2, <1>3 DEF Calls, Power, Asked
<1> HIDE DEF e, d
<1>8. CASE r.what \in Answers
    <2> DEFINE len == IF Total(r) <= 2 THEN Total(r) ELSE 2
    <2>1. Total(r) \in Nat /\ len \in Nat /\ r.what \in Words /\ Total(r) <= r.asked
        BY <1>3, <1>8, TotalIs DEF Words
    <2>2. s = WriteEp0(t, Data(r.what, 0, Total(r)))
        <3>1. ~(r.what = "config" /\ SizeOf["config"] < r.asked)
            BY <1>1, <1>3, <1>8, RequestIs DEF Named
        <3> QED
            BY <1>3, <1>6, <1>8, <3>1 DEF Setup, Pair, Total
    <2> HIDE DEF len
    <2>3. Sends(u, d, s, Data(r.what, 0, len), Rest(r.what, 0 + len, 0 + Total(r)))
        <3>1. len = IF Total(r) <= 2 THEN Total(r) ELSE 2
            BY DEF len
        <3> QED
            BY <1>1, <1>5, <1>6, <2>1, <2>2, <3>1, WriteEp0Is
    <2>4. Transfer(s.u, s.c, h)
        <3>1. Len(h.got) = 0 /\ h.got = Units(Data(r.what, 0, 0))
            BY <1>7, <2>1, UnitsOf, EmptySeq
        <3>2. Min({Total(r) - 0, MaxEp0}) = len
            BY <2>1, MinOfTwo DEF MaxEp0, len
        <3> QED
            BY <1>3, <1>5, <1>6, <1>7, <1>8, <2>1, <2>3, <3>1, <3>2
            DEF Transfer, Answering, Sends, SameDriver, Ep0
    <2>5. Named(s.u, s.c, h)
        BY <1>1, <1>3, <1>5, <1>6, <1>7, <1>8, <2>3, RequestIs
        DEF Named, Sends, SameDriver, SameController, Ep0, Orders
    <2>6. Good(s.u, s.c, h, p)
        BY <1>3, <1>6, <1>7, <2>3, <2>4, <2>5, GoodInTransfer
        DEF Sends, SameDriver, SameController
    <2> QED
        BY <1>6, <2>3, <2>6 DEF SameStreams, Sends, SameDriver, SameController
<1>9. CASE r.what = "feature" \/ r.what = "set_address"
    <2> DEFINE n == SendNull(t)
    <2>1. r.what \notin Answers
        BY <1>3, <1>9, RequestIs DEF Orders
    <2>2. Sends(u, d, n, Nothing, Nothing)
        BY <1>1, <1>5, <1>6, SendNullIs
    <2> HIDE DEF n
    <2>3. s = IF r.what = "feature" THEN n ELSE [n EXCEPT !.u.new_address = r.value]
        BY <1>3, <1>6, <1>9, <2>1 DEF Setup, Pair, n
    <2>4. /\ s.c = n.c /\ s.u = [n.u EXCEPT !.new_address = r.value]
        BY <1>3, <1>7, <1>9, <2>2, <2>3, RequestIs DEF Sends, Pair, SameDriver, Driver
    <2>5. /\ s.u \in Driver /\ s.u.new_address = r.value /\ s.u.tx = n.u.tx
          /\ s.u.status = "USB_BUSY" /\ s.u.config = u.config /\ s.u.rx_len = u.rx_len
          /\ s.u.buf = u.buf /\ s.u.bank = u.bank
        BY <1>3, <2>2, <2>4, RequestIs DEF Sends, SameDriver, Driver, AnyRequest
    <2>6. /\ s.c \in Controller /\ SameController(c, s.c)
          /\ s.c.ep0.setup = None /\ s.c.ep0.full /\ s.c.ep0.tx = Nothing
          /\ ~s.c.ep0.stall /\ ~s.c.ep0.txcomp
        <3>1. n.c \in Controller /\ SameController(c, n.c)
            BY <1>6, <2>2 DEF Sends, SameController
        <3>2. n.c.ep0 = [e EXCEPT !.full = TRUE, !.tx = Nothing]
            BY <1>6, <2>2 DEF Sends
        <3>3. /\ n.c.ep0.setup = None /\ n.c.ep0.full /\ n.c.ep0.tx = Nothing
              /\ ~n.c.ep0.stall /\ ~n.c.ep0.txcomp
            BY <1>5, <3>2 DEF Ep0
        <3> QED
            BY <2>4, <3>1, <3>3
    <2>7. s.u.tx[0] = Nothing
        BY <2>2, <2>5 DEF Sends
    <2>8. Acknowledged(s.u, s.c, h)
        BY <1>3, <1>7, <1>9, <2>5, <2>6, <2>7 DEF Acknowledged
    <2>9. Named(s.u, s.c, h)
        BY <1>1, <1>3, <1>7, <1>9, <2>5, <2>6, RequestIs DEF Named, SameController
    <2>10. Good(s.u, s.c, h, p)
        <3>1. s.c.flags = {} /\ s.c.ep2.tx = <<>> /\ ~s.c.ep2.txcomp
            BY <1>7, <2>6 DEF SameController
        <3> QED
            BY <1>3, <2>5, <2>6, <2>8, <2>9, <3>1, GoodInTransfer DEF Transfer
    <2> QED
        BY <2>5, <2>6, <2>10 DEF SameStreams, SameController
<1>10. CASE r.what = "set_config"
    <2> DEFINE n == SendNull(t)
    <2>1. r.what \notin Answers
        BY <1>3, <1>10, RequestIs DEF Orders
    <2>2. Sends(u, d, n, Nothing, Nothing)
        BY <1>1, <1>5, <1>6, SendNullIs
    <2> HIDE DEF n
    <2>3. s = Configured(t)
        BY <1>3, <1>6, <1>10, <2>1 DEF Setup, Pair
    <2> DEFINE on == n.c.ep1.on \/ u.rx_len = 0
               ep1 == [n.c.ep1 EXCEPT !.on = on]
               ep2 == [NoEp2 EXCEPT !.on = TRUE]
    <2>4. ep1 \in Ep1 /\ ep1.bank = c.ep1.bank /\ ep1.fill = c.ep1.fill /\ ep1.read = c.ep1.read
        BY <1>6, <2>2 DEF Sends, SameController, Controller, Ep1
    <2>5. ep2 \in Ep2 /\ ep2.tx = <<>> /\ ~ep2.txcomp
        BY EmptySeq DEF NoEp2, Ep2, Message
    <2>6. /\ s.u = [n.u EXCEPT !.config = 1, !.status = "USB_READY"]
          /\ s.c = [n.c EXCEPT !.mode = "configured", !.ep1 = ep1, !.ep2 = ep2]
        BY <2>2, <2>3 DEF Configured, n, Pair, Sends, Controller, Ep1
    <2> HIDE DEF ep1, ep2
    <2>7. /\ s.u \in Driver /\ s.u.config = 1 /\ s.u.status = "USB_READY" /\ s.u.tx = n.u.tx
          /\ s.u.new_address = 0 /\ s.u.rx_len = u.rx_len /\ s.u.buf = u.buf
          /\ s.u.bank = u.bank
        BY <1>7, <2>2, <2>6 DEF Sends, SameDriver, Driver, Status
    <2>8. /\ s.c \in Controller /\ s.c.mode = "configured" /\ s.c.ep1 = ep1 /\ s.c.ep2 = ep2
          /\ s.c.flags = c.flags /\ s.c.faddr = c.faddr /\ s.c.ep0 = n.c.ep0
        BY <1>6, <2>2, <2>4, <2>5, <2>6 DEF Sends, SameController, Controller
    <2>9. Transfer(s.u, s.c, h)
        BY <1>3, <1>5, <1>6, <1>7, <1>10, <2>2, <2>7, <2>8, RequestIs
        DEF Transfer, Acknowledged, Sends, Ep0
    <2>10. s.c.ep0.setup = None
        BY <1>5, <1>6, <2>2, <2>8 DEF Sends, Ep0
    <2>11. Named(s.u, s.c, h)
        BY <1>1, <1>7, <1>10, <2>7, <2>8, <2>10 DEF Named
    <2>12. Good(s.u, s.c, h, p)
        BY <1>1, <1>3, <2>5, <2>7, <2>8, <2>9, <2>11, GoodInTransfer
    <2> QED
        BY <1>7, <2>4, <2>5, <2>7, <2>8, <2>12 DEF SameStreams
<1>11. CASE r.what = "unknown"
    <2>1. r.what \notin Answers
        BY <1>3, <1>11, RequestIs DEF Orders
    <2>2. s = SendStall(t)
        BY <1>3, <1>6, <1>11, <2>1 DEF Setup, Pair
    <2> DEFINE f == [e EXCEPT !.stall = TRUE]
    <2>3. /\ f \in Ep0 /\ f.setup = None /\ f.tx = Nothing /\ ~f.full /\ ~f.txcomp /\ f.stall
        BY <1>5 DEF Ep0
    <2>4. s.u = [u EXCEPT !.status = "USB_UNINITIALIZED"] /\ s.c = [d EXCEPT !.ep0 = f]
        BY <1>6, <2>2 DEF SendStall, Pair, Controller, Ep0
    <2> HIDE DEF f
    <2>5. /\ s.u \in Driver /\ SameDriver(u, s.u) /\ s.u.status = "USB_UNINITIALIZED"
        BY <1>1, <2>4 DEF Driver, SameDriver, Status
    <2>6. s.c \in Controller /\ SameController(c, s.c) /\ s.c.ep0 = f
        BY <1>6, <2>3, <2>4 DEF Controller, SameController
    <2>7. Transfer(s.u, s.c, h)
        BY <1>3, <1>7, <1>11, <2>3, <2>5, <2>6 DEF Transfer, Refused, SameDriver
    <2>8. Named(s.u, s.c, h) /\ s.u.config # 1
        BY <1>1, <1>3, <1>7, <1>11, <2>3, <2>5, <2>6 DEF Named, SameDriver, SameController
    <2>9. Good(s.u, s.c, h, p)
        BY <1>3, <1>7, <2>5, <2>6, <2>7, <2>8, GoodInTransfer DEF SameController
    <2> QED
        BY <2>5, <2>6, <2>9 DEF SameStreams, SameDriver, SameController
<1> QED
    BY <1>3, <1>8, <1>9, <1>10, <1>11, RequestIs DEF Orders

\* A flag of EP0 is cleared that says nothing of the transfer.
LEMMA FlagCleared ==
    ASSUME NEW u, NEW c, NEW h, NEW p, Good(u, c, h, p), ~h.asleep,
           NEW e \in Ep0, e.setup = c.ep0.setup, e.tx = c.ep0.tx, e.full = c.ep0.full,
                          e.txcomp = c.ep0.txcomp, e.stall = c.ep0.stall,
           NEW d, d = [c EXCEPT !.ep0 = e]
    PROVE  Good(u, d, h, p) /\ SameStreams(u, c, u, d)
<1>1. c \in Controller
    BY DEF Good, Typed
<1>2. d \in Controller /\ SameController(c, d) /\ d.ep0 = e
    BY <1>1 DEF Controller, SameController
<1>3. Transfer(u, d, h)
    BY <1>2, TransferFrame DEF Good
<1>4. Named(u, d, h) /\ Power(u, d, h, p) /\ Calls(u, d, h, p) /\ Typed(u, d, h, p)
    BY <1>2 DEF Good, Named, Power, Calls, SameController, Typed
<1> QED
    BY <1>2, <1>3, <1>4 DEF Good, SameStreams, SameController

\* The driver and the controller when the address is taken.
Adopting(u) == [u EXCEPT !.new_address = 0, !.status = "USB_READY"]
Addressed(c, address) == [c EXCEPT !.faddr = address, !.mode = "addressed"]

LEMMA AddressTaken ==
    ASSUME NEW u \in Driver, NEW c \in Controller, NEW address \in Nat
    PROVE  /\ Adopting(u) \in Driver
           /\ Adopting(u).new_address = 0 /\ Adopting(u).status = "USB_READY"
           /\ Adopting(u).tx = u.tx /\ Adopting(u).config = u.config
           /\ Adopting(u).rx_len = u.rx_len /\ Adopting(u).buf = u.buf
           /\ Adopting(u).bank = u.bank
           /\ Addressed(c, address) \in Controller
           /\ Addressed(c, address).faddr = address
           /\ Addressed(c, address).mode = "addressed"
           /\ Addressed(c, address).ep0 = c.ep0 /\ Addressed(c, address).ep2 = c.ep2
           /\ SameStreams(u, c, Adopting(u), Addressed(c, address))
<1> DEFINE v == Adopting(u)
           d == Addressed(c, address)
<1>1. 0 \in Nat /\ "USB_READY" \in Status
    BY DEF Status
<1>2. /\ v \in Driver /\ v.new_address = 0 /\ v.status = "USB_READY"
      /\ v.tx = u.tx /\ v.config = u.config /\ v.rx_len = u.rx_len
      /\ v.buf = u.buf /\ v.bank = u.bank
    BY <1>1 DEF Driver, Adopting
<1>3. /\ d \in Controller /\ d.faddr = address /\ d.mode = "addressed"
      /\ d.flags = c.flags /\ d.ep0 = c.ep0 /\ d.ep1 = c.ep1 /\ d.ep2 = c.ep2
    BY DEF Controller, Addressed
<1> QED
    BY <1>2, <1>3 DEF SameStreams

\* A flag of the controller in the pair.
LEMMA OutOf ==
    ASSUME NEW u, NEW c \in Controller
    PROVE  [Pair(u, c) EXCEPT !.c.ep0.out = FALSE]
               = Pair(u, [c EXCEPT !.ep0 = [c.ep0 EXCEPT !.out = FALSE]])
<1> DEFINE d == [c EXCEPT !.ep0.out = FALSE]
<1>1. [Pair(u, c) EXCEPT !.c.ep0.out = FALSE] = [Pair(u, c) EXCEPT !.c = d]
    BY DEF Pair
<1>2. d = [c EXCEPT !.ep0 = [c.ep0 EXCEPT !.out = FALSE]]
    BY DEF Controller
<1> HIDE DEF d
<1>3. [Pair(u, c) EXCEPT !.c = d] = Pair(u, d)
    BY DEF Pair
<1> QED
    BY <1>1, <1>2, <1>3

LEMMA TxcompOf ==
    ASSUME NEW u, NEW c \in Controller
    PROVE  [Pair(u, c) EXCEPT !.c.ep0.txcomp = FALSE]
               = Pair(u, [c EXCEPT !.ep0 = [c.ep0 EXCEPT !.txcomp = FALSE]])
<1> DEFINE d == [c EXCEPT !.ep0.txcomp = FALSE]
<1>1. [Pair(u, c) EXCEPT !.c.ep0.txcomp = FALSE] = [Pair(u, c) EXCEPT !.c = d]
    BY DEF Pair
<1>2. d = [c EXCEPT !.ep0 = [c.ep0 EXCEPT !.txcomp = FALSE]]
    BY DEF Controller
<1> HIDE DEF d
<1>3. [Pair(u, c) EXCEPT !.c = d] = Pair(u, d)
    BY DEF Pair
<1> QED
    BY <1>1, <1>2, <1>3

LEMMA StalledOf ==
    ASSUME NEW u, NEW c \in Controller
    PROVE  [Pair(u, c) EXCEPT !.c.ep0.stalled = FALSE]
               = Pair(u, [c EXCEPT !.ep0 = [c.ep0 EXCEPT !.stalled = FALSE]])
<1> DEFINE d == [c EXCEPT !.ep0.stalled = FALSE]
<1>1. [Pair(u, c) EXCEPT !.c.ep0.stalled = FALSE] = [Pair(u, c) EXCEPT !.c = d]
    BY DEF Pair
<1>2. d = [c EXCEPT !.ep0 = [c.ep0 EXCEPT !.stalled = FALSE]]
    BY DEF Controller
<1> HIDE DEF d
<1>3. [Pair(u, c) EXCEPT !.c = d] = Pair(u, d)
    BY DEF Pair
<1> QED
    BY <1>1, <1>2, <1>3

LEMMA OnOf ==
    ASSUME NEW u, NEW c \in Controller
    PROVE  [Pair(u, c) EXCEPT !.c.ep1.on = FALSE]
               = Pair(u, [c EXCEPT !.ep1 = [c.ep1 EXCEPT !.on = FALSE]])
<1> DEFINE d == [c EXCEPT !.ep1.on = FALSE]
<1>1. [Pair(u, c) EXCEPT !.c.ep1.on = FALSE] = [Pair(u, c) EXCEPT !.c = d]
    BY DEF Pair
<1>2. d = [c EXCEPT !.ep1 = [c.ep1 EXCEPT !.on = FALSE]]
    BY DEF Controller
<1> HIDE DEF d
<1>3. [Pair(u, c) EXCEPT !.c = d] = Pair(u, d)
    BY DEF Pair
<1> QED
    BY <1>1, <1>2, <1>3

LEMMA Ep2TxcompOf ==
    ASSUME NEW u, NEW c \in Controller
    PROVE  [Pair(u, c) EXCEPT !.c.ep2.txcomp = FALSE]
               = Pair(u, [c EXCEPT !.ep2 = [c.ep2 EXCEPT !.txcomp = FALSE]])
<1> DEFINE d == [c EXCEPT !.ep2.txcomp = FALSE]
<1>1. [Pair(u, c) EXCEPT !.c.ep2.txcomp = FALSE] = [Pair(u, c) EXCEPT !.c = d]
    BY DEF Pair
<1>2. d = [c EXCEPT !.ep2 = [c.ep2 EXCEPT !.txcomp = FALSE]]
    BY DEF Controller
<1> HIDE DEF d
<1>3. [Pair(u, c) EXCEPT !.c = d] = Pair(u, d)
    BY DEF Pair
<1> QED
    BY <1>1, <1>2, <1>3

LEMMA TxCompKeeps ==
    ASSUME NEW u, NEW c, NEW h, NEW p, Good(u, c, h, p), c.flags = {}, ~h.asleep,
           c.ep0.txcomp,
           NEW s, s = TxComp(Pair(u, c), 0)
    PROVE  Good(s.u, s.c, h, p) /\ SameStreams(u, c, s.u, s.c)
<1> DEFINE e == [c.ep0 EXCEPT !.txcomp = FALSE]
           d == [c EXCEPT !.ep0 = e]
<1>1. /\ u \in Driver /\ c \in Controller /\ h \in Host
      /\ Transfer(u, c, h) /\ Named(u, c, h) /\ Power(u, c, h, p) /\ Calls(u, c, h, p)
    BY DEF Good, Typed
<1>2. Rested(u, c, h) \/ (Answering(u, c, h) /\ ~c.ep0.full) \/ Answered(u, c, h)
    BY <1>1 DEF Transfer, Asked, Answering, Acknowledged, Refused
<1>3. /\ e \in Ep0 /\ e.setup = None /\ e.tx = Nothing /\ ~e.full /\ ~e.stall /\ ~e.txcomp
    BY <1>1, <1>2 DEF Controller, Ep0, Rested, Answering, Answered, EmptyEp0
<1>4. d \in Controller /\ SameController(c, d) /\ d.ep0 = e
    BY <1>1, <1>3 DEF Controller, SameController
<1>5. [Pair(u, c) EXCEPT !.c.ep0.txcomp = FALSE] = Pair(u, d)
    BY <1>1, TxcompOf
<1>6. /\ "ENDBUSRES" \notin c.flags /\ c.ep2.tx = <<>> /\ ~c.ep2.txcomp
      /\ u.status # "USB_SUSPENDED"
    BY <1>1 DEF Calls, Power
<1> HIDE DEF e, d
<1>7. CASE u.new_address = 0 /\ u.tx[0] = Nothing
    <2>1. s = [Pair(u, d) EXCEPT !.u.status = "USB_READY"]
        BY <1>5, <1>7 DEF TxComp, TxPending, Pair
    <2>2. s.u = [u EXCEPT !.status = "USB_READY"] /\ s.c = d
        BY <2>1 DEF Pair
    <2>3. s.u \in Driver /\ SameDriver(u, s.u) /\ s.u.tx = u.tx /\ s.u.status = "USB_READY"
        BY <1>1, <2>2 DEF Driver, SameDriver, Status
    <2>4. Transfer(s.u, d, h)
        <3>1. CASE Rested(u, c, h)
            BY <1>3, <1>4, <1>7, <2>3, <3>1 DEF Transfer, Rested, EmptyEp0, SameDriver
        <3>2. CASE Answering(u, c, h) /\ ~c.ep0.full
            BY <1>3, <1>4, <1>7, <2>3, <3>2 DEF Transfer, Answering, SameDriver
        <3>3. CASE Answered(u, c, h)
            BY <1>3, <1>4, <1>7, <2>3, <3>3 DEF Transfer, Answered, EmptyEp0, SameDriver
        <3> QED
            BY <1>2, <3>1, <3>2, <3>3
    <2>5. c.ep0.setup = None
        BY <1>2 DEF Rested, Answering, Answered, EmptyEp0
    <2>6. Named(s.u, d, h)
        BY <1>1, <1>3, <1>4, <2>3, <2>5 DEF Named, SameDriver, SameController
    <2>7. Good(s.u, d, h, p)
        BY <1>4, <1>6, <2>3, <2>4, <2>6, GoodInTransfer DEF SameController
    <2> QED
        BY <1>4, <2>2, <2>3, <2>7 DEF SameStreams, SameDriver, SameController
<1>8. CASE u.new_address = 0 /\ u.tx[0] # Nothing
    <2> DEFINE what == h.ctl.what
               total == Total(h.ctl)
               n == Len(h.got)
               left == total - n
               len == IF left <= 2 THEN left ELSE 2
    <2>1. Answering(u, c, h) /\ ~c.ep0.full
        BY <1>2, <1>8 DEF Rested, Answered
    <2>2. h.ctl \in Requests /\ what \in Answers /\ u.tx[0] = Rest(what, n, total) /\ n <= total
        BY <2>1 DEF Answering
    <2>3. total \in Nat /\ n \in Nat /\ left \in Nat /\ len \in Nat /\ what \in Words
        <3>1. n \in Nat
            <4>1. h.got \in Seq(Unit)
                BY <1>1 DEF Host
            <4> QED
                BY <4>1, LenProperties
        <3>2. total \in Nat /\ what \in Words
            BY <2>2, TotalIs DEF Words
        <3> HIDE DEF n, total, what
        <3> QED
            BY <2>2, <3>1, <3>2
    <2>4. u.tx[0] = Data(what, n, left)
        BY <1>8, <2>2 DEF Rest
    <2>5. s = WriteEp0(Pair(u, d), Data(what, n, left))
        BY <1>5, <1>8, <2>4 DEF TxComp, TxPending, Pair
    <2>6. n + left = total /\ len = Min({total - n, MaxEp0})
        BY <2>3, MinOfTwo DEF MaxEp0
    <2>7. Sends(u, d, s, Data(what, n, len), Rest(what, n + len, n + left))
        <3> HIDE DEF n, left
        <3> QED
            BY <1>1, <1>3, <1>4, <2>3, <2>5, WriteEp0Is
    <2>8. /\ s.u \in Driver /\ SameDriver(u, s.u) /\ s.u.status = "USB_BUSY"
          /\ s.u.tx[0] = Rest(what, n + len, total)
        BY <2>6, <2>7 DEF Sends
    <2>9. /\ s.c \in Controller /\ SameController(c, s.c)
          /\ s.c.ep0 = [e EXCEPT !.full = TRUE, !.tx = Data(what, n, len)]
        BY <1>4, <2>7 DEF Sends, SameController
    <2>10. /\ s.c.ep0.setup = None /\ s.c.ep0.full /\ s.c.ep0.tx = Data(what, n, len)
           /\ ~s.c.ep0.stall /\ ~s.c.ep0.txcomp
        BY <1>3, <2>9 DEF Ep0
    <2>11. Answering(s.u, s.c, h)
        BY <2>1, <2>6, <2>8, <2>10 DEF Answering, SameDriver
    <2>12. Named(s.u, s.c, h)
        BY <1>1, <2>1, <2>8, <2>9, <2>10 DEF Named, SameDriver, SameController, Answering
    <2>13. Good(s.u, s.c, h, p)
        BY <1>6, <2>8, <2>9, <2>11, <2>12, GoodInTransfer DEF SameController, Transfer
    <2> QED
        BY <2>8, <2>9, <2>13 DEF SameStreams, SameDriver, SameController
<1>9. CASE u.new_address # 0
    <2>1. /\ Rested(u, c, h) /\ h.addr = u.new_address /\ h.config = 0 /\ h.ctl = None
          /\ u.tx[0] = Nothing /\ u.config = 0
        BY <1>1, <1>2, <1>6, <1>9 DEF Rested, Answering, Answered, Named, None, Request
    <2>2. s = [Pair(u, d) EXCEPT !.c.faddr = u.new_address, !.c.mode = "addressed",
                                 !.u.new_address = 0, !.u.status = "USB_READY"]
        BY <1>5, <1>9, <2>1 DEF TxComp, TxPending, Pair
    <2>3. s.u = Adopting(u) /\ s.c = Addressed(d, h.addr)
        BY <2>1, <2>2 DEF Pair, Adopting, Addressed
    <2>4. h.addr \in Nat
        BY <1>1 DEF Host
    <2>5. /\ s.u \in Driver /\ s.u.new_address = 0 /\ s.u.status = "USB_READY"
          /\ s.u.tx = u.tx /\ s.u.config = u.config
          /\ s.c \in Controller /\ s.c.faddr = h.addr /\ s.c.mode = "addressed"
          /\ s.c.ep0 = e /\ SameStreams(u, c, s.u, s.c)
          /\ s.c.ep2 = c.ep2
        BY <1>1, <1>4, <2>3, <2>4, AddressTaken DEF SameStreams, SameController
    <2>6. Transfer(s.u, s.c, h)
        BY <1>3, <2>1, <2>5 DEF Transfer, Rested, EmptyEp0
    <2>7. Named(s.u, s.c, h)
        BY <1>1, <1>6, <2>1, <2>5 DEF Named, None, Request, SameStreams
    <2>8. Good(s.u, s.c, h, p)
        BY <1>6, <2>1, <2>5, <2>6, <2>7, GoodInTransfer DEF SameStreams
    <2> QED
        BY <2>5, <2>8
<1> QED
    BY <1>7, <1>8, <1>9

LEMMA OutKeeps ==
    ASSUME NEW u, NEW c, NEW h, NEW p, Good(u, c, h, p), ~h.asleep,
           NEW s, s = [Pair(u, c) EXCEPT !.c.ep0.out = FALSE]
    PROVE  Good(s.u, s.c, h, p) /\ SameStreams(u, c, s.u, s.c)
<1> DEFINE e == [c.ep0 EXCEPT !.out = FALSE]
           d == [c EXCEPT !.ep0 = e]
<1>1. c \in Controller
    BY DEF Good, Typed
<1>2. s = Pair(u, d)
    BY <1>1, OutOf
<1>3. /\ e \in Ep0 /\ e.setup = c.ep0.setup /\ e.tx = c.ep0.tx /\ e.full = c.ep0.full
      /\ e.txcomp = c.ep0.txcomp /\ e.stall = c.ep0.stall
    BY <1>1 DEF Controller, Ep0
<1> HIDE DEF e
<1>4. Good(u, d, h, p) /\ SameStreams(u, c, u, d)
    BY <1>3, FlagCleared
<1> HIDE DEF d
<1>5. s.u = u /\ s.c = d
    BY <1>2 DEF Pair
<1> QED
    BY <1>4, <1>5

LEMMA StalledKeeps ==
    ASSUME NEW u, NEW c, NEW h, NEW p, Good(u, c, h, p), ~h.asleep,
           NEW s, s = [Pair(u, c) EXCEPT !.c.ep0.stalled = FALSE]
    PROVE  Good(s.u, s.c, h, p) /\ SameStreams(u, c, s.u, s.c)
<1> DEFINE e == [c.ep0 EXCEPT !.stalled = FALSE]
           d == [c EXCEPT !.ep0 = e]
<1>1. c \in Controller
    BY DEF Good, Typed
<1>2. s = Pair(u, d)
    BY <1>1, StalledOf
<1>3. /\ e \in Ep0 /\ e.setup = c.ep0.setup /\ e.tx = c.ep0.tx /\ e.full = c.ep0.full
      /\ e.txcomp = c.ep0.txcomp /\ e.stall = c.ep0.stall
    BY <1>1 DEF Controller, Ep0
<1> HIDE DEF e
<1>4. Good(u, d, h, p) /\ SameStreams(u, c, u, d)
    BY <1>3, FlagCleared
<1> HIDE DEF d
<1>5. s.u = u /\ s.c = d
    BY <1>2 DEF Pair
<1> QED
    BY <1>4, <1>5

\* The host has taken what was written, and nothing else is pending with it: the
\* entries at 2 of tx_len and tx_data say that nothing is left to send.
LEMMA Ep2TxCompKeeps ==
    ASSUME NEW u, NEW c, NEW h, NEW p, Good(u, c, h, p), c.flags = {}, ~h.asleep,
           c.ep2.txcomp,
           NEW s, s = TxComp(Pair(u, c), 2)
    PROVE  Good(s.u, s.c, h, p) /\ SameStreams(u, c, s.u, s.c)
<1> DEFINE f == [c.ep2 EXCEPT !.txcomp = FALSE]
           d == [c EXCEPT !.ep2 = f]
<1>1. /\ u \in Driver /\ c \in Controller /\ h \in Host /\ p \in Prog
      /\ Transfer(u, c, h) /\ Named(u, c, h) /\ Power(u, c, h, p) /\ Calls(u, c, h, p)
    BY DEF Good, Typed
<1>2. /\ "ENDBUSRES" \notin c.flags /\ u.status = "USB_BUSY"
      /\ h.ctl = None /\ ~c.ep0.txcomp /\ h.config = 1
      /\ p.at \notin {"write_busy", "write_send"}
    BY <1>1 DEF Calls, Power, Underneath
<1>3. Rested(u, c, h)
    BY <1>1, <1>2, RequestIs DEF Transfer, Asked, Answering, Answered, Acknowledged, Refused
<1>4. u.tx[0] = Nothing /\ u.new_address = 0
    BY <1>2, <1>3 DEF Rested
<1>5. f \in Ep2 /\ f.tx = c.ep2.tx /\ ~f.txcomp
    BY <1>1 DEF Controller, Ep2
<1>6. [Pair(u, c) EXCEPT !.c.ep2.txcomp = FALSE] = Pair(u, d)
    BY <1>1, Ep2TxcompOf
<1> HIDE DEF f
<1>7. /\ d \in Controller /\ d.flags = c.flags /\ d.faddr = c.faddr /\ d.mode = c.mode
      /\ d.ep0 = c.ep0 /\ d.ep1 = c.ep1 /\ d.ep2 = f
    BY <1>1, <1>5 DEF Controller
<1> HIDE DEF d
<1>8. s = [Pair(u, d) EXCEPT !.u.status = "USB_READY"]
    <2>1. ~TxPending(Pair(u, c), 2) /\ Pair(u, c).u.new_address = 0
        BY <1>4 DEF TxPending, Pair
    <2>2. 2 # 0
        OBVIOUS
    <2>3. s = [[Pair(u, c) EXCEPT !.c.ep2.txcomp = FALSE] EXCEPT !.u.status = "USB_READY"]
        BY <2>1, <2>2, Zenon DEF TxComp
    <2> QED
        BY <1>6, <2>3
<1>9. s.u = [u EXCEPT !.status = "USB_READY"] /\ s.c = d
    BY <1>8 DEF Pair
<1>10. /\ s.u \in Driver /\ SameDriver(u, s.u) /\ s.u.tx = u.tx /\ s.u.pre = u.pre
       /\ s.u.status = "USB_READY"
    BY <1>1, <1>9 DEF Driver, SameDriver, Status
<1>11. Transfer(s.u, d, h)
    BY <1>1, <1>7, <1>10, TransferFrame DEF SameDriver
<1>12. Named(s.u, d, h)
    BY <1>1, <1>7, <1>10 DEF Named, SameDriver
<1>13. Power(s.u, d, h, p)
    BY <1>1, <1>2, <1>7, <1>10 DEF Power, Underneath, SameDriver
<1>14. c.ep2.tx = <<>>
    BY <1>1 DEF Calls
<1>15. Calls(s.u, d, h, p)
    BY <1>1, <1>2, <1>5, <1>7, <1>10, <1>14 DEF Calls, Underneath
<1> QED
    BY <1>1, <1>5, <1>7, <1>9, <1>10, <1>11, <1>12, <1>13, <1>15
    DEF Good, Typed, SameStreams, SameDriver

---------------------------------------------------------------------------
(* The banks of EP1 *)

LEMMA OtherBankIs ==
    ASSUME NEW b \in Banks
    PROVE  /\ OtherBank(b) \in Banks /\ OtherBank(b) # b
           /\ OtherBank(OtherBank(b)) = b
           /\ \A a \in Banks : a = b \/ a = OtherBank(b)
<1>1. "RX_DATA_BK0" \in Banks /\ "RX_DATA_BK1" \in Banks /\ "RX_DATA_BK0" # "RX_DATA_BK1"
    BY DEF Banks
<1>2. \A x \in Banks : \E a \in Banks : a # x
    BY <1>1
<1>3. \A x \in Banks : OtherBank(x) \in Banks /\ OtherBank(x) # x
    BY <1>2 DEF OtherBank
<1> QED
    BY <1>3 DEF Banks

\* Nothing of a good state but the banks and the buffer changes.
LEMMA BanksChange ==
    ASSUME NEW u, NEW c, NEW h, NEW p, Good(u, c, h, p), ~h.asleep,
           NEW v \in Driver, v.status = u.status, v.pre = u.pre, v.tx = u.tx,
                             v.new_address = u.new_address, v.config = u.config,
           NEW d \in Controller, d.flags = c.flags, d.faddr = c.faddr, d.mode = c.mode,
                                 d.ep0 = c.ep0, d.ep2 = c.ep2
    PROVE  Good(v, d, h, p)
<1>1. Transfer(v, d, h)
    BY TransferFrame DEF Good
<1>2. Named(v, d, h) /\ Power(v, d, h, p) /\ Calls(v, d, h, p)
    BY DEF Good, Named, Power, Calls, Underneath
<1> QED
    BY <1>1, <1>2 DEF Good, Typed

\* The driver and the controller when the oldest packet is copied.
Copying(u, c) ==
    [u EXCEPT !.buf = c.ep1.bank[c.ep1.read], !.rx_len = 1, !.bank = OtherBank(@)]
Turned(u, e) == [e EXCEPT !.bank[u.bank] = NoPacket, !.read = OtherBank(@)]

LEMMA CopyIs ==
    ASSUME NEW u \in Driver, NEW c \in Controller, NEW e \in Ep1,
           e.bank = c.ep1.bank, e.read = c.ep1.read, e.fill = c.ep1.fill
    PROVE  /\ Copying(u, c) \in Driver /\ Copying(u, c).rx_len = 1
           /\ Copying(u, c).buf = c.ep1.bank[c.ep1.read]
           /\ Copying(u, c).bank = OtherBank(u.bank)
           /\ Copying(u, c).status = u.status /\ Copying(u, c).pre = u.pre
           /\ Copying(u, c).tx = u.tx /\ Copying(u, c).config = u.config
           /\ Copying(u, c).new_address = u.new_address
           /\ Turned(u, e) \in Ep1 /\ Turned(u, e).on = e.on
           /\ Turned(u, e).bank = [c.ep1.bank EXCEPT ![u.bank] = NoPacket]
           /\ Turned(u, e).read = OtherBank(c.ep1.read) /\ Turned(u, e).fill = c.ep1.fill
<1>1. u.bank \in Banks /\ c.ep1.read \in Banks /\ c.ep1.bank \in [Banks -> BankContents]
    BY DEF Driver, Controller, Ep1
<1>2. /\ OtherBank(u.bank) \in Banks /\ OtherBank(c.ep1.read) \in Banks
      /\ c.ep1.bank[c.ep1.read] \in BankContents /\ NoPacket \in BankContents
    BY <1>1, OtherBankIs DEF BankContents
<1>3. /\ Copying(u, c) \in Driver /\ Copying(u, c).rx_len = 1
      /\ Copying(u, c).buf = c.ep1.bank[c.ep1.read]
      /\ Copying(u, c).bank = OtherBank(u.bank)
      /\ Copying(u, c).status = u.status /\ Copying(u, c).pre = u.pre
      /\ Copying(u, c).tx = u.tx /\ Copying(u, c).config = u.config
      /\ Copying(u, c).new_address = u.new_address
    BY <1>2 DEF Copying, Driver
<1>4. /\ Turned(u, e) \in Ep1 /\ Turned(u, e).on = e.on
      /\ Turned(u, e).bank = [c.ep1.bank EXCEPT ![u.bank] = NoPacket]
      /\ Turned(u, e).read = OtherBank(c.ep1.read) /\ Turned(u, e).fill = c.ep1.fill
    BY <1>1, <1>2 DEF Turned, Ep1
<1> QED
    BY <1>3, <1>4

LEMMA ReadKeeps ==
    ASSUME NEW u, NEW c, NEW h, NEW p, Good(u, c, h, p), c.flags = {}, ~h.asleep,
           Flagged(c.ep1),
           NEW s, s = ReadData([Pair(u, c) EXCEPT !.c.ep1.on = FALSE]),
           NEW st
    PROVE  /\ Good(s.u, s.c, h, p) /\ s.c.ep2 = c.ep2
           /\ Banked(u, c) /\ Received(u, c, st) => Banked(s.u, s.c) /\ Received(s.u, s.c, st)
<1> DEFINE e == [c.ep1 EXCEPT !.on = FALSE]
           d == [c EXCEPT !.ep1 = e]
<1>1. u \in Driver /\ c \in Controller
    BY DEF Good, Typed
<1>2. [Pair(u, c) EXCEPT !.c.ep1.on = FALSE] = Pair(u, d)
    BY <1>1, OnOf
<1>3. e \in Ep1 /\ e.bank = c.ep1.bank /\ e.read = c.ep1.read /\ e.fill = c.ep1.fill
    BY <1>1 DEF Controller, Ep1
<1> HIDE DEF e
<1>4. /\ d \in Controller /\ d.flags = c.flags /\ d.faddr = c.faddr /\ d.mode = c.mode
      /\ d.ep0 = c.ep0 /\ d.ep1 = e /\ d.ep2 = c.ep2
    BY <1>1, <1>3 DEF Controller
<1> HIDE DEF d
<1>5. s = ReadData(Pair(u, d))
    BY <1>2
<1>6. CASE u.rx_len > 0 \/ u.rx_size = 0
    <2>1. s.u = u /\ s.c = d
        BY <1>5, <1>6 DEF ReadData, Pair
    <2>2. Good(u, d, h, p)
        BY <1>1, <1>4, BanksChange
    <2>3. Banked(u, c) => Banked(u, d)
        BY <1>3, <1>4 DEF Banked
    <2>4. Received(u, c, st) => Received(u, d, st)
        BY <1>3, <1>4 DEF Received, InBank
    <2> QED
        BY <1>4, <2>1, <2>2, <2>3, <2>4
<1>7. CASE ~(u.rx_len > 0 \/ u.rx_size = 0)
    <2> DEFINE f == Turned(u, e)
               g == [d EXCEPT !.ep1 = f]
    <2>1. s = [u |-> Copying(u, d), c |-> [d EXCEPT !.ep1.bank[u.bank] = NoPacket,
                                                    !.ep1.read = OtherBank(d.ep1.read)]]
        BY <1>5, <1>7 DEF ReadData, Pair, Copying
    <2>2. s.u = Copying(u, d) /\ s.c = g
        <3>1. [d EXCEPT !.ep1.bank[u.bank] = NoPacket, !.ep1.read = OtherBank(d.ep1.read)] = g
            BY <1>4 DEF Turned, Controller, Ep1
        <3> QED
            BY <2>1, <3>1
    <2>3. /\ s.u \in Driver /\ s.u.rx_len = 1 /\ s.u.buf = c.ep1.bank[c.ep1.read]
          /\ s.u.bank = OtherBank(u.bank)
          /\ s.u.status = u.status /\ s.u.pre = u.pre /\ s.u.tx = u.tx
          /\ s.u.config = u.config /\ s.u.new_address = u.new_address
          /\ f \in Ep1 /\ f.bank = [c.ep1.bank EXCEPT ![u.bank] = NoPacket]
          /\ f.read = OtherBank(c.ep1.read) /\ f.fill = c.ep1.fill
        BY <1>1, <1>3, <1>4, <2>2, CopyIs
    <2> HIDE DEF f
    <2>4. /\ s.c \in Controller /\ s.c.flags = c.flags /\ s.c.faddr = c.faddr
          /\ s.c.mode = c.mode /\ s.c.ep0 = c.ep0 /\ s.c.ep1 = f /\ s.c.ep2 = c.ep2
        BY <1>4, <2>2, <2>3 DEF Controller
    <2> HIDE DEF g
    <2>5. Good(s.u, s.c, h, p)
        BY <2>3, <2>4, BanksChange
    <2>6. ASSUME Banked(u, c), Received(u, c, st)
          PROVE  Banked(s.u, s.c) /\ Received(s.u, s.c, st)
        <3> DEFINE r == c.ep1.read
                   o == OtherBank(r)
                   b == c.ep1.bank
        <3>1. /\ r \in Banks /\ b \in [Banks -> BankContents]
              /\ o \in Banks /\ o # r /\ OtherBank(o) = r /\ \A a \in Banks : a = r \/ a = o
            BY <1>1, OtherBankIs DEF Controller, Ep1
        <3>2. u.bank = r /\ (b[r] = NoPacket => b[o] = NoPacket)
              /\ c.ep1.fill = IF b[r] # NoPacket /\ b[o] = NoPacket THEN o ELSE r
            BY <2>6 DEF Banked
        <3>3. b[r] # NoPacket
            BY <3>1, <3>2 DEF Flagged
        <3>4. /\ f.bank[r] = NoPacket /\ f.bank[o] = b[o]
              /\ f.read = o /\ f.fill = (IF b[o] = NoPacket THEN o ELSE r)
            BY <2>3, <3>1, <3>2, <3>3
        <3>5. Banked(s.u, s.c)
            <4>1. s.u.bank = o /\ s.c.flags = {} /\ s.c.ep1 = f
                BY <2>3, <2>4, <3>2
            <4>2. \A x : x = o => OtherBank(x) = r
                BY <3>1
            <4> HIDE DEF r, o, b
            <4>3. /\ s.u.bank = f.read
                  /\ f.bank[f.read] = NoPacket => f.bank[OtherBank(f.read)] = NoPacket
                  /\ f.fill = IF f.bank[f.read] # NoPacket /\ f.bank[OtherBank(f.read)] = NoPacket
                              THEN OtherBank(f.read) ELSE f.read
                BY <3>4, <4>1, <4>2
            <4> QED
                BY <4>1, <4>3 DEF Banked
        <3> HIDE DEF o, b
        <3>6. u.rx_len = 0
            BY <1>1, <1>7 DEF Driver
        <3>7. st = <<>> \o <<b[r]>> \o InBank(c.ep1, o)
            BY <2>6, <3>3, <3>6 DEF Received, InBank, b, o
        <3>8. InBank(s.c.ep1, o) = InBank(c.ep1, o) /\ InBank(s.c.ep1, r) = <<>>
            BY <2>4, <3>4 DEF InBank, b
        <3>9. <<b[r]>> \in Seq(BankContents) /\ InBank(c.ep1, o) \in Seq(BankContents)
            BY <3>1, EmptySeq DEF InBank, b
        <3>10. st = <<b[r]>> \o InBank(c.ep1, o) \o <<>>
            BY <3>7, <3>9, ConcatEmptySeq, ConcatProperties
        <3>11. st = <<s.u.buf>> \o InBank(s.c.ep1, s.c.ep1.read)
                        \o InBank(s.c.ep1, OtherBank(s.c.ep1.read))
            BY <2>3, <2>4, <3>1, <3>4, <3>8, <3>10 DEF b
        <3>12. s.u.rx_len > 0
            BY <2>3
        <3>13. Received(s.u, s.c, st)
            BY <3>11, <3>12, Zenon DEF Received
        <3> QED
            BY <3>5, <3>13
    <2> QED
        BY <2>4, <2>5, <2>6
<1> QED
    BY <1>6, <1>7

\* The streams are the same when what they see is.
LEMMA StreamsFrame ==
    ASSUME NEW u, NEW c, NEW v, NEW d, SameStreams(u, c, v, d), NEW st
    PROVE  Banked(u, c) /\ Received(u, c, st) => Banked(v, d) /\ Received(v, d, st)
<1>1. Banked(u, c) => Banked(v, d)
    BY DEF Banked, SameStreams
<1>2. Received(u, c, st) => Received(v, d, st)
    BY DEF Received, InBank, SameStreams
<1> QED
    BY <1>1, <1>2

---------------------------------------------------------------------------
(* The interrupt as a whole *)

\* The driver has noticed that the bus was suspended or resumed.
Woken(s) == [Resumed(Suspended(s)) EXCEPT !.c.flags = {}]

LEMMA WokenIs ==
    ASSUME NEW u \in Driver, NEW c \in Controller, NEW w, w = Woken(Pair(u, c)),
           NEW pre, pre = IF "RXSUSP" \in c.flags THEN u.status ELSE u.pre
    PROVE  /\ w = Pair(w.u, w.c) /\ w.u \in Driver /\ w.c \in Controller
           /\ SameDriver(u, w.u) /\ w.u.tx = u.tx /\ w.u.pre = pre
           /\ w.u.status = IF "RXRSM" \in c.flags THEN pre
                           ELSE IF "RXSUSP" \in c.flags THEN "USB_SUSPENDED" ELSE u.status
           /\ w.c.flags = {} /\ w.c.faddr = c.faddr /\ w.c.mode = c.mode
           /\ w.c.ep0 = c.ep0 /\ w.c.ep1 = c.ep1 /\ w.c.ep2 = c.ep2
<1> DEFINE v == IF "RXSUSP" \in c.flags
                THEN [u EXCEPT !.pre = u.status, !.status = "USB_SUSPENDED"] ELSE u
           x == IF "RXRSM" \in c.flags THEN [v EXCEPT !.status = v.pre] ELSE v
           d == [c EXCEPT !.flags = {}]
<1>1. Suspended(Pair(u, c)) = Pair(v, c)
    BY DEF Suspended, Pair
<1>2. /\ v \in Driver /\ SameDriver(u, v) /\ v.tx = u.tx /\ v.pre = pre
      /\ v.status = IF "RXSUSP" \in c.flags THEN "USB_SUSPENDED" ELSE u.status
    BY DEF Driver, SameDriver, Status
<1> HIDE DEF v
<1>3. Resumed(Pair(v, c)) = Pair(x, c)
    BY DEF Resumed, Pair
<1>4. /\ x \in Driver /\ SameDriver(u, x) /\ x.tx = u.tx /\ x.pre = pre
      /\ x.status = IF "RXRSM" \in c.flags THEN pre
                    ELSE IF "RXSUSP" \in c.flags THEN "USB_SUSPENDED" ELSE u.status
    BY <1>2 DEF Driver, SameDriver, Status
<1> HIDE DEF x
<1>5. /\ d \in Controller /\ d.flags = {} /\ d.faddr = c.faddr /\ d.mode = c.mode
      /\ d.ep0 = c.ep0 /\ d.ep1 = c.ep1 /\ d.ep2 = c.ep2
    BY DEF Controller
<1>6. w = Pair(x, d)
    BY <1>1, <1>3 DEF Woken, Pair
<1> HIDE DEF d
<1>7. w.u = x /\ w.c = d
    BY <1>6 DEF Pair
<1> QED
    BY <1>4, <1>5, <1>6, <1>7

LEMMA WokenKeeps ==
    ASSUME NEW u, NEW c, NEW h, NEW p, Good(u, c, h, p), "ENDBUSRES" \notin c.flags,
           NEW w, w = Woken(Pair(u, c))
    PROVE  /\ w = Pair(w.u, w.c) /\ w.c.flags = {}
           /\ Good(w.u, w.c, h, p)
           /\ w.c.ep2 = c.ep2
           /\ \A st : Banked(u, c) /\ Received(u, c, st)
                          => Banked(w.u, w.c) /\ Received(w.u, w.c, st)
<1> DEFINE pre == IF "RXSUSP" \in c.flags THEN u.status ELSE u.pre
<1>1. /\ u \in Driver /\ c \in Controller /\ h \in Host /\ p \in Prog
      /\ Transfer(u, c, h) /\ Named(u, c, h) /\ Power(u, c, h, p) /\ Calls(u, c, h, p)
    BY DEF Good, Typed
<1>2. /\ w = Pair(w.u, w.c) /\ w.u \in Driver /\ w.c \in Controller
      /\ SameDriver(u, w.u) /\ w.u.tx = u.tx /\ w.u.pre = pre
      /\ w.u.status = IF "RXRSM" \in c.flags THEN pre
                      ELSE IF "RXSUSP" \in c.flags THEN "USB_SUSPENDED" ELSE u.status
      /\ w.c.flags = {} /\ w.c.faddr = c.faddr /\ w.c.mode = c.mode
      /\ w.c.ep0 = c.ep0 /\ w.c.ep1 = c.ep1 /\ w.c.ep2 = c.ep2
    BY <1>1, WokenIs
<1> HIDE DEF pre
<1>3. Transfer(w.u, w.c, h)
    BY <1>1, <1>2, TransferFrame DEF SameDriver
<1>4. Named(w.u, w.c, h)
    BY <1>1, <1>2 DEF Named, SameDriver
<1>5. /\ c.flags # {} /\ ~h.asleep => c.flags \in {{"RXSUSP", "RXRSM"}, {"RXRSM"}}
      /\ c.flags # {} /\ h.asleep => c.flags = {"RXSUSP"}
    BY <1>1 DEF Power
<1>6. Underneath(w.u) = Underneath(u) /\ (c.flags = {} => w.u.status = u.status)
    BY <1>1, <1>2, <1>5 DEF Power, Underneath, pre
<1>7. /\ w.u.status = "USB_SUSPENDED" <=> h.asleep
      /\ w.u.status = "USB_SUSPENDED" => w.u.pre # "USB_SUSPENDED"
    BY <1>1, <1>2, <1>5 DEF Power, pre
<1>8. Power(w.u, w.c, h, p)
    BY <1>1, <1>2, <1>6, <1>7 DEF Power, NoEndpoint, SameDriver
<1>9. Calls(w.u, w.c, h, p)
    BY <1>1, <1>2, <1>6 DEF Calls
<1>10. ASSUME NEW st
       PROVE  Banked(u, c) /\ Received(u, c, st) => Banked(w.u, w.c) /\ Received(w.u, w.c, st)
    <2>1. Banked(u, c) => Banked(w.u, w.c)
        BY <1>2 DEF Banked, SameDriver
    <2>2. Received(u, c, st) => Received(w.u, w.c, st)
        BY <1>2 DEF Received, SameDriver
    <2> QED
        BY <2>1, <2>2
<1> QED
    BY <1>1, <1>2, <1>3, <1>4, <1>8, <1>9, <1>10 DEF Good, Typed

\* Of an endpoint that is served when the host is awake; asleep, none has a flag.
LEMMA ServeEndpointKeeps ==
    ASSUME AllRules,
           NEW u, NEW c, NEW h, NEW p, Good(u, c, h, p), c.flags = {},
           NEW s, s = ServeEndpoint(Pair(u, c)),
           NEW st
    PROVE  /\ Good(s.u, s.c, h, p) /\ s.c.ep2.tx = c.ep2.tx
           /\ Banked(u, c) /\ Received(u, c, st) => Banked(s.u, s.c) /\ Received(s.u, s.c, st)
<1>1. Pair(u, c).u = u /\ Pair(u, c).c = c
    BY DEF Pair
<1>2. CASE NoEndpoint(c)
    <2>1. s = Pair(u, c)
        BY <1>1, <1>2, Zenon DEF ServeEndpoint, NoEndpoint
    <2> QED
        BY <1>1, <2>1
<1>3. CASE ~NoEndpoint(c)
    <2>1. ~h.asleep
        BY <1>3 DEF Good, Power
    <2>2. CASE c.ep0.setup # None
        <3>1. s = Setup(Pair(u, c))
            BY <1>1, <2>2, Zenon DEF ServeEndpoint
        <3>2. Good(s.u, s.c, h, p) /\ SameStreams(u, c, s.u, s.c)
            BY <2>1, <2>2, <3>1, SetupKeeps
        <3> QED
            BY <3>2, StreamsFrame DEF SameStreams
    <2>3. CASE c.ep0.setup = None /\ c.ep0.out
        <3>1. s = [Pair(u, c) EXCEPT !.c.ep0.out = FALSE]
            BY <1>1, <2>3, Zenon DEF ServeEndpoint
        <3>2. Good(s.u, s.c, h, p) /\ SameStreams(u, c, s.u, s.c)
            BY <2>1, <3>1, OutKeeps
        <3> QED
            BY <3>2, StreamsFrame DEF SameStreams
    <2>4. CASE c.ep0.setup = None /\ ~c.ep0.out /\ c.ep0.txcomp
        <3>1. s = TxComp(Pair(u, c), 0)
            BY <1>1, <2>4, Zenon DEF ServeEndpoint
        <3>2. Good(s.u, s.c, h, p) /\ SameStreams(u, c, s.u, s.c)
            BY <2>1, <2>4, <3>1, TxCompKeeps
        <3> QED
            BY <3>2, StreamsFrame DEF SameStreams
    <2>5. CASE c.ep0.setup = None /\ ~c.ep0.out /\ ~c.ep0.txcomp /\ c.ep0.stalled
        <3>1. s = [Pair(u, c) EXCEPT !.c.ep0.stalled = FALSE]
            BY <1>1, <2>5, Zenon DEF ServeEndpoint
        <3>2. Good(s.u, s.c, h, p) /\ SameStreams(u, c, s.u, s.c)
            BY <2>1, <3>1, StalledKeeps
        <3> QED
            BY <3>2, StreamsFrame DEF SameStreams
    <2>6. CASE /\ c.ep0.setup = None /\ ~c.ep0.out /\ ~c.ep0.txcomp /\ ~c.ep0.stalled
               /\ Flagged(c.ep1)
        <3>1. s = ReadData([Pair(u, c) EXCEPT !.c.ep1.on = FALSE])
            BY <1>1, <2>6, Zenon DEF ServeEndpoint
        <3> QED
            BY <2>1, <2>6, <3>1, ReadKeeps
    <2>7. CASE /\ c.ep0.setup = None /\ ~c.ep0.out /\ ~c.ep0.txcomp /\ ~c.ep0.stalled
               /\ ~Flagged(c.ep1) /\ c.ep2.txcomp
        <3>1. s = TxComp(Pair(u, c), 2)
            BY <1>1, <2>7, Zenon DEF ServeEndpoint
        <3>2. Good(s.u, s.c, h, p) /\ SameStreams(u, c, s.u, s.c)
            BY <2>1, <2>7, <3>1, Ep2TxCompKeeps
        <3> QED
            BY <3>2, StreamsFrame DEF SameStreams
    <2> QED
        BY <1>3, <2>2, <2>3, <2>4, <2>5, <2>6, <2>7 DEF NoEndpoint
<1> QED
    BY <1>2, <1>3

LEMMA NewEndpoints == NoEp0 \in Ep0 /\ NoEp1 \in Ep1 /\ NoEp2 \in Ep2
<1>1. None \in AnyRequest /\ Nothing \in AnyData
    BY DEF None, Request, AnyRequest, Nothing, Data, AnyData, Words
<1>2. "RX_DATA_BK0" \in Banks /\ NoPacket \in BankContents /\ <<>> \in Message
    BY DEF Banks, BankContents, Message
<1> QED
    BY <1>1, <1>2 DEF NoEp0, NoEp1, NoEp2, Ep0, Ep1, Ep2

LEMMA EndBusResetKeeps ==
    ASSUME NEW u, NEW c, NEW h, NEW p, Good(u, c, h, p), "ENDBUSRES" \in c.flags,
           NEW s, s = EndBusReset(Pair(u, c)),
           NEW st
    PROVE  /\ Good(s.u, s.c, h, p) /\ s.c.ep2.tx = c.ep2.tx
           /\ Banked(u, c) /\ Received(u, c, st) => Banked(s.u, s.c) /\ Received(s.u, s.c, st)
<1>1. /\ u \in Driver /\ c \in Controller /\ h \in Host /\ p \in Prog
      /\ Transfer(u, c, h) /\ Named(u, c, h) /\ Power(u, c, h, p) /\ Calls(u, c, h, p)
    BY DEF Good, Typed
<1>2. /\ h.ctl = None /\ h.addr = 0 /\ h.config = 0 /\ u.new_address = 0
      /\ ~h.asleep /\ c.ep2.tx = <<>> /\ ~c.ep2.txcomp
    BY <1>1 DEF Named, Power, Calls
<1>3. Rested(u, c, h)
    BY <1>1, <1>2, RequestIs DEF Transfer, Asked, Answering, Answered, Acknowledged, Refused
<1>4. /\ s.u = [u EXCEPT !.status = "USB_UNINITIALIZED", !.bank = "RX_DATA_BK0", !.config = 0]
      /\ s.c = [c EXCEPT !.flags = {}, !.faddr = 0, !.mode = "default",
                         !.ep0 = NoEp0, !.ep1 = NoEp1, !.ep2 = NoEp2]
    BY DEF EndBusReset, Pair
<1>5. NoEp0 \in Ep0 /\ NoEp1 \in Ep1 /\ NoEp2 \in Ep2
    BY NewEndpoints
<1>6. /\ s.u \in Driver /\ s.u.new_address = 0 /\ s.u.status = "USB_UNINITIALIZED"
      /\ s.u.config = 0 /\ s.u.tx = u.tx /\ s.u.rx_len = u.rx_len /\ s.u.buf = u.buf
      /\ s.u.bank = "RX_DATA_BK0"
    BY <1>1, <1>2, <1>4 DEF Driver, Status, Banks
<1>7. /\ s.c \in Controller /\ s.c.flags = {} /\ s.c.faddr = 0 /\ s.c.mode = "default"
      /\ s.c.ep0 = NoEp0 /\ s.c.ep1 = NoEp1 /\ s.c.ep2 = NoEp2
    <2>1. {} \in SUBSET {"ENDBUSRES", "RXSUSP", "RXRSM"}
        OBVIOUS
    <2> DEFINE d == [c EXCEPT !.flags = {}, !.faddr = 0, !.mode = "default"]
    <2>2. d \in Controller /\ d.flags = {} /\ d.faddr = 0 /\ d.mode = "default"
        BY <1>1, <2>1 DEF Controller
    <2>3. s.c = [d EXCEPT !.ep0 = NoEp0, !.ep1 = NoEp1, !.ep2 = NoEp2]
        BY <1>4
    <2> HIDE DEF d
    <2> QED
        BY <1>5, <2>2, <2>3 DEF Controller
<1>8. Transfer(s.u, s.c, h)
    BY <1>2, <1>3, <1>6, <1>7 DEF Transfer, Rested, EmptyEp0, NoEp0
<1>9. Named(s.u, s.c, h)
    BY <1>2, <1>6, <1>7 DEF Named, None, Request
<1>10. p.at \notin {"write_check", "write_wait", "write_busy", "write_send", "halted"}
    BY <1>1, <1>2 DEF Calls
<1>11. Power(s.u, s.c, h, p)
    BY <1>2, <1>6, <1>7 DEF Power
<1>12. Calls(s.u, s.c, h, p)
    BY <1>7, <1>10 DEF Calls, NoEp2
<1>13. Good(s.u, s.c, h, p) /\ s.c.ep2.tx = c.ep2.tx
    BY <1>1, <1>2, <1>6, <1>7, <1>8, <1>9, <1>11, <1>12 DEF Good, Typed, NoEp2
<1>14. ASSUME Banked(u, c), Received(u, c, st)
       PROVE  Banked(s.u, s.c) /\ Received(s.u, s.c, st)
    <2>1. /\ \A b \in Banks : c.ep1.bank[b] = NoPacket
          /\ c.ep1.read \in Banks /\ OtherBank(c.ep1.read) \in Banks
        BY <1>1, <1>14, OtherBankIs DEF Banked, Controller, Ep1
    <2>2. /\ "RX_DATA_BK0" \in Banks /\ OtherBank("RX_DATA_BK0") \in Banks
          /\ \A b \in Banks : NoEp1.bank[b] = NoPacket
          /\ NoEp1.fill = "RX_DATA_BK0" /\ NoEp1.read = "RX_DATA_BK0"
        BY OtherBankIs DEF Banks, NoEp1
    <2>3. /\ InBank(c.ep1, c.ep1.read) = <<>> /\ InBank(c.ep1, OtherBank(c.ep1.read)) = <<>>
          /\ InBank(NoEp1, NoEp1.read) = <<>> /\ InBank(NoEp1, OtherBank(NoEp1.read)) = <<>>
        BY <2>1, <2>2 DEF InBank
    <2>4. Banked(s.u, s.c)
        BY <1>6, <1>7, <2>2 DEF Banked
    <2>5. Received(s.u, s.c, st)
        BY <1>6, <1>7, <1>14, <2>3, Zenon DEF Received
    <2> QED
        BY <2>4, <2>5
<1> QED
    BY <1>13, <1>14

LEMMA ServedKeeps ==
    ASSUME AllRules,
           NEW u, NEW c, NEW h, NEW p, Good(u, c, h, p),
           NEW s, s = Served(Pair(u, c)),
           NEW st
    PROVE  /\ Good(s.u, s.c, h, p) /\ s.c.ep2.tx = c.ep2.tx
           /\ Banked(u, c) /\ Received(u, c, st) => Banked(s.u, s.c) /\ Received(s.u, s.c, st)
<1>1. Pair(u, c).c = c
    BY DEF Pair
<1>2. CASE "ENDBUSRES" \in c.flags
    <2>1. s = EndBusReset(Pair(u, c))
        BY <1>1, <1>2, Zenon DEF Served
    <2> QED
        BY <1>2, <2>1, EndBusResetKeeps
<1>3. CASE "ENDBUSRES" \notin c.flags
    <2> DEFINE w == Woken(Pair(u, c))
    <2>1. s = ServeEndpoint(w)
        BY <1>1, <1>3, Zenon DEF Served, Woken
    <2>2. /\ w = Pair(w.u, w.c) /\ w.c.flags = {} /\ Good(w.u, w.c, h, p)
          /\ w.c.ep2 = c.ep2
          /\ Banked(u, c) /\ Received(u, c, st) => Banked(w.u, w.c) /\ Received(w.u, w.c, st)
        BY <1>3, WokenKeeps
    <2> HIDE DEF w
    <2>3. s = ServeEndpoint(Pair(w.u, w.c))
        BY <2>1, <2>2
    <2>4. /\ Good(s.u, s.c, h, p) /\ s.c.ep2.tx = w.c.ep2.tx
          /\ Banked(w.u, w.c) /\ Received(w.u, w.c, st)
                 => Banked(s.u, s.c) /\ Received(s.u, s.c, st)
        BY <2>2, <2>3, ServeEndpointKeeps
    <2> QED
        BY <2>2, <2>4
<1> QED
    BY <1>2, <1>3

---------------------------------------------------------------------------
(* The steps of the brick *)

StreamsInv == Ep1Inv /\ Ep2Inv

LEMMA IsrKeeps ==
    ASSUME AllRules, ControlInv, Isr
    PROVE  ControlInv' /\ (StreamsInv => StreamsInv')
<1> DEFINE s == Served(Pair(usb_state, udp))
<1>1. usb_state' = s.u /\ udp' = s.c /\ UNCHANGED <<host, prog, stream, written>>
    BY DEF Isr, Pair
<1>2. /\ Good(s.u, s.c, host, prog) /\ s.c.ep2.tx = udp.ep2.tx
      /\ Banked(usb_state, udp) /\ Received(usb_state, udp, stream)
             => Banked(s.u, s.c) /\ Received(s.u, s.c, stream)
    BY ServedKeeps DEF ControlInv
<1> HIDE DEF s
<1>3. ControlInv'
    BY <1>1, <1>2 DEF ControlInv
<1>4. Ep1Inv => Ep1Inv'
    BY <1>1, <1>2 DEF Ep1Inv
<1>5. Ep2Inv => Ep2Inv'
    BY <1>1, <1>2 DEF Ep2Inv
<1> QED
    BY <1>3, <1>4, <1>5 DEF StreamsInv

\* The program reads when the host is awake, and touches nothing of the transfers.
LEMMA ReadsFrame ==
    ASSUME NEW u, NEW c, NEW h, NEW p, Good(u, c, h, p), ~h.asleep,
           NEW v \in Driver, v.status = u.status, v.pre = u.pre, v.tx = u.tx,
                             v.new_address = u.new_address, v.config = u.config,
           NEW d \in Controller, d.flags = c.flags, d.faddr = c.faddr, d.mode = c.mode,
                                 d.ep0 = c.ep0, d.ep2 = c.ep2,
           NEW q \in Prog, q.at \in {"idle", "read_length", "read_check", "read_enable"}
    PROVE  Good(v, d, h, q)
<1>1. Transfer(v, d, h)
    BY TransferFrame DEF Good
<1>2. Named(v, d, h) /\ Power(v, d, h, q) /\ Calls(v, d, h, q)
    BY DEF Good, Named, Power, Calls, Underneath
<1> QED
    BY <1>1, <1>2 DEF Good, Typed

LEMMA ControlTypes ==
    ASSUME ControlInv
    PROVE  usb_state \in Driver /\ udp \in Controller /\ host \in Host /\ prog \in Prog
BY DEF ControlInv, Good, Typed

LEMMA ReadBufferKeeps ==
    ASSUME ControlInv, ReadBuffer
    PROVE  ControlInv' /\ (StreamsInv => StreamsInv')
<1> USE ControlTypes
<1>1. ~host.asleep
    BY DEF ControlInv, Good, Power, ReadBuffer, Driver, Prog
<1>2. /\ usb_state' \in Driver
      /\ usb_state'.status = usb_state.status /\ usb_state'.pre = usb_state.pre
      /\ usb_state'.tx = usb_state.tx /\ usb_state'.new_address = usb_state.new_address
      /\ usb_state'.config = usb_state.config /\ usb_state'.rx_len = usb_state.rx_len
      /\ usb_state'.buf = usb_state.buf /\ usb_state'.bank = usb_state.bank
    BY DEF ReadBuffer, Driver
<1>3. prog' \in Prog /\ prog'.at = "read_length"
    BY DEF ReadBuffer, Prog, Places
<1>4. UNCHANGED <<udp, host, stream, written>>
    BY DEF ReadBuffer
<1>5. ControlInv'
    BY <1>1, <1>2, <1>3, <1>4, ReadsFrame DEF ControlInv
<1>6. StreamsInv => StreamsInv'
    BY <1>2, <1>4 DEF StreamsInv, Ep1Inv, Ep2Inv, Banked, Received
<1> QED
    BY <1>5, <1>6

\* The program takes the packet that is in its buffer.
LEMMA ReadLengthKeeps ==
    ASSUME ControlInv, ReadLength
    PROVE  ControlInv' /\ (StreamsInv => StreamsInv')
<1> USE ControlTypes
<1>1. ~host.asleep
    BY DEF ControlInv, Good, Power, ReadLength
<1>2. /\ usb_state' \in Driver
      /\ usb_state'.status = usb_state.status /\ usb_state'.pre = usb_state.pre
      /\ usb_state'.tx = usb_state.tx /\ usb_state'.new_address = usb_state.new_address
      /\ usb_state'.config = usb_state.config /\ usb_state'.rx_len = 0
      /\ usb_state'.bank = usb_state.bank
    BY DEF ReadLength, Driver, BankContents
<1>3. prog' \in Prog /\ prog'.at = "read_check"
    BY DEF ReadLength, Prog, Places
<1>4. UNCHANGED <<udp, host, written>>
    BY DEF ReadLength
<1>5. ControlInv'
    BY <1>1, <1>2, <1>3, <1>4, ReadsFrame DEF ControlInv
<1>6. Banked(usb_state, udp) => Banked(usb_state', udp')
    BY <1>2, <1>4 DEF Banked
<1>7. ASSUME Received(usb_state, udp, stream)
      PROVE  Received(usb_state', udp', stream')
    <2> DEFINE r == udp.ep1.read
               a == InBank(udp.ep1, r)
               b == InBank(udp.ep1, OtherBank(r))
    <2>1. r \in Banks /\ OtherBank(r) \in Banks
        BY OtherBankIs DEF Controller, Ep1
    <2>2. a \in Seq(BankContents) /\ b \in Seq(BankContents)
        BY <2>1, EmptySeq DEF InBank, Controller, Ep1
    <2>3. usb_state.buf \in BankContents
        BY DEF Driver
    <2>4. stream = (IF usb_state.rx_len > 0 THEN <<usb_state.buf>> ELSE <<>>) \o a \o b
        BY <1>7 DEF Received
    <2> HIDE DEF a, b
    <2>5. stream' = <<>> \o a \o b
        <3>1. CASE usb_state.rx_len > 0
            <4>1. stream' = Tail(<<usb_state.buf>> \o a \o b)
                BY <2>4, <3>1 DEF ReadLength
            <4> QED
                BY <2>2, <2>3, <4>1
        <3>2. CASE ~(usb_state.rx_len > 0)
            BY <2>4, <3>2, Zenon DEF ReadLength
        <3> QED
            BY <3>1, <3>2
    <2>6. ~(usb_state'.rx_len > 0)
        BY <1>2
    <2> QED
        BY <1>4, <2>5, <2>6, Zenon DEF Received, a, b, r
<1>8. StreamsInv => StreamsInv'
    BY <1>4, <1>6, <1>7 DEF StreamsInv, Ep1Inv, Ep2Inv
<1> QED
    BY <1>5, <1>8

LEMMA ReadCheckKeeps ==
    ASSUME ControlInv, ReadCheck
    PROVE  ControlInv' /\ (StreamsInv => StreamsInv')
<1> USE ControlTypes
<1>1. ~host.asleep
    BY DEF ControlInv, Good, Power, ReadCheck
<1>2. prog' \in Prog /\ prog'.at \in {"idle", "read_enable"}
    BY DEF ReadCheck, Prog, Places
<1>3. UNCHANGED <<usb_state, udp, host, stream, written>>
    BY DEF ReadCheck
<1>4. ControlInv'
    BY <1>1, <1>2, <1>3, ReadsFrame DEF ControlInv
<1>5. StreamsInv => StreamsInv'
    BY <1>3 DEF StreamsInv, Ep1Inv, Ep2Inv, Banked, Received, InBank
<1> QED
    BY <1>4, <1>5

LEMMA ReadEnableKeeps ==
    ASSUME ControlInv, ReadEnable
    PROVE  ControlInv' /\ (StreamsInv => StreamsInv')
<1> USE ControlTypes
<1>1. ~host.asleep
    BY DEF ControlInv, Good, Power, ReadEnable
<1> DEFINE e == [udp.ep1 EXCEPT !.on = TRUE]
<1>2. e \in Ep1 /\ e.bank = udp.ep1.bank /\ e.fill = udp.ep1.fill /\ e.read = udp.ep1.read
    BY DEF Controller, Ep1
<1>3. udp' = [udp EXCEPT !.ep1 = e]
    BY DEF ReadEnable, Controller, Ep1
<1> HIDE DEF e
<1>4. /\ udp' \in Controller /\ udp'.flags = udp.flags /\ udp'.faddr = udp.faddr
      /\ udp'.mode = udp.mode /\ udp'.ep0 = udp.ep0 /\ udp'.ep1 = e /\ udp'.ep2 = udp.ep2
    BY <1>2, <1>3 DEF Controller
<1>5. prog' \in Prog /\ prog'.at = "idle"
    BY DEF ReadEnable, Prog, Places
<1>6. UNCHANGED <<usb_state, host, stream, written>>
    BY DEF ReadEnable
<1>7. ControlInv'
    BY <1>1, <1>4, <1>5, <1>6, ReadsFrame DEF ControlInv
<1>8. StreamsInv => StreamsInv'
    BY <1>2, <1>4, <1>6 DEF StreamsInv, Ep1Inv, Ep2Inv, Banked, Received, InBank
<1> QED
    BY <1>7, <1>8

---------------------------------------------------------------------------
(* nx_usb_write *)

\* Only the place of the program changes.
LEMMA PlaceChanges ==
    ASSUME ControlInv, prog' \in Prog, UNCHANGED <<usb_state, udp, host, stream, written>>,
           Power(usb_state, udp, host, prog)', Calls(usb_state, udp, host, prog)'
    PROVE  ControlInv' /\ (StreamsInv => StreamsInv')
<1>1. ControlInv'
    BY DEF ControlInv, Good, Typed
<1>2. StreamsInv => StreamsInv'
    BY DEF StreamsInv, Ep1Inv, Ep2Inv
<1> QED
    BY <1>1, <1>2

LEMMA WriteCallKeeps ==
    ASSUME AllRules, ControlInv, WriteCall
    PROVE  ControlInv' /\ (StreamsInv => StreamsInv')
<1>1. /\ host.config = 1 /\ host.ctl = None /\ ~udp.ep0.txcomp
      /\ ~host.asleep /\ udp.flags = {}
    BY DEF WriteCall, AllRules
<1>2. PICK n \in Writes : prog' = [prog EXCEPT !.at = "write_check", !.len = n]
    BY DEF WriteCall
<1>3. prog' \in Prog /\ prog'.at = "write_check" /\ prog'.len \in Writes
    BY <1>2, ControlTypes, UsbAssumption DEF Prog, Places
<1>4. UNCHANGED <<usb_state, udp, host, stream, written>>
    BY DEF WriteCall
<1>5. Power(usb_state, udp, host, prog)'
    BY <1>1, <1>4 DEF ControlInv, Good, Power
<1>6. Calls(usb_state, udp, host, prog)'
    BY <1>1, <1>3, <1>4 DEF ControlInv, Good, Calls, Underneath
<1> QED
    BY <1>3, <1>4, <1>5, <1>6, PlaceChanges

\* The assertions hold: the brick is configured, and not suspended.
LEMMA WriteCheckKeeps ==
    ASSUME ControlInv, WriteCheck
    PROVE  ControlInv' /\ (StreamsInv => StreamsInv')
<1>1. /\ host.config = 1 /\ host.ctl = None /\ ~udp.ep0.txcomp
      /\ ~host.asleep /\ udp.flags = {} /\ prog.len \in Writes
    BY DEF ControlInv, Good, Calls, WriteCheck
<1>2. usb_state.status \in {"USB_READY", "USB_BUSY"}
    BY <1>1 DEF ControlInv, Good, Named, Power, Underneath, None, Request
<1>3. prog' \in Prog /\ prog'.at = "write_wait" /\ prog'.len = prog.len
    BY <1>2, ControlTypes DEF WriteCheck, Prog, Places
<1>4. UNCHANGED <<usb_state, udp, host, stream, written>>
    BY DEF WriteCheck
<1>5. Power(usb_state, udp, host, prog)'
    BY <1>1, <1>4 DEF ControlInv, Good, Power
<1>6. Calls(usb_state, udp, host, prog)'
    BY <1>1, <1>3, <1>4 DEF ControlInv, Good, Calls, Underneath
<1> QED
    BY <1>3, <1>4, <1>5, <1>6, PlaceChanges

LEMMA WriteWaitKeeps ==
    ASSUME ControlInv, WriteWait
    PROVE  ControlInv' /\ (StreamsInv => StreamsInv')
<1>1. /\ host.config = 1 /\ host.ctl = None /\ ~udp.ep0.txcomp
      /\ udp.flags = {} /\ prog.len \in Writes
    BY DEF ControlInv, Good, Calls, WriteWait
<1>2. ~host.asleep
    BY <1>1 DEF ControlInv, Good, Power, WriteWait
<1>3. udp.ep2.tx = <<>> /\ ~udp.ep2.txcomp
    BY DEF ControlInv, Good, Calls, Underneath, WriteWait
<1>4. prog' \in Prog /\ prog'.at = "write_busy" /\ prog'.len = prog.len
    BY ControlTypes DEF WriteWait, Prog, Places
<1>5. UNCHANGED <<usb_state, udp, host, stream, written>>
    BY DEF WriteWait
<1>6. Power(usb_state, udp, host, prog)'
    BY <1>2, <1>5 DEF ControlInv, Good, Power
<1>7. Calls(usb_state, udp, host, prog)'
    BY <1>1, <1>2, <1>3, <1>4, <1>5 DEF ControlInv, Good, Calls, Underneath
<1> QED
    BY <1>4, <1>5, <1>6, <1>7, PlaceChanges

LEMMA WriteBusyKeeps ==
    ASSUME ControlInv, WriteBusy
    PROVE  ControlInv' /\ (StreamsInv => StreamsInv')
<1>1. /\ host.config = 1 /\ host.ctl = None /\ ~udp.ep0.txcomp
      /\ udp.flags = {} /\ ~host.asleep /\ prog.len \in Writes
      /\ udp.ep2.tx = <<>> /\ ~udp.ep2.txcomp
    BY DEF ControlInv, Good, Calls, WriteBusy
<1>2. /\ usb_state' \in Driver /\ usb_state'.status = "USB_BUSY"
      /\ SameDriver(usb_state, usb_state') /\ usb_state'.tx = usb_state.tx
    BY ControlTypes DEF WriteBusy, Driver, Status, SameDriver
<1>3. prog' \in Prog /\ prog'.at = "write_send" /\ prog'.len = prog.len
    BY ControlTypes DEF WriteBusy, Prog, Places
<1>4. UNCHANGED <<udp, host, stream, written>>
    BY DEF WriteBusy
<1>5. Transfer(usb_state', udp', host')
    BY <1>2, <1>4, TransferFrame DEF SameDriver, ControlInv, Good
<1>6. Named(usb_state', udp', host')
    BY <1>2, <1>4 DEF SameDriver, ControlInv, Good, Named
<1>7. Power(usb_state', udp', host', prog')
    BY <1>1, <1>2, <1>4 DEF Power, Underneath
<1>8. Calls(usb_state', udp', host', prog')
    BY <1>1, <1>2, <1>3, <1>4 DEF Calls
<1>9. ControlInv'
    BY <1>2, <1>3, <1>4, <1>5, <1>6, <1>7, <1>8, ControlTypes DEF ControlInv, Good, Typed
<1>10. StreamsInv => StreamsInv'
    BY <1>2, <1>4 DEF StreamsInv, Ep1Inv, Ep2Inv, Banked, Received, SameDriver
<1> QED
    BY <1>9, <1>10

LEMMA WriteSendKeeps ==
    ASSUME ControlInv, WriteSend
    PROVE  ControlInv' /\ (OnePacket /\ StreamsInv => StreamsInv')
<1> DEFINE message == [k \in 1..prog.len |-> <<prog.turn, k>>]
           s == WriteEp2(Pair(usb_state, udp), message)
           e == [udp.ep2 EXCEPT !.tx = IF udp.ep2.on THEN Append(@, Head(message)) ELSE @]
<1>1. /\ host.config = 1 /\ host.ctl = None /\ ~udp.ep0.txcomp
      /\ udp.flags = {} /\ ~host.asleep /\ prog.len \in Writes
      /\ udp.ep2.tx = <<>> /\ ~udp.ep2.txcomp /\ usb_state.status = "USB_BUSY"
    BY DEF ControlInv, Good, Calls, WriteSend
<1>2. /\ message \in Message /\ Len(message) = prog.len /\ message # <<>>
      /\ Head(message) \in {0, 1} \X Nat /\ Tail(message) \in Message
    <2>1. prog.len \in Nat /\ prog.len > 0 /\ prog.turn \in {0, 1}
        BY <1>1, UsbAssumption, ControlTypes DEF Prog
    <2>2. message \in [1..prog.len -> {0, 1} \X Nat]
        BY <2>1
    <2> HIDE DEF message
    <2>3. message \in Message /\ Len(message) = prog.len
        BY <2>1, <2>2 DEF Message
    <2>4. message # <<>>
        BY <2>1, <2>3
    <2> QED
        BY <2>3, <2>4 DEF Message
<1> HIDE DEF message
<1>3. /\ usb_state' = [s.u EXCEPT !.status = usb_state.status] /\ udp' = s.c
      /\ written' = IF udp.ep2.on THEN written \o message ELSE written
      /\ prog' = [prog EXCEPT !.at = "idle", !.turn = 1 - @]
      /\ UNCHANGED <<host, stream>>
    BY DEF WriteSend, Pair, message
<1>4. e \in Ep2 /\ e.txcomp = udp.ep2.txcomp
      /\ e.tx = IF udp.ep2.on THEN Append(udp.ep2.tx, Head(message)) ELSE udp.ep2.tx
    <2> DEFINE sent == IF udp.ep2.on THEN Append(udp.ep2.tx, Head(message)) ELSE udp.ep2.tx
    <2>1. udp.ep2 \in Ep2 /\ udp.ep2.tx \in Message
        BY ControlTypes DEF Controller, Ep2
    <2>2. Append(udp.ep2.tx, Head(message)) \in Message
        BY <1>2, <2>1, AppendProperties DEF Message
    <2>3. sent \in Message
        BY <2>1, <2>2
    <2>4. e = [udp.ep2 EXCEPT !.tx = sent]
        OBVIOUS
    <2>5. e.tx = sent
        BY <2>1, <2>4 DEF Ep2
    <2> HIDE DEF sent, e
    <2>6. e \in Ep2 /\ e.txcomp = udp.ep2.txcomp
        BY <2>1, <2>3, <2>4 DEF Ep2
    <2> QED
        BY <2>5, <2>6 DEF sent
<1>5. udp' = [udp EXCEPT !.ep2 = e]
    BY <1>3, ControlTypes DEF WriteEp2, Pair, Controller, Ep2
<1> HIDE DEF e
<1>6. /\ udp' \in Controller /\ udp'.flags = udp.flags /\ udp'.faddr = udp.faddr
      /\ udp'.mode = udp.mode /\ udp'.ep0 = udp.ep0 /\ udp'.ep1 = udp.ep1 /\ udp'.ep2 = e
    BY <1>4, <1>5, ControlTypes DEF Controller
<1> DEFINE tx == [usb_state.tx EXCEPT ![1] = Tail(message)]
<1>7. tx \in [{0, 1} -> AnyData \cup Message] /\ tx[0] = usb_state.tx[0]
    BY <1>2, ControlTypes DEF Driver
<1>8. usb_state' = [usb_state EXCEPT !.status = usb_state.status, !.tx = tx]
    BY <1>3, ControlTypes DEF WriteEp2, Pair, Driver
<1> HIDE DEF tx
<1>9. /\ usb_state' \in Driver /\ usb_state'.status = "USB_BUSY"
      /\ SameDriver(usb_state, usb_state') /\ usb_state'.tx[0] = usb_state.tx[0]
    BY <1>1, <1>7, <1>8, ControlTypes DEF Driver, SameDriver
<1>10. prog' \in Prog /\ prog'.at = "idle"
    <2>1. 1 - prog.turn \in {0, 1}
        BY ControlTypes DEF Prog
    <2> QED
        BY <1>3, <2>1, ControlTypes DEF Prog, Places
<1>11. Transfer(usb_state', udp', host')
    BY <1>3, <1>6, <1>9, TransferFrame DEF SameDriver, ControlInv, Good
<1>12. Named(usb_state', udp', host')
    BY <1>3, <1>6, <1>9 DEF SameDriver, ControlInv, Good, Named
<1>13. Power(usb_state', udp', host', prog')
    BY <1>1, <1>3, <1>6, <1>9 DEF Power, Underneath
<1>14. Calls(usb_state', udp', host', prog')
    BY <1>1, <1>3, <1>4, <1>6, <1>9, <1>10 DEF Calls, Underneath
<1>15. ControlInv'
    BY <1>3, <1>6, <1>9, <1>10, <1>11, <1>12, <1>13, <1>14, ControlTypes
    DEF ControlInv, Good, Typed
<1>16. Ep1Inv => Ep1Inv'
    BY <1>3, <1>6, <1>9 DEF Ep1Inv, Banked, Received, SameDriver
<1>17. ASSUME OnePacket, Ep2Inv
       PROVE  Ep2Inv'
    <2>1. Len(message) = 1
        BY <1>1, <1>2, <1>17 DEF OnePacket
    <2>2. message = <<Head(message)>>
        BY <1>2, <2>1 DEF Message
    <2>3. written = <<>>
        BY <1>1, <1>17 DEF Ep2Inv
    <2>4. udp'.ep2.tx = written' /\ Len(written') <= 1
        <3>1. CASE udp.ep2.on
            <4>1. udp'.ep2.tx = <<Head(message)>>
                BY <1>1, <1>4, <1>6, <3>1
            <4>2. written' = message
                BY <1>2, <1>3, <2>3, <3>1 DEF Message
            <4>3. Len(written') = 1 /\ udp'.ep2.tx = written'
                BY <2>1, <2>2, <4>1, <4>2, Zenon
            <4> QED
                BY <4>3
        <3>2. CASE ~udp.ep2.on
            BY <1>3, <1>4, <1>6, <1>17, <3>2 DEF Ep2Inv
        <3> QED
            BY <3>1, <3>2
    <2> QED
        BY <1>3, <1>17, <2>4 DEF Ep2Inv
<1> QED
    BY <1>15, <1>16, <1>17 DEF StreamsInv

---------------------------------------------------------------------------
(* The steps of the host *)

\* A step on the control endpoint, while no message is written or on its way.
LEMMA ControlStep ==
    ASSUME NEW u, NEW c, NEW h, NEW p, Good(u, c, h, p), ~h.asleep,
           "ENDBUSRES" \notin c.flags, c.ep2.tx = <<>>, ~c.ep2.txcomp,
           p.at \notin {"write_check", "write_wait", "write_busy", "write_send"},
           NEW d \in Controller, d.flags = c.flags, d.faddr = c.faddr, d.mode = c.mode,
                                 d.ep1 = c.ep1, d.ep2 = c.ep2,
           NEW g \in Host, ~g.asleep,
           Transfer(u, d, g), Named(u, d, g)
    PROVE  Good(u, d, g, p)
<1>1. Power(u, d, g, p)
    BY DEF Good, Power
<1>2. Calls(u, d, g, p)
    BY DEF Good, Calls
<1> QED
    BY <1>1, <1>2 DEF Good, Typed

\* In a transfer no message is written or on its way, and the host is awake.
LEMMA TransferIs ==
    ASSUME ControlInv, host.ctl # None
    PROVE  /\ udp.ep2.tx = <<>> /\ ~udp.ep2.txcomp
           /\ prog.at \notin {"write_check", "write_wait", "write_busy", "write_send"}
           /\ ~Rested(usb_state, udp, host)
           /\ "ENDBUSRES" \notin udp.flags
BY DEF ControlInv, Good, Calls, Rested, Named

\* What the streams are made of does not change.
LEMMA StreamsStep ==
    ASSUME usb_state' = usb_state, stream' = stream, written' = written,
           udp'.flags = udp.flags, udp'.ep1 = udp.ep1, udp'.ep2 = udp.ep2,
           host'.wrong = host.wrong
    PROVE  StreamsInv => StreamsInv'
BY DEF StreamsInv, Ep1Inv, Ep2Inv, Banked, Received

LEMMA HostSetupKeeps ==
    ASSUME AllRules, ControlInv, HostSetup
    PROVE  ControlInv' /\ (StreamsInv => StreamsInv')
<1> USE ControlTypes
<1>1. /\ ~host.asleep /\ "ENDBUSRES" \notin udp.flags /\ udp.faddr = host.addr
      /\ host.ctl = None /\ ~udp.ep0.txcomp /\ udp.ep2.tx = <<>> /\ ~udp.ep2.txcomp
      /\ prog.at \notin {"write_check", "write_wait", "write_busy", "write_send"}
    BY DEF HostSetup, Awake, HostMay, AllRules, Pending, Writing
<1>2. Rested(usb_state, udp, host)
    BY <1>1, RequestIs
    DEF ControlInv, Good, Transfer, Asked, Answering, Answered, Acknowledged, Refused
<1>3. usb_state.new_address = 0 /\ ~host.done
    BY <1>1, <1>2 DEF Rested
<1>4. PICK r \in Requests :
          /\ r.what = "config" => r.asked <= SizeOf["config"]
          /\ r.what \in {"set_config", "unknown"} => host.config = 0
          /\ r.what = "set_config" => host.addr # 0
          /\ r.what = "set_address" => host.addr = 0
          /\ host' = [host EXCEPT !.ctl = r, !.got = <<>>]
          /\ udp' = [udp EXCEPT !.ep0 = [NoEp0 EXCEPT !.setup = r, !.out = udp.ep0.out,
                                                      !.txcomp = udp.ep0.txcomp]]
    BY DEF HostSetup, AllRules
<1>5. r \in AnyRequest /\ r # None
    BY RequestIs
<1> DEFINE e == [NoEp0 EXCEPT !.setup = r, !.out = udp.ep0.out, !.txcomp = udp.ep0.txcomp]
<1>6. /\ e \in Ep0 /\ e.setup = r /\ ~e.full /\ e.tx = Nothing /\ ~e.stall /\ ~e.txcomp
    <2>1. Nothing \in AnyData
        BY DEF Nothing, Data, AnyData, Words
    <2> QED
        BY <1>1, <1>5, <2>1 DEF Controller, Ep0, NoEp0
<1>7. udp' = [udp EXCEPT !.ep0 = e]
    BY <1>4
<1> HIDE DEF e
<1>8. /\ udp' \in Controller /\ udp'.flags = udp.flags /\ udp'.faddr = udp.faddr
      /\ udp'.mode = udp.mode /\ udp'.ep0 = e /\ udp'.ep1 = udp.ep1 /\ udp'.ep2 = udp.ep2
    BY <1>6, <1>7 DEF Controller
<1>9. /\ host' \in Host /\ host'.ctl = r /\ host'.got = <<>> /\ host'.addr = host.addr
      /\ host'.config = host.config /\ ~host'.done /\ ~host'.asleep
      /\ host'.wrong = host.wrong
    BY <1>1, <1>3, <1>4, <1>5, EmptySeq DEF Host
<1>10. UNCHANGED <<usb_state, prog, stream, written>>
    BY DEF HostSetup
<1>11. Transfer(usb_state, udp', host')
    BY <1>3, <1>6, <1>8, <1>9 DEF Transfer, Asked
<1>12. Named(usb_state, udp', host')
    BY <1>1, <1>3, <1>4, <1>5, <1>6, <1>8, <1>9
    DEF Named, ControlInv, Good, None, Request
<1>13. Good(usb_state, udp', host', prog)
    BY <1>1, <1>8, <1>9, <1>11, <1>12, ControlStep DEF ControlInv
<1> QED
    BY <1>8, <1>9, <1>10, <1>13, StreamsStep DEF ControlInv

\* The controller when the host has taken the packet of EP0.
LEMMA TakenIs ==
    ASSUME NEW c \in Controller,
           NEW d, d = [c EXCEPT !.ep0.full = FALSE, !.ep0.tx = Nothing, !.ep0.txcomp = TRUE]
    PROVE  /\ d \in Controller /\ SameController(c, d)
           /\ d.ep0.setup = c.ep0.setup /\ ~d.ep0.full /\ d.ep0.tx = Nothing
           /\ d.ep0.stall = c.ep0.stall /\ d.ep0.txcomp
<1> DEFINE e == [c.ep0 EXCEPT !.full = FALSE, !.tx = Nothing, !.txcomp = TRUE]
<1>1. Nothing \in AnyData
    BY DEF Nothing, Data, AnyData, Words
<1>2. /\ e \in Ep0 /\ e.setup = c.ep0.setup /\ ~e.full /\ e.tx = Nothing
      /\ e.stall = c.ep0.stall /\ e.txcomp
    BY <1>1 DEF Controller, Ep0
<1>3. d = [c EXCEPT !.ep0 = e]
    BY DEF Controller, Ep0
<1> HIDE DEF e
<1>4. d \in Controller /\ SameController(c, d) /\ d.ep0 = e
    BY <1>2, <1>3 DEF Controller, SameController
<1> QED
    BY <1>2, <1>4

\* A packet of an answer: it is the last one exactly when it ends the answer.
LEMMA AnswerTaken ==
    ASSUME NEW u, NEW c \in Controller, NEW h \in Host, Answering(u, c, h), c.ep0.full,
           NEW d \in Controller, d.ep0.setup = c.ep0.setup, ~d.ep0.full, d.ep0.tx = Nothing,
                                 d.ep0.stall = c.ep0.stall, d.ep0.txcomp,
           NEW got, got = h.got \o Units(c.ep0.tx),
           NEW g, g.ctl = h.ctl, g.got = got,
                  g.done = (c.ep0.tx.len < MaxEp0 \/ Len(got) >= h.ctl.asked)
    PROVE  Transfer(u, d, g) /\ got \in Seq(Unit)
<1> DEFINE what == h.ctl.what
           total == Total(h.ctl)
           n == Len(h.got)
           left == total - n
           len == IF left <= 2 THEN left ELSE 2
<1>1. /\ h.ctl \in Requests /\ what \in Answers /\ n <= total
      /\ h.got = Units(Data(what, 0, n))
      /\ c.ep0.setup = None /\ ~c.ep0.stall /\ u.new_address = 0
      /\ c.ep0.tx = Data(what, n, Min({left, MaxEp0}))
      /\ u.tx[0] = Rest(what, n + Min({left, MaxEp0}), total)
    BY DEF Answering
<1>2. n \in Nat
    <2>1. h.got \in Seq(Unit)
        BY DEF Host
    <2> QED
        BY <2>1, LenProperties
<1>3. total \in Nat /\ total <= h.ctl.asked /\ h.ctl.asked \in Nat /\ what \in Words
    BY <1>1, TotalIs, RequestIs DEF Words
<1> HIDE DEF n, total, what
<1>4. left \in Nat /\ len \in Nat /\ n + len <= total /\ n + len \in Nat
    BY <1>1, <1>2, <1>3
<1>5. Min({left, MaxEp0}) = len
    BY <1>4, MinOfTwo DEF MaxEp0
<1>6. /\ c.ep0.tx = Data(what, n, len) /\ c.ep0.tx.len = len
      /\ u.tx[0] = Rest(what, n + len, total)
    BY <1>1, <1>5 DEF Data
<1>7. got = Units(Data(what, 0, n + len)) /\ got \in Seq(Unit) /\ Len(got) = n + len
    <2> HIDE DEF len
    <2>1. got = Units(Data(what, 0, n)) \o Units(Data(what, n, len))
        BY <1>1, <1>6
    <2>2. got = Units(Data(what, 0, n + len))
        BY <1>2, <1>3, <1>4, <2>1, UnitsJoin
    <2> QED
        BY <1>3, <1>4, <2>2, UnitsOf
<1>8. CASE g.done
    <2>1. len < 2 \/ n + len >= h.ctl.asked
        BY <1>6, <1>7, <1>8 DEF MaxEp0
    <2>2. n + len = total
        BY <1>2, <1>3, <1>4, <2>1
    <2>3. u.tx[0] = Nothing
        BY <1>3, <1>6, <2>2 DEF Rest
    <2>4. Answered(u, d, g)
        BY <1>1, <1>7, <1>8, <2>2, <2>3 DEF Answered, EmptyEp0, what, total
    <2> QED
        BY <1>7, <2>4 DEF Transfer
<1>9. CASE ~g.done
    <2> HIDE DEF len
    <2>1. Answering(u, d, g)
        BY <1>1, <1>4, <1>6, <1>7, <1>9 DEF Answering, what, total
    <2> QED
        BY <1>7, <2>1 DEF Transfer
<1> QED
    BY <1>8, <1>9

LEMMA HostTakesKeeps ==
    ASSUME ControlInv, HostTakes
    PROVE  ControlInv' /\ (StreamsInv => StreamsInv')
<1> USE ControlTypes
<1> DEFINE got == host.got \o Units(udp.ep0.tx)
           done == udp.ep0.tx.len < MaxEp0 \/ Len(got) >= host.ctl.asked
<1>1. /\ ~host.asleep /\ udp.faddr = host.addr /\ host.ctl # None /\ ~host.done
      /\ udp.ep0.full /\ udp.ep0.setup = None
      /\ udp' = [udp EXCEPT !.ep0.full = FALSE, !.ep0.tx = Nothing, !.ep0.txcomp = TRUE]
      /\ UNCHANGED <<usb_state, prog, stream, written>>
    BY DEF HostTakes, Awake
<1>2. /\ udp.ep2.tx = <<>> /\ ~udp.ep2.txcomp /\ "ENDBUSRES" \notin udp.flags
      /\ prog.at \notin {"write_check", "write_wait", "write_busy", "write_send"}
    BY <1>1, TransferIs
<1>3. /\ udp' \in Controller /\ SameController(udp, udp')
      /\ udp'.ep0.setup = udp.ep0.setup /\ ~udp'.ep0.full /\ udp'.ep0.tx = Nothing
      /\ udp'.ep0.stall = udp.ep0.stall /\ udp'.ep0.txcomp
    BY <1>1, TakenIs
<1>4. \/ Answering(usb_state, udp, host)
      \/ Acknowledged(usb_state, udp, host)
    BY <1>1, TransferIs DEF ControlInv, Good, Transfer, Asked, Answered, Refused, EmptyEp0
<1>5. Named(usb_state, udp, host)
    BY DEF ControlInv, Good
<1>6. ASSUME /\ host' \in Host /\ ~host'.asleep /\ host'.wrong = host.wrong
             /\ Transfer(usb_state, udp', host') /\ Named(usb_state, udp', host')
      PROVE  ControlInv' /\ (StreamsInv => StreamsInv')
    <2>1. Good(usb_state, udp', host', prog)
        BY <1>1, <1>2, <1>3, <1>6, ControlStep DEF ControlInv, SameController
    <2> QED
        BY <1>1, <1>3, <1>6, <2>1, StreamsStep DEF ControlInv, SameController
<1>7. CASE Answering(usb_state, udp, host)
    <2>1. host.ctl.what \in Answers /\ host.ctl \in Requests
        BY <1>7 DEF Answering
    <2>2. host' = IF done THEN [host EXCEPT !.got = got, !.done = TRUE]
                          ELSE [host EXCEPT !.got = got]
        BY <2>1 DEF HostTakes
    <2> HIDE DEF got, done
    <2>3. /\ host'.ctl = host.ctl /\ host'.got = got /\ host'.done = done
          /\ host'.addr = host.addr /\ host'.config = host.config
          /\ ~host'.asleep /\ host'.wrong = host.wrong
        BY <1>1, <2>2 DEF Host, done
    <2>4. Transfer(usb_state, udp', host') /\ got \in Seq(Unit)
        BY <1>1, <1>3, <1>7, <2>3, AnswerTaken DEF got, done
    <2>5. host' \in Host
        BY <2>2, <2>4 DEF Host
    <2>6. Named(usb_state, udp', host')
        BY <1>3, <1>5, <2>3 DEF Named, SameController
    <2> QED
        BY <1>6, <2>3, <2>4, <2>5, <2>6
<1>8. CASE Acknowledged(usb_state, udp, host)
    <2> DEFINE r == host.ctl
    <2>1. /\ r \in Requests /\ r.what \in {"feature", "set_config", "set_address"}
          /\ usb_state.new_address = r.value /\ usb_state.tx[0] = Nothing
          /\ udp.ep0.tx = Nothing /\ ~udp.ep0.stall
        BY <1>8 DEF Acknowledged
    <2>2. /\ r.what \notin Answers /\ r \in AnyRequest
          /\ r.what # "set_address" => r.value = 0
          /\ r.what = "set_address" => r.value # 0
        BY <2>1, RequestIs, UsbAssumption DEF Orders
    <2>3. got \in Seq(Unit)
        BY <2>1, UnitsOfNothing, EmptySeq, ConcatProperties DEF Host
    <2>4. host' = IF r.what = "set_config" THEN [host EXCEPT !.got = got, !.ctl = None, !.config = 1]
                  ELSE IF r.what = "feature" THEN [host EXCEPT !.got = got, !.ctl = None]
                  ELSE [host EXCEPT !.got = got, !.ctl = None, !.addr = r.value]
        BY <2>2 DEF HostTakes
    <2>5. None \in AnyRequest /\ r.value \in Nat
        BY <2>2 DEF None, Request, AnyRequest, Words
    <2> HIDE DEF got
    <2>6. /\ host' \in Host /\ host'.ctl = None /\ ~host'.done
          /\ ~host'.asleep /\ host'.wrong = host.wrong
          /\ host'.config = IF r.what = "set_config" THEN 1 ELSE host.config
          /\ host'.addr = IF r.what = "set_address" THEN r.value ELSE host.addr
        BY <1>1, <2>1, <2>3, <2>4, <2>5 DEF Host
    <2>7. /\ r.what = "set_config" => usb_state.config = 1 /\ host.addr # 0
          /\ r.what # "set_config" => usb_state.config = host.config
          /\ r.what = "set_address" => host.addr = 0 /\ host.config = 0
          /\ host.config = 1 => host.addr # 0
        BY <1>1, <1>2, <1>5 DEF Named, Host
    <2>8. Transfer(usb_state, udp', host')
        BY <1>1, <1>3, <2>1, <2>2, <2>6, <2>7 DEF Transfer, Rested, EmptyEp0
    <2>9. Named(usb_state, udp', host')
        BY <1>1, <1>2, <1>3, <1>5, <2>1, <2>2, <2>6, <2>7
        DEF Named, SameController, None, Request
    <2> QED
        BY <1>6, <2>6, <2>8, <2>9
<1> QED
    BY <1>4, <1>7, <1>8

LEMMA HostAcksKeeps ==
    ASSUME ControlInv, HostAcks
    PROVE  ControlInv' /\ (StreamsInv => StreamsInv')
<1> USE ControlTypes
<1> DEFINE e == [udp.ep0 EXCEPT !.out = TRUE]
<1>1. /\ ~host.asleep /\ "ENDBUSRES" \notin udp.flags /\ host.done
      /\ host' = [host EXCEPT !.ctl = None, !.done = FALSE, !.got = <<>>]
      /\ udp' = [udp EXCEPT !.ep0.out = TRUE]
      /\ UNCHANGED <<usb_state, prog, stream, written>>
    BY DEF HostAcks, Awake
<1>2. Answered(usb_state, udp, host)
    BY <1>1 DEF ControlInv, Good, Transfer, Rested, Asked, Answering, Acknowledged, Refused
<1>3. /\ host.ctl \in Requests /\ host.ctl # None /\ host.ctl.what \notin Orders
      /\ EmptyEp0(udp) /\ usb_state.new_address = 0 /\ usb_state.tx[0] = Nothing
    BY <1>2, RequestIs DEF Answered
<1>4. /\ udp.ep2.tx = <<>> /\ ~udp.ep2.txcomp
      /\ prog.at \notin {"write_check", "write_wait", "write_busy", "write_send"}
    BY <1>3, TransferIs
<1>5. /\ e \in Ep0 /\ e.setup = None /\ ~e.full /\ e.tx = Nothing /\ ~e.stall
    BY <1>3 DEF Controller, Ep0, EmptyEp0
<1>6. udp' = [udp EXCEPT !.ep0 = e]
    BY <1>1 DEF Controller, Ep0
<1> HIDE DEF e
<1>7. udp' \in Controller /\ SameController(udp, udp') /\ udp'.ep0 = e
    BY <1>5, <1>6 DEF Controller, SameController
<1>8. /\ host' \in Host /\ host'.ctl = None /\ ~host'.done /\ ~host'.asleep
      /\ host'.addr = host.addr /\ host'.config = host.config /\ host'.wrong = host.wrong
    <2>1. None \in AnyRequest /\ <<>> \in Seq(Unit)
        BY EmptySeq DEF None, Request, AnyRequest, Words
    <2> QED
        BY <1>1, <2>1 DEF Host
<1>9. Transfer(usb_state, udp', host')
    BY <1>3, <1>5, <1>7, <1>8 DEF Transfer, Rested, EmptyEp0
<1>10. Named(usb_state, udp', host')
    BY <1>1, <1>3, <1>7, <1>8
    DEF ControlInv, Good, Named, SameController, None, Request, Orders
<1>11. Good(usb_state, udp', host', prog)
    BY <1>1, <1>4, <1>7, <1>8, <1>9, <1>10, ControlStep DEF ControlInv, SameController
<1> QED
    BY <1>1, <1>7, <1>8, <1>11, StreamsStep DEF ControlInv, SameController

LEMMA HostStalledKeeps ==
    ASSUME ControlInv, HostStalled
    PROVE  ControlInv' /\ (StreamsInv => StreamsInv')
<1> USE ControlTypes
<1> DEFINE e == [udp.ep0 EXCEPT !.stall = FALSE, !.stalled = TRUE]
<1>1. /\ ~host.asleep /\ "ENDBUSRES" \notin udp.flags /\ host.ctl # None /\ udp.ep0.stall
      /\ host' = [host EXCEPT !.ctl = None]
      /\ udp' = [udp EXCEPT !.ep0.stall = FALSE, !.ep0.stalled = TRUE]
      /\ UNCHANGED <<usb_state, prog, stream, written>>
    BY DEF HostStalled, Awake
<1>2. Refused(usb_state, udp, host)
    BY <1>1, TransferIs
    DEF ControlInv, Good, Transfer, Asked, Answering, Answered, Acknowledged, EmptyEp0
<1>3. /\ host.ctl.what = "unknown" /\ ~host.done /\ usb_state.new_address = 0
      /\ udp.ep0.setup = None /\ ~udp.ep0.full /\ udp.ep0.tx = Nothing /\ ~udp.ep0.txcomp
    BY <1>2 DEF Refused
<1>4. host.config = 0 /\ usb_state.config = 0
    BY <1>1, <1>3 DEF ControlInv, Good, Named
<1>5. /\ udp.ep2.tx = <<>> /\ ~udp.ep2.txcomp
      /\ prog.at \notin {"write_check", "write_wait", "write_busy", "write_send"}
    BY <1>1, TransferIs
<1>6. e \in Ep0 /\ e.setup = None /\ ~e.full /\ e.tx = Nothing /\ ~e.stall /\ ~e.txcomp
    BY <1>3 DEF Controller, Ep0
<1>7. udp' = [udp EXCEPT !.ep0 = e]
    BY <1>1 DEF Controller, Ep0
<1> HIDE DEF e
<1>8. udp' \in Controller /\ SameController(udp, udp') /\ udp'.ep0 = e
    BY <1>6, <1>7 DEF Controller, SameController
<1>9. /\ host' \in Host /\ host'.ctl = None /\ ~host'.done /\ ~host'.asleep
      /\ host'.addr = host.addr /\ host'.config = host.config /\ host'.wrong = host.wrong
    <2>1. None \in AnyRequest
        BY DEF None, Request, AnyRequest, Words
    <2> QED
        BY <1>1, <1>3, <2>1 DEF Host
<1>10. Transfer(usb_state, udp', host')
    BY <1>3, <1>4, <1>6, <1>8, <1>9 DEF Transfer, Rested, EmptyEp0
<1>11. Named(usb_state, udp', host')
    BY <1>1, <1>3, <1>4, <1>8, <1>9
    DEF ControlInv, Good, Named, SameController, None, Request
<1>12. Good(usb_state, udp', host', prog)
    BY <1>1, <1>5, <1>8, <1>9, <1>10, <1>11, ControlStep DEF ControlInv, SameController
<1> QED
    BY <1>1, <1>8, <1>9, <1>12, StreamsStep DEF ControlInv, SameController

\* The host fills the banks in the order in which the driver reads them.
LEMMA HostSendsKeeps ==
    ASSUME ControlInv, HostSends
    PROVE  ControlInv' /\ (StreamsInv => StreamsInv')
<1> USE ControlTypes
<1> DEFINE next == host.next
           fill == udp.ep1.fill
           r == udp.ep1.read
           o == OtherBank(r)
           b == udp.ep1.bank
           e == [udp.ep1 EXCEPT !.bank = [b EXCEPT ![fill] = next], !.fill = OtherBank(fill)]
<1>1. /\ ~host.asleep /\ "ENDBUSRES" \notin udp.flags /\ b[fill] = NoPacket
      /\ stream' = Append(stream, next)
      /\ host' = [host EXCEPT !.next = (next + 1) % 3]
      /\ UNCHANGED <<usb_state, prog, written>>
    BY DEF HostSends, Awake
<1>2. /\ fill \in Banks /\ r \in Banks /\ b \in [Banks -> BankContents]
      /\ o \in Banks /\ o # r /\ OtherBank(o) = r /\ \A a \in Banks : a = r \/ a = o
    BY OtherBankIs DEF Controller, Ep1
<1>3. next \in Packets /\ next \in BankContents /\ next # NoPacket /\ OtherBank(fill) \in Banks
    BY <1>2, OtherBankIs DEF Host, Packets, BankContents, NoPacket
<1>4. /\ e \in Ep1 /\ e.bank = [b EXCEPT ![fill] = next] /\ e.fill = OtherBank(fill)
      /\ e.read = r
    BY <1>2, <1>3 DEF Controller, Ep1
<1>5. udp' = [udp EXCEPT !.ep1 = e]
    BY DEF HostSends, Controller, Ep1
<1> HIDE DEF e
<1>6. /\ udp' \in Controller /\ udp'.flags = udp.flags /\ udp'.faddr = udp.faddr
      /\ udp'.mode = udp.mode /\ udp'.ep0 = udp.ep0 /\ udp'.ep1 = e /\ udp'.ep2 = udp.ep2
    BY <1>4, <1>5 DEF Controller
<1>7. /\ host' \in Host /\ host'.ctl = host.ctl /\ host'.done = host.done
      /\ host'.got = host.got /\ host'.addr = host.addr /\ host'.config = host.config
      /\ ~host'.asleep /\ host'.wrong = host.wrong
    <2>1. (next + 1) % 3 \in Packets
        BY <1>3 DEF Packets
    <2> QED
        BY <1>1, <2>1 DEF Host
<1>8. Transfer(usb_state, udp', host')
    BY <1>6, <1>7, TransferFrame DEF ControlInv, Good
<1>9. /\ Named(usb_state, udp', host') /\ Power(usb_state, udp', host', prog)
      /\ Calls(usb_state, udp', host', prog)
    BY <1>1, <1>6, <1>7 DEF ControlInv, Good, Named, Power, Calls
<1>10. ControlInv'
    BY <1>1, <1>6, <1>7, <1>8, <1>9 DEF ControlInv, Good, Typed
<1>11. ASSUME Banked(usb_state, udp), Received(usb_state, udp, stream)
       PROVE  Banked(usb_state', udp') /\ Received(usb_state', udp', stream')
    <2> DEFINE buf == IF usb_state.rx_len > 0 THEN <<usb_state.buf>> ELSE <<>>
    <2>1. /\ usb_state.bank = r /\ (b[r] = NoPacket => b[o] = NoPacket)
          /\ fill = IF b[r] # NoPacket /\ b[o] = NoPacket THEN o ELSE r
        BY <1>1, <1>11 DEF Banked
    <2>2. buf \in Seq(BankContents)
        BY EmptySeq DEF Driver
    <2>3. stream = buf \o InBank(udp.ep1, r) \o InBank(udp.ep1, o)
        BY <1>11 DEF Received
    <2>4. usb_state' = usb_state /\ udp'.flags = udp.flags /\ udp'.ep1 = e
        BY <1>1, <1>6
    <2>5. \A x : x = o => OtherBank(x) = r
        BY <1>2
    <2> HIDE DEF buf
    <2>6. CASE fill = o
        <3>1. b[r] # NoPacket /\ b[o] = NoPacket /\ b[r] \in BankContents
            BY <1>1, <1>2, <2>1, <2>6
        <3>2. e.bank[r] = b[r] /\ e.bank[o] = next /\ e.fill = r
            BY <1>2, <1>4, <2>6
        <3>3. InBank(udp.ep1, r) = <<b[r]>> /\ InBank(udp.ep1, o) = <<>>
            BY <3>1 DEF InBank
        <3>4. InBank(e, r) = <<b[r]>> /\ InBank(e, o) = <<next>>
            BY <1>3, <3>1, <3>2 DEF InBank
        <3>5. stream' = buf \o <<b[r]>> \o <<next>>
            <4>1. stream' = Append(buf \o <<b[r]>> \o <<>>, next)
                BY <1>1, <2>3, <3>3
            <4> HIDE DEF next, b, r
            <4> QED
                BY <1>3, <2>2, <3>1, <4>1
        <3>6. Received(usb_state', udp', stream')
            BY <1>4, <2>4, <3>4, <3>5, Zenon DEF Received, buf
        <3>7. Banked(usb_state', udp')
            BY <1>1, <1>3, <1>4, <2>1, <2>4, <3>1, <3>2 DEF Banked
        <3> QED
            BY <3>6, <3>7
    <2>7. CASE fill = r
        <3>1. b[r] = NoPacket /\ b[o] = NoPacket
            BY <1>1, <2>1, <2>7
        <3>2. e.bank[r] = next /\ e.bank[o] = NoPacket /\ e.fill = o
            BY <1>2, <1>4, <2>7, <3>1
        <3>3. InBank(udp.ep1, r) = <<>> /\ InBank(udp.ep1, o) = <<>>
            BY <3>1 DEF InBank
        <3>4. InBank(e, r) = <<next>> /\ InBank(e, o) = <<>>
            BY <1>3, <3>2 DEF InBank
        <3>5. stream' = buf \o <<next>> \o <<>>
            <4>1. stream' = Append(buf \o <<>> \o <<>>, next)
                BY <1>1, <2>3, <3>3
            <4> HIDE DEF next
            <4> QED
                BY <1>3, <2>2, <4>1
        <3>6. Received(usb_state', udp', stream')
            BY <1>4, <2>4, <3>4, <3>5, Zenon DEF Received, buf
        <3>7. Banked(usb_state', udp')
            BY <1>1, <1>3, <1>4, <2>1, <2>4, <3>1, <3>2 DEF Banked
        <3> QED
            BY <3>6, <3>7
    <2> QED
        BY <1>2, <2>6, <2>7
<1>12. Ep2Inv => Ep2Inv'
    BY <1>1, <1>6, <1>7 DEF Ep2Inv
<1> QED
    BY <1>10, <1>11, <1>12 DEF StreamsInv, Ep1Inv

LEMMA SingleIs ==
    ASSUME NEW S, NEW q \in Seq(S), q # <<>>, Len(q) <= 1
    PROVE  Len(q) = 1 /\ q = <<Head(q)>> /\ Tail(q) = <<>>
<1>1. Len(q) = 1
    <2>1. Len(q) \in Nat /\ Len(q) # 0
        BY EmptySeq
    <2> QED
        BY <2>1
<1>2. q = <<Head(q)>>
    BY <1>1
<1>3. Tail(q) \in Seq(S) /\ Len(Tail(q)) = 0
    BY <1>1, HeadTailProperties
<1> QED
    BY <1>1, <1>2, <1>3, EmptySeq

LEMMA HostReceivesKeeps ==
    ASSUME ControlInv, HostReceives
    PROVE  ControlInv' /\ (StreamsInv => StreamsInv')
<1> USE ControlTypes
<1> DEFINE e == [udp.ep2 EXCEPT !.tx = <<>>, !.txcomp = TRUE]
           wrong == udp.ep2.tx # <<Head(written)>>
<1>1. /\ ~host.asleep /\ udp.ep2.tx # <<>>
      /\ host' = [host EXCEPT !.wrong = wrong] /\ written' = Tail(written)
      /\ UNCHANGED <<usb_state, prog, stream>>
    BY DEF HostReceives, Awake
<1>2. e \in Ep2 /\ e.tx = <<>> /\ e.txcomp
    BY EmptySeq DEF Controller, Ep2, Message
<1>3. udp' = [udp EXCEPT !.ep2 = e]
    BY DEF HostReceives, Controller, Ep2
<1> HIDE DEF e
<1>4. /\ udp' \in Controller /\ udp'.flags = udp.flags /\ udp'.faddr = udp.faddr
      /\ udp'.mode = udp.mode /\ udp'.ep0 = udp.ep0 /\ udp'.ep1 = udp.ep1 /\ udp'.ep2 = e
    BY <1>2, <1>3 DEF Controller
<1>5. /\ host' \in Host /\ host'.ctl = host.ctl /\ host'.done = host.done
      /\ host'.got = host.got /\ host'.addr = host.addr /\ host'.config = host.config
      /\ ~host'.asleep /\ host'.wrong = wrong
    <2>1. wrong \in BOOLEAN
        OBVIOUS
    <2> HIDE DEF wrong
    <2> QED
        BY <1>1, <2>1 DEF Host
<1>6. Transfer(usb_state, udp', host')
    BY <1>4, <1>5, TransferFrame DEF ControlInv, Good
<1>7. Named(usb_state, udp', host') /\ Power(usb_state, udp', host', prog)
    BY <1>1, <1>4, <1>5 DEF ControlInv, Good, Named, Power
<1>8. Calls(usb_state, udp', host', prog)
    BY <1>1, <1>2, <1>4, <1>5 DEF ControlInv, Good, Calls
<1>9. ControlInv'
    BY <1>1, <1>4, <1>5, <1>6, <1>7, <1>8 DEF ControlInv, Good, Typed
<1>10. Ep1Inv => Ep1Inv'
    BY <1>1, <1>4 DEF Ep1Inv, Banked, Received
<1>11. ASSUME Ep2Inv
       PROVE  Ep2Inv'
    <2>1. written \in Message /\ written # <<>> /\ Len(written) <= 1 /\ udp.ep2.tx = written
        BY <1>1, <1>11 DEF Ep2Inv, Controller, Ep2
    <2>2. Len(written) = 1 /\ written = <<Head(written)>> /\ Tail(written) = <<>>
        BY <2>1, SingleIs DEF Message
    <2>3. ~wrong
        BY <2>1, <2>2, Zenon
    <2>4. udp'.ep2.tx = written' /\ Len(written') <= 1
        BY <1>1, <1>2, <1>4, <2>2
    <2> QED
        BY <1>5, <2>3, <2>4 DEF Ep2Inv
<1> QED
    BY <1>9, <1>10, <1>11 DEF StreamsInv

LEMMA NewHostIs ==
    ASSUME NEW resets \in Nat, NEW next \in Packets
    PROVE  [NewHost(resets) EXCEPT !.next = next] \in Host /\ NewHost(resets) \in Host
<1>1. None \in AnyRequest /\ <<>> \in Seq(Unit)
    BY EmptySeq DEF None, Request, AnyRequest, Words
<1>2. NewHost(resets) \in Host
    BY <1>1 DEF NewHost, Host, Packets
<1> QED
    BY <1>2 DEF Host

\* A reset empties the endpoints before the driver knows of it.
LEMMA HostResetsKeeps ==
    ASSUME AllRules, ControlInv, HostResets
    PROVE  ControlInv' /\ (StreamsInv => StreamsInv')
<1> USE ControlTypes
<1>1. /\ usb_state.new_address = 0
      /\ prog.at \notin {"write_check", "write_wait", "write_busy", "write_send"}
    BY DEF HostResets, HostMay, AllRules, Writing
<1>2. /\ host' = [NewHost(host.resets + 1) EXCEPT !.next = host.next]
      /\ udp' = [udp EXCEPT !.flags = @ \cup {"ENDBUSRES"}, !.mode = "default",
                            !.ep0 = NoEp0, !.ep1 = NoEp1, !.ep2 = NoEp2]
      /\ stream' = (IF usb_state.rx_len > 0 THEN <<Head(stream)>> ELSE <<>>)
      /\ written' = <<>>
      /\ UNCHANGED <<usb_state, prog>>
    BY DEF HostResets
<1>3. /\ udp' \in Controller /\ "ENDBUSRES" \in udp'.flags
      /\ udp'.ep0 = NoEp0 /\ udp'.ep1 = NoEp1 /\ udp'.ep2 = NoEp2
    <2>1. udp.flags \cup {"ENDBUSRES"} \in SUBSET {"ENDBUSRES", "RXSUSP", "RXRSM"}
        BY DEF Controller
    <2> QED
        BY <1>2, <2>1, NewEndpoints DEF Controller
<1>4. /\ host' \in Host /\ host'.ctl = None /\ ~host'.done /\ host'.addr = 0
      /\ host'.config = 0 /\ ~host'.asleep /\ ~host'.wrong
    <2>1. host.resets + 1 \in Nat /\ host.next \in Packets
        BY DEF Host
    <2>2. host' \in Host
        BY <1>2, <2>1, NewHostIs
    <2> QED
        BY <1>2, <2>2 DEF NewHost
<1>5. Transfer(usb_state, udp', host')
    BY <1>1, <1>3, <1>4 DEF Transfer, Rested, EmptyEp0, NoEp0
<1>6. Named(usb_state, udp', host')
    BY <1>1, <1>3, <1>4 DEF Named, None, Request
<1>7. Power(usb_state, udp', host', prog)
    BY <1>3, <1>4 DEF Power
<1>8. Calls(usb_state, udp', host', prog)
    BY <1>1, <1>3 DEF Calls, NoEp2, ControlInv, Good
<1>9. ControlInv'
    BY <1>2, <1>3, <1>4, <1>5, <1>6, <1>7, <1>8 DEF ControlInv, Good, Typed
<1>10. ASSUME Received(usb_state, udp, stream)
       PROVE  Banked(usb_state', udp') /\ Received(usb_state', udp', stream')
    <2>1. /\ "RX_DATA_BK0" \in Banks /\ OtherBank("RX_DATA_BK0") \in Banks
          /\ \A b \in Banks : NoEp1.bank[b] = NoPacket
          /\ NoEp1.fill = "RX_DATA_BK0" /\ NoEp1.read = "RX_DATA_BK0"
        BY OtherBankIs DEF Banks, NoEp1
    <2>2. Banked(usb_state', udp')
        BY <1>3, <2>1 DEF Banked
    <2>3. InBank(NoEp1, NoEp1.read) = <<>> /\ InBank(NoEp1, OtherBank(NoEp1.read)) = <<>>
        BY <2>1 DEF InBank
    <2> DEFINE r == udp.ep1.read
               a == InBank(udp.ep1, r)
               b == InBank(udp.ep1, OtherBank(r))
    <2>4. r \in Banks /\ OtherBank(r) \in Banks
        BY OtherBankIs DEF Controller, Ep1
    <2>5. a \in Seq(BankContents) /\ b \in Seq(BankContents) /\ usb_state.buf \in BankContents
        BY <2>4, EmptySeq DEF InBank, Controller, Ep1, Driver
    <2>6. stream = (IF usb_state.rx_len > 0 THEN <<usb_state.buf>> ELSE <<>>) \o a \o b
        BY <1>10 DEF Received
    <2> HIDE DEF a, b
    <2>7. stream' = (IF usb_state.rx_len > 0 THEN <<usb_state.buf>> ELSE <<>>)
        <3>1. CASE usb_state.rx_len > 0
            <4>1. stream = <<usb_state.buf>> \o a \o b
                BY <2>6, <3>1
            <4>2. Head(stream) = usb_state.buf
                BY <2>5, <4>1
            <4> QED
                BY <1>2, <3>1, <4>2
        <3>2. CASE ~(usb_state.rx_len > 0)
            BY <1>2, <3>2
        <3> QED
            BY <3>1, <3>2
    <2> DEFINE buf == IF usb_state.rx_len > 0 THEN <<usb_state.buf>> ELSE <<>>
    <2>8. buf \in Seq(BankContents)
        BY <2>5, EmptySeq
    <2> HIDE DEF buf
    <2>9. stream' = buf \o <<>> \o <<>>
        BY <2>7, <2>8 DEF buf
    <2>10. Received(usb_state', udp', stream')
        BY <1>2, <1>3, <2>3, <2>9, Zenon DEF Received, buf
    <2> QED
        BY <2>2, <2>10
<1>11. Ep2Inv'
    BY <1>2, <1>3, <1>4 DEF Ep2Inv, NoEp2
<1> QED
    BY <1>9, <1>10, <1>11 DEF StreamsInv, Ep1Inv

\* The flags of the controller change, and whether the host is awake.
LEMMA PowerChanges ==
    ASSUME ControlInv, UNCHANGED <<usb_state, prog, stream, written>>,
           "ENDBUSRES" \notin udp.flags,
           NEW flag \in {"RXSUSP", "RXRSM"}, udp' = [udp EXCEPT !.flags = @ \cup {flag}],
           NEW asleep \in BOOLEAN, host' = [host EXCEPT !.asleep = asleep]
    PROVE  /\ udp' \in Controller /\ udp'.flags = udp.flags \cup {flag}
           /\ SameController([udp EXCEPT !.flags = udp'.flags], udp') /\ udp'.ep0 = udp.ep0
           /\ host'.asleep = asleep
           /\ host'.ctl = host.ctl /\ host'.config = host.config
           /\ Power(usb_state, udp', host', prog) /\ Calls(usb_state, udp', host', prog)
                  => ControlInv'
           /\ StreamsInv => StreamsInv'
<1> USE ControlTypes
<1>1. udp.flags \cup {flag} \in SUBSET {"ENDBUSRES", "RXSUSP", "RXRSM"}
    BY DEF Controller
<1>2. /\ udp' \in Controller /\ udp'.flags = udp.flags \cup {flag}
      /\ udp'.faddr = udp.faddr /\ udp'.mode = udp.mode /\ udp'.ep0 = udp.ep0
      /\ udp'.ep1 = udp.ep1 /\ udp'.ep2 = udp.ep2
    BY <1>1 DEF Controller
<1>3. /\ host' \in Host /\ host'.asleep = asleep /\ host'.ctl = host.ctl
      /\ host'.done = host.done /\ host'.got = host.got /\ host'.addr = host.addr
      /\ host'.config = host.config /\ host'.wrong = host.wrong
    BY DEF Host
<1>4. "ENDBUSRES" \notin udp'.flags
    BY <1>2
<1>5. Transfer(usb_state, udp', host')
    BY <1>2, <1>3, TransferFrame DEF ControlInv, Good
<1>6. Named(usb_state, udp', host')
    BY <1>2, <1>3, <1>4 DEF ControlInv, Good, Named
<1>7. StreamsInv => StreamsInv'
    BY <1>2, <1>3, <1>4 DEF StreamsInv, Ep1Inv, Ep2Inv, Banked, Received
<1>8. SameController([udp EXCEPT !.flags = udp'.flags], udp')
    BY <1>2 DEF SameController, Controller
<1> QED
    BY <1>2, <1>3, <1>5, <1>6, <1>7, <1>8 DEF ControlInv, Good, Typed

LEMMA HostSuspendsKeeps ==
    ASSUME AllRules, ControlInv, HostSuspends
    PROVE  ControlInv' /\ (StreamsInv => StreamsInv')
<1> USE ControlTypes
<1>1. /\ ~host.asleep /\ udp.flags = {} /\ NoEndpoint(udp)
      /\ prog.at = "idle" \/ (prog.at = "write_wait" /\ usb_state.status # "USB_READY")
      /\ prog.armed /\ usb_state.rx_len = 0
      /\ host' = [host EXCEPT !.asleep = TRUE]
      /\ udp' = [udp EXCEPT !.flags = @ \cup {"RXSUSP"}]
      /\ UNCHANGED <<usb_state, prog, stream, written>>
    BY DEF HostSuspends, Awake, HostMay, AllRules, Settled, Pending, NoEndpoint
<1>2. /\ udp'.flags = {"RXSUSP"} /\ host'.asleep
      /\ SameController([udp EXCEPT !.flags = udp'.flags], udp') /\ udp'.ep0 = udp.ep0
      /\ host'.ctl = host.ctl /\ host'.config = host.config
      /\ Power(usb_state, udp', host', prog) /\ Calls(usb_state, udp', host', prog)
             => ControlInv'
      /\ StreamsInv => StreamsInv'
    BY <1>1, PowerChanges
<1>3. udp'.ep1 = udp.ep1 /\ udp'.ep2 = udp.ep2
    BY <1>2 DEF SameController, Controller
<1>4. usb_state.status # "USB_SUSPENDED" /\ udp'.flags # {}
    BY <1>1, <1>2 DEF ControlInv, Good, Power
<1>5. Power(usb_state, udp', host', prog)
    BY <1>1, <1>2, <1>3, <1>4 DEF ControlInv, Good, Power, NoEndpoint
<1>6. Calls(usb_state, udp', host', prog)
    BY <1>1, <1>2, <1>3 DEF ControlInv, Good, Calls
<1> QED
    BY <1>2, <1>5, <1>6

LEMMA HostResumesKeeps ==
    ASSUME ControlInv, HostResumes
    PROVE  ControlInv' /\ (StreamsInv => StreamsInv')
<1> USE ControlTypes
<1>1. /\ host.asleep
      /\ host' = [host EXCEPT !.asleep = FALSE]
      /\ udp' = [udp EXCEPT !.flags = @ \cup {"RXRSM"}]
      /\ UNCHANGED <<usb_state, prog, stream, written>>
    BY DEF HostResumes
<1>2. /\ udp.flags \in {{}, {"RXSUSP"}} /\ prog.at \in {"idle", "write_wait"}
      /\ usb_state.status = "USB_SUSPENDED" <=> udp.flags = {}
    BY <1>1 DEF ControlInv, Good, Power
<1>3. /\ udp'.flags = udp.flags \cup {"RXRSM"} /\ ~host'.asleep
      /\ SameController([udp EXCEPT !.flags = udp'.flags], udp') /\ udp'.ep0 = udp.ep0
      /\ host'.ctl = host.ctl /\ host'.config = host.config
      /\ Power(usb_state, udp', host', prog) /\ Calls(usb_state, udp', host', prog)
             => ControlInv'
      /\ StreamsInv => StreamsInv'
    BY <1>1, <1>2, PowerChanges
<1>4. udp'.mode = udp.mode /\ udp'.ep1 = udp.ep1 /\ udp'.ep2 = udp.ep2
    BY <1>3 DEF SameController, Controller
<1>5. IF udp.flags = {} THEN udp'.flags = {"RXRSM"} ELSE udp'.flags = {"RXSUSP", "RXRSM"}
    BY <1>2, <1>3
<1>6. Power(usb_state, udp', host', prog)
    BY <1>2, <1>3, <1>5 DEF ControlInv, Good, Power
<1>7. ~(prog.at = "write_wait" /\ usb_state.status = "USB_READY")
    BY <1>2 DEF ControlInv, Good, Calls
<1>8. Calls(usb_state, udp', host', prog)
    BY <1>2, <1>3, <1>4, <1>7 DEF ControlInv, Good, Calls
<1> QED
    BY <1>3, <1>6, <1>8

---------------------------------------------------------------------------
(* The invariants *)

LEMMA InitKeeps ==
    ASSUME Init
    PROVE  ControlInv /\ StreamsInv
<1>1. 0 \in Nat /\ 0 \in Packets
    BY DEF Packets
<1>2. NewHost(0) \in Host
    BY <1>1, NewHostIs
<1>3. NewDriver \in Driver
    <2> DEFINE tx == [k \in {0, 1} |-> IF k = 0 THEN Nothing ELSE <<>>]
    <2>1. Nothing \in AnyData /\ <<>> \in Message
        BY EmptySeq DEF Nothing, Data, AnyData, Words, Message
    <2>2. tx \in [{0, 1} -> AnyData \cup Message]
        BY <2>1
    <2> HIDE DEF tx
    <2>3. NewDriver = [status |-> "USB_UNINITIALIZED", pre |-> "USB_UNINITIALIZED",
                       new_address |-> 0, config |-> 0, tx |-> tx,
                       rx_size |-> 0, rx_len |-> 0, buf |-> NoPacket, bank |-> "RX_DATA_BK0"]
        BY DEF NewDriver, tx
    <2> QED
        BY <2>2, <2>3 DEF Driver, Status, BankContents, Banks
<1>4. /\ udp \in Controller /\ udp.flags = {"ENDBUSRES"} /\ udp.ep0 = NoEp0
      /\ udp.ep1 = NoEp1 /\ udp.ep2 = NoEp2
    <2>1. {"ENDBUSRES"} \in SUBSET {"ENDBUSRES", "RXSUSP", "RXRSM"}
        OBVIOUS
    <2> QED
        BY <2>1, NewEndpoints DEF Init, Controller
<1>5. prog \in Prog /\ prog.at = "idle"
    BY DEF Init, Prog, Places
<1>6. usb_state = NewDriver /\ host = NewHost(0) /\ stream = <<>> /\ written = <<>>
    BY DEF Init
<1>7. /\ host.ctl = None /\ ~host.done /\ host.addr = 0 /\ host.config = 0
      /\ ~host.asleep /\ ~host.wrong /\ usb_state.new_address = 0 /\ usb_state.rx_len = 0
    BY <1>6 DEF NewHost, NewDriver
<1>8. Transfer(usb_state, udp, host)
    BY <1>4, <1>7 DEF Transfer, Rested, EmptyEp0, NoEp0
<1>9. Named(usb_state, udp, host)
    BY <1>4, <1>7 DEF Named, None, Request
<1>10. Power(usb_state, udp, host, prog)
    BY <1>4, <1>7 DEF Power
<1>11. Calls(usb_state, udp, host, prog)
    BY <1>4, <1>5 DEF Calls, NoEp2
<1>12. ControlInv
    BY <1>2, <1>3, <1>4, <1>5, <1>6, <1>8, <1>9, <1>10, <1>11 DEF ControlInv, Good, Typed
<1>13. /\ "RX_DATA_BK0" \in Banks /\ OtherBank("RX_DATA_BK0") \in Banks
       /\ \A b \in Banks : NoEp1.bank[b] = NoPacket
       /\ NoEp1.fill = "RX_DATA_BK0" /\ NoEp1.read = "RX_DATA_BK0"
    BY OtherBankIs DEF Banks, NoEp1
<1>14. Banked(usb_state, udp)
    BY <1>4, <1>13 DEF Banked
<1>15. Received(usb_state, udp, stream)
    <2>1. InBank(NoEp1, NoEp1.read) = <<>> /\ InBank(NoEp1, OtherBank(NoEp1.read)) = <<>>
        BY <1>13 DEF InBank
    <2>2. <<>> \o <<>> \o <<>> = <<>>
        OBVIOUS
    <2>3. ~(usb_state.rx_len > 0)
        BY <1>7
    <2> QED
        BY <1>4, <1>6, <2>1, <2>2, <2>3, Zenon DEF Received
<1>16. Ep2Inv
    BY <1>4, <1>6, <1>7 DEF Ep2Inv, NoEp2
<1> QED
    BY <1>12, <1>14, <1>15, <1>16 DEF StreamsInv, Ep1Inv

LEMMA StutterKeeps ==
    ASSUME ControlInv, UNCHANGED vars
    PROVE  ControlInv' /\ (StreamsInv => StreamsInv')
<1>1. UNCHANGED <<usb_state, udp, host, prog, stream, written>>
    BY DEF vars
<1>2. ControlInv'
    BY <1>1 DEF ControlInv
<1>3. StreamsInv => StreamsInv'
    BY <1>1 DEF StreamsInv, Ep1Inv, Ep2Inv
<1> QED
    BY <1>2, <1>3

LEMMA NextKeeps ==
    ASSUME AllRules, ControlInv, [Next]_vars
    PROVE  ControlInv' /\ (OnePacket /\ StreamsInv => StreamsInv')
<1>1. CASE Isr
    BY <1>1, IsrKeeps
<1>2. CASE Program
    BY <1>2, ReadBufferKeeps, ReadLengthKeeps, ReadCheckKeeps, ReadEnableKeeps,
       WriteCallKeeps, WriteCheckKeeps, WriteWaitKeeps, WriteBusyKeeps, WriteSendKeeps DEF Program
<1>3. CASE HostSetup
    BY <1>3, HostSetupKeeps
<1>4. CASE HostTakes
    BY <1>4, HostTakesKeeps
<1>5. CASE HostAcks
    BY <1>5, HostAcksKeeps
<1>6. CASE HostStalled
    BY <1>6, HostStalledKeeps
<1>7. CASE HostSends
    BY <1>7, HostSendsKeeps
<1>8. CASE HostReceives
    BY <1>8, HostReceivesKeeps
<1>9. CASE HostResets
    BY <1>9, HostResetsKeeps
<1>10. CASE HostSuspends
    BY <1>10, HostSuspendsKeeps
<1>11. CASE HostResumes
    BY <1>11, HostResumesKeeps
<1>12. CASE UNCHANGED vars
    BY <1>12, StutterKeeps
<1> QED
    BY <1>1, <1>2, <1>3, <1>4, <1>5, <1>6, <1>7, <1>8, <1>9, <1>10, <1>11, <1>12 DEF Next

\* What the host has of an answer is the beginning of it, and all when it is done.
LEMMA AnswerOfInv ==
    ASSUME ControlInv
    PROVE  AnswerTrue
<1>0. Transfer(usb_state, udp, host) /\ host \in Host
    BY DEF ControlInv, Good, Typed
<1> SUFFICES ASSUME host.ctl.what \in Answers
             PROVE  LET answer == Units(Data(host.ctl.what, 0,
                                             Min({SizeOf[host.ctl.what], host.ctl.asked})))
                    IN  IsPrefix(host.got, answer) /\ (host.done => host.got = answer)
    BY DEF AnswerTrue
<1> DEFINE what == host.ctl.what
           total == Total(host.ctl)
<1>1. host.ctl # None
    BY UsbAssumption DEF None, Request
<1>2. Asked(usb_state, udp, host) \/ Answering(usb_state, udp, host)
          \/ Answered(usb_state, udp, host)
    <2>1. \A o \in Orders : o \notin Answers
        BY UsbAssumption DEF Orders
    <2> QED
        BY <1>0, <1>1, <2>1 DEF Transfer, Rested, Acknowledged, Refused, Orders
<1>3. host.ctl \in Requests
    BY <1>2 DEF Asked, Answering, Answered
<1>4. total \in Nat /\ total = Min({SizeOf[what], host.ctl.asked}) /\ what \in Words
    BY <1>3, TotalIs DEF Words
<1> SUFFICES /\ IsPrefix(host.got, Units(Data(what, 0, total)))
             /\ host.done => host.got = Units(Data(what, 0, total))
    BY <1>4
<1> HIDE DEF what, total
<1>5. CASE Asked(usb_state, udp, host)
    <2>1. host.got = <<>> /\ ~host.done
        BY <1>5 DEF Asked
    <2>2. 0 \in Nat /\ Units(Data(what, 0, 0)) \in Seq(Unit) /\ Len(Units(Data(what, 0, 0))) = 0
        BY <1>4, UnitsOf
    <2>3. host.got = Units(Data(what, 0, 0))
        BY <2>1, <2>2, EmptySeq
    <2> QED
        BY <1>4, <2>1, <2>3, UnitsPrefix
<1>6. CASE Answering(usb_state, udp, host)
    <2>1. /\ Len(host.got) <= total /\ ~host.done
          /\ host.got = Units(Data(what, 0, Len(host.got)))
        BY <1>6 DEF Answering, what, total
    <2>2. Len(host.got) \in Nat
        <3>1. host.got \in Seq(Unit)
            BY <1>0 DEF Host
        <3> QED
            BY <3>1, LenProperties
    <2>3. IsPrefix(Units(Data(what, 0, Len(host.got))), Units(Data(what, 0, total)))
        BY <1>4, <2>1, <2>2, UnitsPrefix
    <2> QED
        BY <2>1, <2>3, Zenon
<1>7. CASE Answered(usb_state, udp, host)
    <2>1. host.got = Units(Data(what, 0, total))
        BY <1>7 DEF Answered, what, total
    <2>2. IsPrefix(Units(Data(what, 0, total)), Units(Data(what, 0, total)))
        BY <1>4, UnitsPrefix
    <2> QED
        BY <2>1, <2>2, Zenon
<1> QED
    BY <1>2, <1>5, <1>6, <1>7

LEMMA AddressOfInv ==
    ASSUME ControlInv
    PROVE  AddressAgreed
<1> SUFFICES ASSUME host.ctl = None, ~Pending
             PROVE  /\ udp.faddr = host.addr
                    /\ host.config = 1 <=> udp.mode = "configured"
                    /\ host.config = usb_state.config
    BY DEF AddressAgreed
<1>1. Rested(usb_state, udp, host)
    BY RequestIs
    DEF ControlInv, Good, Transfer, Asked, Answering, Answered, Acknowledged, Refused
<1>2. udp.flags = {} /\ ~udp.ep0.txcomp
    BY DEF Pending
<1>3. usb_state.new_address = 0
    BY <1>1, <1>2 DEF Rested
<1> QED
    BY <1>2, <1>3 DEF ControlInv, Good, Named, None, Request

LEMMA StreamsOfInv ==
    ASSUME StreamsInv
    PROVE  StreamsWhole
BY Zenon DEF StreamsInv, Ep1Inv, Ep2Inv, Received, InBank, StreamsWhole

LEMMA ControlInvHolds ==
    ASSUME AllRules
    PROVE  Spec => []ControlInv
<1>1. Init => ControlInv
    BY InitKeeps
<1>2. ControlInv /\ [Next]_vars => ControlInv'
    BY NextKeeps
<1> QED
    BY <1>1, <1>2, PTL DEF Spec

\* The host gets every descriptor and every answer whole, cut to what it asked
\* for, and nothing else; and when nothing is pending between transfers, the brick
\* listens at the address that the host gave it and both agree on whether it is
\* configured: usb_manage_setup_packet, usb_write_data and the interrupt, with
\* packets acknowledged, bus resets, suspensions and the program's calls in any
\* order that the rules of HostMay allow.
THEOREM ControlIsTrue ==
    ASSUME AllRules
    PROVE  Spec => []ControlTrue
<1>1. ControlInv => ControlTrue
    BY AnswerOfInv, AddressOfInv DEF ControlTrue
<1> QED
    BY <1>1, ControlInvHolds, PTL

\* nx_usb_write asserts that the brick is neither reset nor suspended: it never
\* stops there.
THEOREM WritesAreMade ==
    ASSUME AllRules
    PROVE  Spec => [](prog.at # "halted")
<1>1. ControlInv => prog.at # "halted"
    BY DEF ControlInv, Good, Calls
<1> QED
    BY <1>1, ControlInvHolds, PTL

\* Every packet that the host sends on EP1 is in the program's buffer or in a
\* bank, in the order sent, and the driver reads the bank that the controller
\* reads: usb_read_data, nx_usb_read and the bank that they change; and what the
\* host receives on EP2 is what nx_usb_write wrote, in packets of one message.
THEOREM StreamsAreWhole ==
    ASSUME AllRules, OnePacket
    PROVE  Spec => []StreamsWhole
<1>1. Init => ControlInv /\ StreamsInv
    BY InitKeeps
<1>2. ControlInv /\ StreamsInv /\ [Next]_vars => (ControlInv /\ StreamsInv)'
    BY NextKeeps
<1>3. StreamsInv => StreamsWhole
    BY StreamsOfInv
<1> QED
    BY <1>1, <1>2, <1>3, PTL DEF Spec

=============================================================================
