-------------------------------- MODULE Usb --------------------------------
(***************************************************************************)
(* The USB device driver, base/drivers/usb.c: its interrupt, the calls of  *)
(* the program, and beside them the controller and a host.                 *)
(*                                                                         *)
(* Control data is counted in halves of a control packet; a packet of the  *)
(* data endpoints is one value.  The interrupt is one step: nothing it     *)
(* shares is touched by a higher priority.  The calls are as many steps as *)
(* the interrupt can tell apart.                                           *)
(***************************************************************************)
EXTENDS Integers, Sequences, SequencesExt

CONSTANTS
    SizeOf,     \* the length of each descriptor and answer
    Lengths,    \* the lengths that the host asks for
    Addresses,  \* the addresses that the host gives
    Writes,     \* the lengths of the program's messages, in packets
    Rules,      \* what the host keeps to, see HostMay
    MaxResets   \* bound: bus resets

\* Half packets: MAX_EP0_SIZE.
MaxEp0 == 2

Answers == DOMAIN SizeOf
Orders == {"feature", "set_config", "set_address", "unknown"}

ASSUME UsbAssumption ==
    /\ Answers \subseteq {"device", "config", "string", "status", "get_config"}
    /\ SizeOf \in [Answers -> Nat \ {0}]
    /\ Lengths \subseteq Nat \ {0}
    /\ Addresses \subseteq Nat \ {0}
    /\ Writes \subseteq Nat \ {0}
    /\ Rules \subseteq {"whole_address", "short_config", "prompt", "in_turn", "awake"}
    /\ MaxResets \in Nat

\* What is asked, wLength and, of an address, wValue.
Request(what, asked, value) == [what |-> what, asked |-> asked, value |-> value]
Requests ==
    {Request(what, asked, 0) : what \in Answers, asked \in Lengths}
        \cup {Request(what, 0, 0) : what \in {"feature", "set_config", "unknown"}}
        \cup {Request("set_address", 0, a) : a \in Addresses}

None == Request("none", 0, 0)

\* Data to send: the units from `from` on, len of them.
Data(what, from, len) == [what |-> what, from |-> from, len |-> len]
Nothing == Data("nothing", 0, 0)

Banks == {"RX_DATA_BK0", "RX_DATA_BK1"}
OtherBank(bank) == CHOOSE b \in Banks : b # bank
Packets == 0..2     \* a packet of EP1, numbered modulo 3: a buffer and two banks
NoPacket == -1

VARIABLES
    usb_state,  \* the driver's
    udp,        \* the controller's registers and FIFOs
    host,       \* its address, control transfer and data
    prog,       \* the program's place in a call
    stream,     \* EP1: sent by the host and not yet taken by the program
    written     \* EP2: written by the program and not yet taken by the host

vars == <<usb_state, udp, host, prog, stream, written>>

\* The endpoints after a reset.  setup, out, txcomp, stalled: flags of CSR[0].
\* full: TXPKTRDY.  fill, read: the banks that the controller fills and reads.
NoEp0 == [setup |-> None, out |-> FALSE, tx |-> Nothing, full |-> FALSE, txcomp |-> FALSE,
          stall |-> FALSE, stalled |-> FALSE]
NoEp1 == [on |-> FALSE, bank |-> [b \in Banks |-> NoPacket],
          fill |-> "RX_DATA_BK0", read |-> "RX_DATA_BK0"]
NoEp2 == [on |-> FALSE, tx |-> <<>>, txcomp |-> FALSE]

---------------------------------------------------------------------------
(* The driver, on a pair [u |-> usb_state, c |-> udp] *)

\* WriteEp0 that queues what it has just sent once more.
WriteEp0Again(s, data) ==
    LET len == Min({data.len, MaxEp0})
        rest == IF data.len > len THEN Data(data.what, data.from, data.len - len) ELSE Nothing
    IN  [u |-> [s.u EXCEPT !.status = "USB_BUSY", !.tx[0] = rest],
         c |-> [s.c EXCEPT !.ep0.full = TRUE,
                           !.ep0.tx = Data(data.what, data.from, len)]]

\* usb_write_data to EP0.  Data pushed behind a packet that the controller has
\* not sent yet joins it.
WriteEp0(s, data) ==
    LET len == Min({data.len, MaxEp0})
        packet == Data(data.what, data.from, len)
        rest == Data(data.what, data.from + len, data.len - len)
        tx == s.c.ep0.tx
    IN  [u |-> [s.u EXCEPT !.status = "USB_BUSY",
                           !.tx[0] = IF rest.len > 0 THEN rest ELSE Nothing],
         c |-> [s.c EXCEPT !.ep0.full = TRUE,
                           !.ep0.tx = IF ~s.c.ep0.full THEN packet
                                      ELSE IF len = 0 THEN tx
                                      ELSE Data("mixed", 0, tx.len + len)]]

SendNull(s) == WriteEp0(s, Nothing)

SendStall(s) ==
    [s EXCEPT !.u.status = "USB_UNINITIALIZED", !.c.ep0.stall = TRUE]

\* usb_write_data to EP2, of which each packet is one value of the message.
WriteEp2(s, message) ==
    [u |-> [s.u EXCEPT !.status = "USB_BUSY", !.tx[1] = Tail(message)],
     c |-> [s.c EXCEPT !.ep2.tx = IF s.c.ep2.on THEN Append(@, Head(message)) ELSE @]]

\* The answer to SET_CONFIG: EP1 waits for a buffer, EP2 is empty.
Configured(s) ==
    LET acked == SendNull(s) IN
    [u |-> [acked.u EXCEPT !.config = 1, !.status = "USB_READY"],
     c |-> [acked.c EXCEPT !.mode = "configured",
                           !.ep1.on = @ \/ s.u.rx_len = 0,
                           !.ep2 = [NoEp2 EXCEPT !.on = TRUE]]]

\* usb_manage_setup_packet
Setup(s) ==
    LET r == s.c.ep0.setup
        t == [s EXCEPT !.c.ep0.setup = None]
    IN
    IF r.what \in Answers
    THEN LET sent == WriteEp0(t, Data(r.what, 0, Min({SizeOf[r.what], r.asked})))
         IN  IF r.what = "config" /\ SizeOf["config"] < r.asked THEN SendNull(sent) ELSE sent
    ELSE IF r.what = "feature" THEN SendNull(t)
    ELSE IF r.what = "set_config" THEN Configured(t)
    ELSE IF r.what = "unknown" THEN SendStall(t)
    ELSE [SendNull(t) EXCEPT !.u.new_address = r.value]

\* usb_read_data of EP1, which the interrupt has just disabled.
ReadData(s) ==
    LET bank == s.c.ep1.read IN
    IF s.u.rx_len > 0 \/ s.u.rx_size = 0 THEN s
    ELSE [u |-> [s.u EXCEPT !.buf = s.c.ep1.bank[bank], !.rx_len = 1,
                            !.bank = OtherBank(@)],
          c |-> [s.c EXCEPT !.ep1.bank[s.u.bank] = NoPacket,
                            !.ep1.read = OtherBank(@)]]

\* What the interrupt finds in tx_data[e] and tx_len[e].  The arrays have two
\* entries: those at 2 are tx_len[0] and rx_data.
TxPending(s, e) ==
    IF e = 0 THEN s.u.tx[0] # Nothing
    ELSE s.u.tx[0] # Nothing /\ s.u.rx_size > 0

\* TxComp that forgets the rest of the data.
TxCompOnce(s, e) ==
    LET sent == IF e = 0 THEN [s EXCEPT !.c.ep0.txcomp = FALSE]
                         ELSE [s EXCEPT !.c.ep2.txcomp = FALSE]
    IN  IF s.u.new_address = 0 THEN [sent EXCEPT !.u.status = "USB_READY"]
        ELSE [sent EXCEPT !.c.faddr = s.u.new_address, !.c.mode = "addressed",
                          !.u.new_address = 0, !.u.status = "USB_READY"]

\* A packet was sent.  What the entries at 2 hold is sent as if it were data.
TxComp(s, e) ==
    LET sent == IF e = 0 THEN [s EXCEPT !.c.ep0.txcomp = FALSE]
                         ELSE [s EXCEPT !.c.ep2.txcomp = FALSE]
        addressed ==
            IF s.u.new_address = 0 THEN sent
            ELSE [sent EXCEPT !.c.faddr = s.u.new_address, !.c.mode = "addressed",
                              !.u.new_address = 0]
    IN  IF ~TxPending(s, e) THEN [addressed EXCEPT !.u.status = "USB_READY"]
        ELSE IF e = 0 THEN WriteEp0(addressed, s.u.tx[0])
        ELSE WriteEp2(addressed, <<"tx_len", "tx_len">>)

Flagged(ep1) == ep1.on /\ \E b \in Banks : ep1.bank[b] # NoPacket

\* The endpoint that the interrupt serves: the first with a flag.
ServeEndpoint(s) ==
    LET ep0 == s.c.ep0 IN
    IF ep0.setup # None THEN Setup(s)
    ELSE IF ep0.out THEN [s EXCEPT !.c.ep0.out = FALSE]
    ELSE IF ep0.txcomp THEN TxComp(s, 0)
    ELSE IF ep0.stalled THEN [s EXCEPT !.c.ep0.stalled = FALSE]
    ELSE IF Flagged(s.c.ep1) THEN ReadData([s EXCEPT !.c.ep1.on = FALSE])
    ELSE IF s.c.ep2.txcomp THEN TxComp(s, 2)
    ELSE s

\* EndBusReset that keeps the bank, one that keeps the configuration.
EndBusResetBank(s) ==
    [u |-> [s.u EXCEPT !.status = "USB_UNINITIALIZED", !.config = 0],
     c |-> [s.c EXCEPT !.flags = {}, !.faddr = 0, !.mode = "default",
                       !.ep0 = NoEp0, !.ep1 = NoEp1, !.ep2 = NoEp2]]

EndBusResetConfig(s) ==
    [u |-> [s.u EXCEPT !.status = "USB_UNINITIALIZED", !.bank = "RX_DATA_BK0"],
     c |-> [s.c EXCEPT !.flags = {}, !.faddr = 0, !.mode = "default",
                       !.ep0 = NoEp0, !.ep1 = NoEp1, !.ep2 = NoEp2]]

EndBusReset(s) ==
    [u |-> [s.u EXCEPT !.status = "USB_UNINITIALIZED", !.bank = "RX_DATA_BK0",
                       !.config = 0],
     c |-> [s.c EXCEPT !.flags = {}, !.faddr = 0, !.mode = "default",
                       !.ep0 = NoEp0, !.ep1 = NoEp1, !.ep2 = NoEp2]]

Suspended(s) ==
    IF "RXSUSP" \notin s.c.flags THEN s
    ELSE [s EXCEPT !.u.pre = s.u.status, !.u.status = "USB_SUSPENDED"]

Resumed(s) ==
    IF "RXRSM" \notin s.c.flags THEN s ELSE [s EXCEPT !.u.status = s.u.pre]

\* usb_isr
Served(s) ==
    IF "ENDBUSRES" \in s.c.flags THEN EndBusReset(s)
    ELSE ServeEndpoint([Resumed(Suspended(s)) EXCEPT !.c.flags = {}])

Pending ==
    \/ udp.flags # {}
    \/ udp.ep0.setup # None \/ udp.ep0.out \/ udp.ep0.txcomp \/ udp.ep0.stalled
    \/ Flagged(udp.ep1)
    \/ udp.ep2.txcomp

Isr ==
    /\ Pending
    /\ \E s \in {Served([u |-> usb_state, c |-> udp])} : usb_state' = s.u /\ udp' = s.c
    /\ UNCHANGED <<host, prog, stream, written>>

---------------------------------------------------------------------------
(* The program: it reads packet after packet and writes messages *)

\* nx_usb_read, when there is no buffer or the one there was is full.
ReadBuffer ==
    /\ prog.at = "idle" /\ (~prog.armed \/ usb_state.rx_len > 0)
    /\ usb_state' = [usb_state EXCEPT !.rx_size = 1]
    /\ prog' = [prog EXCEPT !.at = "read_length", !.armed = TRUE]
    /\ UNCHANGED <<udp, host, stream, written>>

ReadLength ==
    /\ prog.at = "read_length"
    /\ usb_state' = [usb_state EXCEPT !.rx_len = 0, !.buf = NoPacket]
    /\ stream' = IF usb_state.rx_len > 0 THEN Tail(stream) ELSE stream
    /\ prog' = [prog EXCEPT !.at = "read_check"]
    /\ UNCHANGED <<udp, host, written>>

ReadCheck ==
    /\ prog.at = "read_check"
    /\ prog' = [prog EXCEPT !.at = IF usb_state.status \in {"USB_UNINITIALIZED", "USB_SUSPENDED"}
                                   THEN "idle" ELSE "read_enable"]
    /\ UNCHANGED <<usb_state, udp, host, stream, written>>

ReadEnable ==
    /\ prog.at = "read_enable"
    /\ udp' = [udp EXCEPT !.ep1.on = TRUE]
    /\ prog' = [prog EXCEPT !.at = "idle"]
    /\ UNCHANGED <<usb_state, host, stream, written>>

\* nx_usb_write, when the brick is connected.  In turn: when the host has asked
\* for it, is awake and waits for nothing else.
WriteCall ==
    /\ prog.at = "idle" /\ usb_state.status # "USB_UNINITIALIZED"
    /\ "in_turn" \in Rules =>
           host.config = 1 /\ host.ctl = None /\ ~udp.ep0.txcomp
    /\ "awake" \in Rules => ~host.asleep /\ udp.flags = {}
    /\ \E n \in Writes : prog' = [prog EXCEPT !.at = "write_check", !.len = n]
    /\ UNCHANGED <<usb_state, udp, host, stream, written>>

\* The assertions.
WriteCheck ==
    /\ prog.at = "write_check"
    /\ prog' = [prog EXCEPT !.at = IF usb_state.status \in {"USB_UNINITIALIZED", "USB_SUSPENDED"}
                                   THEN "halted" ELSE "write_wait"]
    /\ UNCHANGED <<usb_state, udp, host, stream, written>>

WriteWait ==
    /\ prog.at = "write_wait" /\ usb_state.status = "USB_READY"
    /\ prog' = [prog EXCEPT !.at = "write_busy"]
    /\ UNCHANGED <<usb_state, udp, host, stream, written>>

WriteBusy ==
    /\ prog.at = "write_busy"
    /\ usb_state' = [usb_state EXCEPT !.status = "USB_BUSY"]
    /\ prog' = [prog EXCEPT !.at = "write_send"]
    /\ UNCHANGED <<udp, host, stream, written>>

WriteSend ==
    /\ prog.at = "write_send"
    /\ LET message == [k \in 1..prog.len |-> <<prog.turn, k>>]
           s == WriteEp2([u |-> usb_state, c |-> udp], message)
       IN  /\ usb_state' = [s.u EXCEPT !.status = usb_state.status]
           /\ udp' = s.c
           /\ written' = IF udp.ep2.on THEN written \o message ELSE written
    /\ prog' = [prog EXCEPT !.at = "idle", !.turn = 1 - @]
    /\ UNCHANGED <<host, stream>>

Program ==
    \/ ReadBuffer \/ ReadLength \/ ReadCheck \/ ReadEnable
    \/ WriteCall \/ WriteCheck \/ WriteWait \/ WriteBusy \/ WriteSend

---------------------------------------------------------------------------
(* The host and the controller *)

\* The host is awake, and heard: the brick has its address.
Awake == ~host.asleep /\ "ENDBUSRES" \notin udp.flags /\ udp.faddr = host.addr

Writing == prog.at \in {"write_check", "write_wait", "write_busy", "write_send"}

\* Neither testing the status and acting on it nor without a buffer.
Settled ==
    /\ prog.at = "idle" \/ (prog.at = "write_wait" /\ usb_state.status # "USB_READY")
    /\ prog.armed /\ usb_state.rx_len = 0

\* Without its rule the host may do any of this:
\*   whole_address  reset the bus between SET_ADDRESS and its acknowledgement
\*   prompt         go on before the brick has served the interrupt of the last step
\*   in_turn        reset the bus in the middle of nx_usb_write, or use EP0 before
\*                  it has what was written
\*   awake          suspend the bus while the program tests the status and acts on
\*                  it, or has no buffer for the next packet
HostMay(event) ==
    /\ "whole_address" \in Rules /\ event = "reset" =>
           host.ctl.what # "set_address" /\ usb_state.new_address = 0
    /\ "prompt" \in Rules /\ event = "setup" => ~Pending
    /\ "in_turn" \in Rules /\ event \in {"reset", "setup"} => ~Writing
    /\ "in_turn" \in Rules /\ event = "setup" => udp.ep2.tx = <<>>
    /\ "awake" \in Rules /\ event = "suspend" => Settled

\* It asks more than the length of the configuration only without its rule, and
\* what the brick does not know only before it is configured.
HostSetup ==
    /\ Awake /\ host.ctl = None /\ HostMay("setup")
    /\ \E r \in Requests :
           /\ "short_config" \in Rules /\ r.what = "config" => r.asked <= SizeOf["config"]
           /\ r.what \in {"set_config", "unknown"} => host.config = 0
           /\ r.what = "set_config" => host.addr # 0
           /\ r.what = "set_address" => host.addr = 0
           /\ host' = [host EXCEPT !.ctl = r, !.got = <<>>]
           /\ udp' = [udp EXCEPT !.ep0 = [NoEp0 EXCEPT !.setup = r, !.out = udp.ep0.out,
                                                       !.txcomp = udp.ep0.txcomp]]
    /\ UNCHANGED <<usb_state, prog, stream, written>>

Units(data) == [k \in 1..data.len |-> <<data.what, data.from + k - 1>>]

\* The host takes a packet of EP0; the last one of an order ends the transfer.
HostTakes ==
    /\ Awake /\ host.ctl # None /\ ~host.done
    /\ udp.ep0.full /\ udp.ep0.setup = None
    /\ LET got == host.got \o Units(udp.ep0.tx)
           what == host.ctl.what
           taken == [host EXCEPT !.got = got]
       IN  host' =
             IF what \in Answers
             THEN IF udp.ep0.tx.len < MaxEp0 \/ Len(got) >= host.ctl.asked
                  THEN [taken EXCEPT !.done = TRUE] ELSE taken
             ELSE IF what = "set_config" THEN [taken EXCEPT !.ctl = None, !.config = 1]
             ELSE IF what = "feature" THEN [taken EXCEPT !.ctl = None]
             ELSE [taken EXCEPT !.ctl = None, !.addr = host.ctl.value]
    /\ udp' = [udp EXCEPT !.ep0.full = FALSE, !.ep0.tx = Nothing, !.ep0.txcomp = TRUE]
    /\ UNCHANGED <<usb_state, prog, stream, written>>

\* The host acknowledges an answer that it has whole.
HostAcks ==
    /\ Awake /\ host.done /\ ~udp.ep0.out
    /\ host' = [host EXCEPT !.ctl = None, !.done = FALSE, !.got = <<>>]
    /\ udp' = [udp EXCEPT !.ep0.out = TRUE]
    /\ UNCHANGED <<usb_state, prog, stream, written>>

HostStalled ==
    /\ Awake /\ host.ctl # None /\ udp.ep0.stall
    /\ host' = [host EXCEPT !.ctl = None]
    /\ udp' = [udp EXCEPT !.ep0.stall = FALSE, !.ep0.stalled = TRUE]
    /\ UNCHANGED <<usb_state, prog, stream, written>>

HostSends ==
    /\ Awake /\ host.config = 1 /\ udp.mode = "configured"
    /\ udp.ep1.on /\ udp.ep1.bank[udp.ep1.fill] = NoPacket
    /\ udp' = [udp EXCEPT !.ep1.bank[udp.ep1.fill] = host.next,
                          !.ep1.fill = OtherBank(@)]
    /\ stream' = Append(stream, host.next)
    /\ host' = [host EXCEPT !.next = (@ + 1) % 3]
    /\ UNCHANGED <<usb_state, prog, written>>

\* The host takes a packet of EP2: it has to be the oldest one written.
HostReceives ==
    /\ Awake /\ host.config = 1 /\ udp.mode = "configured"
    /\ udp.ep2.on /\ udp.ep2.tx # <<>> /\ ~udp.ep2.txcomp
    /\ host' = [host EXCEPT !.wrong = udp.ep2.tx # <<Head(written)>>]
    /\ written' = Tail(written)
    /\ udp' = [udp EXCEPT !.ep2.tx = <<>>, !.ep2.txcomp = TRUE]
    /\ UNCHANGED <<usb_state, prog, stream>>

NewHost(resets) ==
    [addr |-> 0, config |-> 0, ctl |-> None, got |-> <<>>, done |-> FALSE, next |-> 0,
     asleep |-> FALSE, wrong |-> FALSE, resets |-> resets]

\* A bus reset takes what is on its way with it, on all endpoints.
HostResets ==
    /\ host.resets < MaxResets /\ HostMay("reset") /\ "ENDBUSRES" \notin udp.flags
    /\ host' = [NewHost(host.resets + 1) EXCEPT !.next = host.next]
    /\ udp' = [udp EXCEPT !.flags = @ \cup {"ENDBUSRES"}, !.mode = "default",
                          !.ep0 = NoEp0, !.ep1 = NoEp1, !.ep2 = NoEp2]
    /\ stream' = IF usb_state.rx_len > 0 THEN <<Head(stream)>> ELSE <<>>
    /\ written' = <<>>
    /\ UNCHANGED <<usb_state, prog>>

HostSuspends ==
    /\ Awake /\ ~Pending /\ HostMay("suspend")
    /\ host' = [host EXCEPT !.asleep = TRUE]
    /\ udp' = [udp EXCEPT !.flags = @ \cup {"RXSUSP"}]
    /\ UNCHANGED <<usb_state, prog, stream, written>>

HostResumes ==
    /\ host.asleep
    /\ host' = [host EXCEPT !.asleep = FALSE]
    /\ udp' = [udp EXCEPT !.flags = @ \cup {"RXRSM"}]
    /\ UNCHANGED <<usb_state, prog, stream, written>>

\* The fields of usb_state, cleared by nx__usb_init.
NewDriver ==
    [status |-> "USB_UNINITIALIZED", pre |-> "USB_UNINITIALIZED",
     new_address |-> 0, config |-> 0, tx |-> [k \in {0, 1} |-> IF k = 0 THEN Nothing ELSE <<>>],
     rx_size |-> 0, rx_len |-> 0, buf |-> NoPacket, bank |-> "RX_DATA_BK0"]

Init ==
    /\ usb_state = NewDriver
    /\ udp = [flags |-> {"ENDBUSRES"}, faddr |-> 0, mode |-> "default",
              ep0 |-> NoEp0, ep1 |-> NoEp1, ep2 |-> NoEp2]
    /\ host = NewHost(0)
    /\ prog = [at |-> "idle", armed |-> FALSE, len |-> 0, turn |-> 0]
    /\ stream = <<>>
    /\ written = <<>>

Next ==
    \/ Isr \/ Program
    \/ HostSetup \/ HostTakes \/ HostAcks \/ HostStalled
    \/ HostSends \/ HostReceives
    \/ HostResets \/ HostSuspends \/ HostResumes

\* What a host does that enumerates the brick and takes what it gives.
HostConfigures == HostSetup /\ host'.ctl.what \in {"set_address", "set_config"}

HostServes == HostTakes \/ HostAcks \/ HostStalled \/ HostReceives

Spec ==
    /\ Init /\ [][Next]_vars
    /\ WF_vars(Isr) /\ WF_vars(Program) /\ SF_vars(ReadBuffer)
    /\ WF_vars(HostResumes) /\ SF_vars(HostServes) /\ SF_vars(HostConfigures)

---------------------------------------------------------------------------
(* Properties *)

\* The host gets the answer it asked for, cut to the length it asked for and
\* into packets, from the first unit to the last and nothing else in between.
AnswerTrue ==
    host.ctl.what \in Answers =>
        LET answer == Units(Data(host.ctl.what, 0, Min({SizeOf[host.ctl.what], host.ctl.asked})))
        IN  /\ IsPrefix(host.got, answer)
            /\ host.done => host.got = answer

\* Between transfers the brick listens at the address that the host gave it,
\* and both agree that it is configured: also after resets in the middle.
AddressAgreed ==
    host.ctl = None /\ ~Pending =>
        /\ udp.faddr = host.addr
        /\ host.config = 1 <=> udp.mode = "configured"
        /\ host.config = usb_state.config

\* The host and the brick never disagree about what was asked, answered or set
\* up on the control endpoint.
ControlTrue == AnswerTrue /\ AddressAgreed

\* What the host sends on EP1 is, packet by packet and in order, in the buffer
\* of the program or in the two banks: the driver's idea of the bank in use is
\* the controller's.  What it receives on EP2 is what the program wrote.
StreamsWhole ==
    LET bank(b) == IF udp.ep1.bank[b] = NoPacket THEN <<>> ELSE <<udp.ep1.bank[b]>>
    IN  /\ stream = (IF usb_state.rx_len > 0 THEN <<usb_state.buf>> ELSE <<>>)
                        \o bank(udp.ep1.read) \o bank(OtherBank(udp.ep1.read))
        /\ udp.ep2.tx = written
        /\ Len(written) <= 1
        /\ ~host.wrong

\* Every control transfer ends, every call of nx_usb_write returns, without
\* an assertion, and every packet sent to the brick gets to the program.
TransfersEnd ==
    /\ host.ctl # None ~> host.ctl = None
    /\ prog.at = "write_check" ~> prog.at = "idle"
    /\ []<>(stream = <<>> \/ (prog.at = "read_length" /\ usb_state.rx_len > 0))

=============================================================================
