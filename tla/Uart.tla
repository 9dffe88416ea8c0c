-------------------------------- MODULE Uart --------------------------------
(***************************************************************************)
(* The UART driver of the Bluecore, base/drivers/_uart.c, as operators on  *)
(* one record: what the driver keeps and the registers of USART 1 and of   *)
(* its DMA controller, the PDC.                                            *)
(*                                                                         *)
(* A byte is [of, k]: the k-th of a message, where byte 0 is the length;   *)
(* a byte of a stream is never byte 0.                                     *)
(***************************************************************************)
EXTENDS Integers, Sequences

CONSTANT BufSize    \* UART_BUFSIZE

ASSUME UartAssumption == BufSize \in Nat \ {0}

Interrupts == {"RXRDY", "ENDRX", "RXBRK"}
NoByte == [of |-> [size |-> 0], k |-> -1]
NoPacket == [call |-> "none", arg |-> 0, framed |-> TRUE, whole |-> TRUE]

\* What a byte says when it is read as a length.
LengthIn(byte) == IF byte.k = 0 THEN byte.of.size ELSE 1

\* nx__uart_init.  ier: enabled interrupts.  rhr: the receiver.  got: what the
\* PDC has put where RPR pointed.  tcr, tncr: the packet being sent, the next.
UartInit ==
    [callback |-> TRUE, packet_size |-> 0, to_read |-> 0,
     ier |-> {"RXRDY", "RXBRK"}, brk |-> FALSE, rhr |-> NoByte,
     rxten |-> FALSE, rcr |-> BufSize, got |-> <<>>,
     tcr |-> NoPacket, tncr |-> NoPacket]

\* The hardware handshake: RTS stops the Bluecore while the PDC has no room.
RTS(u) == u.rcr > 0

\* A byte arrives.  One that the receiver still holds is overrun.
Received(u, byte) ==
    IF u.rxten THEN [u EXCEPT !.got = Append(@, byte), !.rcr = @ - 1]
    ELSE [u EXCEPT !.rhr = byte]

\* The status register, whether the interrupt is enabled or not.
Status(u) ==
    {i \in Interrupts : CASE i = "RXRDY" -> u.rhr # NoByte
                          [] i = "ENDRX" -> u.rcr = 0
                          [] i = "RXBRK" -> u.brk}

\* uart_isr branch by branch, on [u, calls]: calls of the callback, in order.
Broken(s) ==
    [u |-> [s.u EXCEPT !.brk = FALSE],
     calls |-> Append(s.calls, [buf |-> <<>>, len |-> 0])]

LengthRead(s) ==
    LET size == LengthIn(s.u.rhr) IN
    [s EXCEPT !.u.ier = (@ \ {"RXRDY"}) \cup {"ENDRX"},
              !.u.rhr = NoByte, !.u.packet_size = size,
              !.u.rcr = size, !.u.rxten = TRUE]

\* PacketRead that leaves the PDC on.
PacketReadEnabled(s) ==
    [u |-> [s.u EXCEPT !.got = <<>>, !.rcr = BufSize, !.ier = @ \cup {"RXRDY"}],
     calls |-> Append(s.calls, [buf |-> s.u.got, len |-> s.u.packet_size])]

PacketRead(s) ==
    [u |-> [s.u EXCEPT !.rxten = FALSE, !.got = <<>>, !.rcr = BufSize,
                       !.ier = @ \cup {"RXRDY"}],
     calls |-> Append(s.calls, [buf |-> s.u.got, len |-> s.u.packet_size])]

\* The branches test the status as it was on entry, all of it.
UartIsr(u) ==
    LET status == Status(u)
        s0 == [u |-> u, calls |-> <<>>]
        s1 == IF "RXBRK" \in status THEN Broken(s0) ELSE s0
        s2 == IF "RXRDY" \in status THEN LengthRead(s1) ELSE s1
    IN  IF "ENDRX" \in status THEN PacketRead(s2) ELSE s2

Interrupting(u) == u.ier \cap Status(u) # {}

\* SetCallback that leaves the handshake open.
SetCallbackOpen(u, on) ==
    [u EXCEPT !.callback = on, !.rxten = FALSE, !.got = <<>>, !.rcr = BufSize,
              !.ier = IF on THEN {"RXRDY", "RXBRK"} ELSE {}]

\* nx__uart_set_callback
SetCallback(u, on) ==
    [u EXCEPT !.callback = on, !.rxten = FALSE, !.got = <<>>,
              !.rcr = IF on THEN BufSize ELSE 0,
              !.ier = IF on THEN {"RXRDY", "RXBRK"} ELSE {}]

\* nx__uart_read, nx__uart_data_read
UartRead(u, length) ==
    [u EXCEPT !.to_read = length, !.got = <<>>, !.rcr = length, !.rxten = TRUE]

DataRead(u) == u.to_read - u.rcr

\* nx__uart_write once there is room, nx__uart_is_writing
CanWrite(u) == u.tncr = NoPacket

UartWrite(u, packet) ==
    IF u.tcr = NoPacket THEN [u EXCEPT !.tcr = packet] ELSE [u EXCEPT !.tncr = packet]

IsWriting(u) == u.tcr # NoPacket

\* The packet has been sent.
Sent(u) == [u EXCEPT !.tcr = u.tncr, !.tncr = NoPacket]

=============================================================================
