------------------------------- MODULE Rs485 -------------------------------
(***************************************************************************)
(* The RS485 driver, base/drivers/rs485.c, on bricks that share one wire.  *)
(*                                                                         *)
(* Each brick has the driver's record, USART 0 with its DMA controller,    *)
(* the PDC, and a program that starts, aborts, shuts down and starts up;   *)
(* the callback, run by the interrupt, may start the next transfer.  The   *)
(* interrupt is one step: it has the CPU before the program's next step.   *)
(***************************************************************************)
EXTENDS Integers, Sequences

CONSTANTS
    Bricks,     \* on the wire
    Lengths,    \* of the buffers
    TimedOut,   \* the bricks that ask for the reception timeout
    Rules,      \* what programs and line keep to, see below
    MaxCalls,   \* bound: transfers that a brick starts
    MaxFaults   \* bound: characters spoilt on the wire

Kinds == {"send", "recv"}
Errors == {"OVRE", "FRAME", "PARE"}

ASSUME Rs485Assumption ==
    /\ Lengths \subseteq Nat \ {0}
    /\ TimedOut \subseteq Bricks
    /\ Rules \subseteq {"settled", "receptions", "undisturbed", "drained"}
    /\ MaxCalls \in Nat /\ MaxFaults \in Nat

VARIABLES
    rs485_state,    \* of each brick: the driver's
    usart,          \* of each brick: the registers of USART 0 and its PDC
    prog,           \* of each brick: the program's place in a call
    op,             \* of each brick: the transfer that was started last, and
                    \* what a send still owes to the wire
    faults

vars == <<rs485_state, usart, prog, op, faults>>

---------------------------------------------------------------------------
(* The steps of a transfer, on a brick's [d, u, o]: driver, USART, transfer *)

Brick(b) == [d |-> rs485_state[b], u |-> usart[b], o |-> op[b]]

Becomes(b, s) ==
    /\ rs485_state' = [rs485_state EXCEPT ![b] = s.d]
    /\ usart' = [usart EXCEPT ![b] = s.u]
    /\ op' = [op EXCEPT ![b] = s.o]

\* nx_rs485_send and nx_rs485_recv: the device is taken, ...
Taken(s, kind, n) ==
    [s EXCEPT !.d.status = IF kind = "send" THEN "TRANSMITTING" ELSE "RECEIVING",
              !.o = [@ EXCEPT !.id = s.o.id + 1, !.kind = kind, !.n = n, !.state = "begun",
                              !.spoilt = FALSE]]

Buffer(o) == [k \in 1..o.n |-> [id |-> o.id, k |-> k]]

\* ... its callback set, ...
WithCallback(s) == [s EXCEPT !.d.callback = s.o.id]

\* ... the PDC loaded, ...
Loaded(s) ==
    IF s.o.kind = "send"
    THEN [s EXCEPT !.u.tx = Buffer(s.o), !.o.due = @ \o Buffer(s.o)]
    ELSE [s EXCEPT !.u.rcr = s.o.n, !.u.got = <<>>]

\* ... and the USART let go: for a reception both ways, because of the wiring.
Enabled(s) ==
    IF s.o.kind = "send"
    THEN [s EXCEPT !.u.ier = @ \cup {"ENDTX"}, !.u.txen = TRUE]
    ELSE [s EXCEPT !.u.ier = @ \cup {"ENDRX"}, !.u.txen = TRUE, !.u.rxen = TRUE]

Begun(s, kind, n) == Enabled(Loaded(WithCallback(Taken(s, kind, n))))

\* RSTSTA, RSTRX and RSTTX.  The PDC keeps its counters.
StatusReset(u) == [u EXCEPT !.flags = @ \ Errors]
LineReset(u) ==
    [u EXCEPT !.flags = {}, !.out = <<>>, !.txen = FALSE, !.rxen = FALSE, !.armed = FALSE]

\* fire_callback: the callback is that of a transfer in progress, an error its own.
Fired(s, outcome) ==
    LET own == /\ s.o.state = "begun" /\ s.d.callback = s.o.id
               /\ outcome = "error" => s.o.spoilt
        told == [s EXCEPT !.o.own = @ /\ own]
    IN  CASE outcome = "SUCCESS" -> [told EXCEPT !.o.state = "done"]
          [] outcome = "ABORT" ->
                 [told EXCEPT !.o.state = "aborted",
                              !.o.due = IF s.o.kind = "send" THEN <<>> ELSE @]
          [] OTHER -> told

\* A callback that is told SUCCESS may start the next transfer.
Told(s) ==
    {s} \cup (IF s.d.status # "IDLE" \/ s.o.id = MaxCalls THEN {}
              ELSE {Begun(s, kind, n) : kind \in Kinds, n \in Lengths})

---------------------------------------------------------------------------
(* The interrupt *)

Csr(u) ==
    u.flags \cup (IF u.rcr = 0 THEN {"ENDRX"} ELSE {}) \cup (IF u.tx = <<>> THEN {"ENDTX"} ELSE {})

Interrupting(b) == usart[b].ier \cap Csr(usart[b]) # {}

\* Complete that looks at the flags only.
CompleteAnyway(s) == {"ENDRX", "ENDTX"} \cap Csr(s.u) # {}

Complete(s) ==
    \/ s.d.status = "RECEIVING" /\ "ENDRX" \in Csr(s.u)
    \/ s.d.status = "TRANSMITTING" /\ "ENDTX" \in Csr(s.u)

\* The completion that leaves its interrupts on.
CompletedEnabled(s) ==
    [s EXCEPT !.u.txen = FALSE, !.u.rxen = FALSE, !.u.armed = FALSE, !.d.status = "IDLE"]

\* The completion that resets the transmitter.
CompletedReset(s) ==
    [s EXCEPT !.u = [LineReset(@) EXCEPT !.ier = @ \ {"ENDRX", "ENDTX"}], !.d.status = "IDLE"]

\* What is in the transmitter is still sent.
Completed(s) ==
    [s EXCEPT !.u.ier = @ \ {"ENDRX", "ENDTX"}, !.u.txen = FALSE, !.u.rxen = FALSE,
              !.u.armed = FALSE, !.d.status = "IDLE"]

\* nx_rs485_isr.  A timeout and an error are told and change nothing else.
Isr(b) ==
    /\ Interrupting(b)
    /\ LET s == Brick(b)
           csr == Csr(s.u)
       IN  IF Complete(s) THEN \E t \in Told(Fired(Completed(s), "SUCCESS")) : Becomes(b, t)
           ELSE IF "TIMEOUT" \in csr
           THEN Becomes(b, Fired([s EXCEPT !.u.flags = @ \ {"TIMEOUT"}], "TIMEOUT"))
           ELSE IF csr \cap Errors # {}
           THEN Becomes(b, Fired([s EXCEPT !.u = StatusReset(@)], "error"))
           ELSE Becomes(b, s)
    /\ UNCHANGED <<prog, faults>>

---------------------------------------------------------------------------
(* The calls *)

At(b, place) == prog[b] = place /\ ~Interrupting(b)
Go(b, place) == prog' = [prog EXCEPT ![b] = place]

\* The test and the store that follows it.  A busy device refuses.
Call(b) ==
    /\ At(b, "idle") /\ rs485_state[b].status = "IDLE" /\ op[b].id < MaxCalls
    /\ \E kind \in Kinds, n \in Lengths : Becomes(b, Taken(Brick(b), kind, n))
    /\ Go(b, "callback") /\ UNCHANGED faults

StoreCallback(b) ==
    /\ At(b, "callback")
    /\ Becomes(b, WithCallback(Brick(b)))
    /\ Go(b, "load") /\ UNCHANGED faults

Load(b) ==
    /\ At(b, "load")
    /\ Becomes(b, Loaded(Brick(b)))
    /\ Go(b, "enable") /\ UNCHANGED faults

Enable(b) ==
    /\ At(b, "enable")
    /\ Becomes(b, Enabled(Brick(b)))
    /\ Go(b, "idle") /\ UNCHANGED faults

\*   receptions   nothing but a reception is aborted
\*   drained      an abort, or a shutdown, comes when the last character is out
AbortMay(b) ==
    /\ "receptions" \in Rules => rs485_state[b].status = "RECEIVING"
    /\ "drained" \in Rules => usart[b].out = <<>>

Stopped(s) == [s EXCEPT !.u = StatusReset(LineReset(s.u)), !.d.status = "IDLE"]

\* nx_rs485_abort, whose test and the rest are two steps.
Abort(b) ==
    /\ At(b, "idle") /\ rs485_state[b].status \notin {"UNINITIALIZED", "IDLE"}
    /\ AbortMay(b)
    /\ Go(b, "abort") /\ UNCHANGED <<rs485_state, usart, op, faults>>

AbortReset(b) ==
    /\ At(b, "abort")
    /\ Becomes(b, Fired(Stopped(Brick(b)), "ABORT"))
    /\ Go(b, "idle") /\ UNCHANGED faults

Disabled(s) == [s EXCEPT !.u = LineReset(@), !.d.status = "UNINITIALIZED"]

Shutdown(b) ==
    /\ At(b, "idle") /\ rs485_state[b].status = "IDLE"
    /\ "drained" \in Rules => usart[b].out = <<>>
    /\ Becomes(b, Disabled(Brick(b)))
    /\ UNCHANGED <<prog, faults>>

\* nx_rs485_init, also the parity error, whose test compares with the default's 0.
Interrupts(b) == Errors \cup {i \in {"TIMEOUT"} : b \in TimedOut}

Initialized(b, s) ==
    [s EXCEPT !.u = [LineReset(@) EXCEPT !.ier = Interrupts(b)], !.d.status = "IDLE"]

Initialize(b) ==
    /\ At(b, "idle") /\ rs485_state[b].status = "UNINITIALIZED"
    /\ Becomes(b, Initialized(b, Brick(b)))
    /\ UNCHANGED <<prog, faults>>

InCall(b) == StoreCallback(b) \/ Load(b) \/ Enable(b) \/ AbortReset(b)

---------------------------------------------------------------------------
(* The wire *)

\* The PDC feeds the transmitter, which holds two characters.
Fed(u) == [u EXCEPT !.out = Append(@, Head(u.tx)), !.tx = Tail(@)]

Feed(b) ==
    /\ usart[b].txen /\ usart[b].tx # <<>> /\ Len(usart[b].out) < 2
    /\ usart' = [usart EXCEPT ![b] = Fed(@)]
    /\ UNCHANGED <<rs485_state, prog, op, faults>>

\* A character gets to a receiver, whole or with one of the errors; one that
\* overruns is not stored.
Received(u, char, error) ==
    LET v == [u EXCEPT !.armed = TRUE, !.flags = @ \cup (error \ {"none"})] IN
    IF "OVRE" \in error \/ u.rcr = 0 THEN v
    ELSE [v EXCEPT !.got = Append(@, char), !.rcr = @ - 1]

\* A character leaves the transmitter: whoever listens then gets it.
\*   settled      the last character of a reception is not spoilt
\*   undisturbed  no character comes between the two steps of nx_rs485_abort
Shift(b) ==
    LET char == Head(usart[b].out)
        listen == {c \in Bricks \ {b} : usart[c].rxen /\ usart[c].txen}
    IN
    /\ usart[b].out # <<>>
    /\ \A c \in listen : ~Interrupting(c)
    /\ "undisturbed" \in Rules => \A c \in listen : prog[c] # "abort"
    /\ \E error \in {{"none"}} \cup (IF faults < MaxFaults THEN {{e} : e \in Errors} ELSE {}) :
           /\ error # {"none"} => listen # {}
           /\ error # {"none"} /\ "settled" \in Rules => \A c \in listen : usart[c].rcr > 1
           /\ usart' = [c \in Bricks |->
                  IF c = b THEN [usart[c] EXCEPT !.out = Tail(@)]
                  ELSE IF c \in listen THEN Received(usart[c], char, error) ELSE usart[c]]
           /\ op' = [c \in Bricks |->
                  IF c = b
                  THEN IF op[b].due # <<>> /\ char = Head(op[b].due)
                       THEN [op[b] EXCEPT !.due = Tail(@)] ELSE [op[b] EXCEPT !.clean = FALSE]
                  ELSE IF c \in listen /\ error # {"none"} THEN [op[c] EXCEPT !.spoilt = TRUE] ELSE op[c]]
           /\ faults' = IF error = {"none"} THEN faults ELSE faults + 1
    /\ UNCHANGED <<rs485_state, prog>>

\* The line is idle for the timeout after a character.
Elapsed(u) == [u EXCEPT !.armed = FALSE, !.flags = @ \cup {"TIMEOUT"}]

Silence(b) ==
    /\ b \in TimedOut /\ usart[b].armed /\ usart[b].rxen /\ ~Interrupting(b)
    /\ usart' = [usart EXCEPT ![b] = Elapsed(@)]
    /\ UNCHANGED <<rs485_state, prog, op, faults>>

Init ==
    /\ rs485_state = [b \in Bricks |-> [status |-> "UNINITIALIZED", callback |-> 0]]
    /\ usart = [b \in Bricks |->
           [ier |-> {}, flags |-> {}, tx |-> <<>>, out |-> <<>>, txen |-> FALSE,
            rcr |-> 0, got |-> <<>>, rxen |-> FALSE, armed |-> FALSE]]
    /\ prog = [b \in Bricks |-> "idle"]
    /\ op = [b \in Bricks |->
           [id |-> 0, kind |-> "none", n |-> 0, state |-> "none", spoilt |-> FALSE,
            due |-> <<>>, own |-> TRUE, clean |-> TRUE]]
    /\ faults = 0

Next ==
    \E b \in Bricks :
        \/ Isr(b) \/ InCall(b) \/ Call(b) \/ Abort(b) \/ Shutdown(b) \/ Initialize(b)
        \/ Feed(b) \/ Shift(b) \/ Silence(b)

Spec ==
    /\ Init /\ [][Next]_vars
    /\ \A b \in Bricks :
           WF_vars(Isr(b)) /\ WF_vars(InCall(b)) /\ WF_vars(Feed(b) \/ Shift(b))

---------------------------------------------------------------------------
(* Properties *)

\* The callback that is run is that of the transfer in progress, once it is
\* over never again; what it is told has happened to this very transfer, and
\* SUCCESS means the whole of the buffer.
AnswersOwn ==
    \A b \in Bricks :
        /\ op[b].own
        /\ op[b].state = "done" =>
               IF op[b].kind = "send" THEN usart[b].tx = <<>>
               ELSE Len(usart[b].got) = op[b].n

\* What a brick puts on the wire is what its program sent and did not abort, in
\* order and to the end, whatever was aborted, received or shut down since.
WireTrue ==
    \A b \in Bricks :
        /\ op[b].clean
        /\ rs485_state[b].status = "UNINITIALIZED" => op[b].due = <<>>

\* The interrupt is level triggered: each time it removes its own cause, so that
\* the program goes on; and a transmission ends, whoever listens.
SendsEnd ==
    \A b \in Bricks :
        Interrupting(b) \/ rs485_state[b].status = "TRANSMITTING"
            ~> ~Interrupting(b) /\ rs485_state[b].status # "TRANSMITTING"

=============================================================================
