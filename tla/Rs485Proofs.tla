---------------------------- MODULE Rs485Proofs ----------------------------
(***************************************************************************)
(* Theorems about the RS485 driver: any number of bricks on one wire, any  *)
(* buffers, any number of spoilt characters.                               *)
(***************************************************************************)
EXTENDS Rs485, SequenceTheorems, TLAPS

---------------------------------------------------------------------------
(* The inductive invariant *)

Statuses == {"UNINITIALIZED", "IDLE", "TRANSMITTING", "RECEIVING"}
Flags == Errors \cup {"TIMEOUT"}
Sources == Flags \cup {"ENDRX", "ENDTX"}
Places == {"idle", "callback", "load", "enable", "abort"}
Kept == Kinds \cup {"none"}
States == {"none", "begun", "done", "aborted"}
Chars == [id : Nat, k : Nat]

Drivers == [status : Statuses, callback : Nat]
Usarts == [ier : SUBSET Sources, flags : SUBSET Flags, tx : Seq(Chars), out : Seq(Chars),
           txen : BOOLEAN, rcr : Nat, got : Seq(Chars), rxen : BOOLEAN, armed : BOOLEAN]
Transfers == [id : Nat, kind : Kept, n : Nat, state : States, spoilt : BOOLEAN,
              due : Seq(Chars), own : BOOLEAN, clean : BOOLEAN]
Sides == [d : Drivers, u : Usarts, o : Transfers]

\* Nothing comes in, nothing more is fed to the transmitter, nothing interrupts.
Quiet(u) ==
    /\ ~u.rxen /\ ~u.txen /\ u.flags = {}
    /\ "ENDTX" \notin u.ier
    /\ "ENDRX" \in u.ier => u.rcr > 0

\* An initialised driver has its interrupts of errors.
Listens(b, s) ==
    /\ Errors \subseteq s.u.ier
    /\ b \in TimedOut => "TIMEOUT" \in s.u.ier

Resting(s, p) ==
    /\ p = "idle" /\ Quiet(s.u) /\ s.u.tx = <<>>
    /\ s.o.state # "begun"
    /\ s.o.state = "done" /\ s.o.kind # "send" => Len(s.u.got) = s.o.n

\* In nx_rs485_send or nx_rs485_recv.
Starting(s, p) ==
    /\ p \in {"callback", "load", "enable"} /\ Quiet(s.u)
    /\ s.o.state = "begun" /\ s.o.n > 0
    /\ s.d.status = IF s.o.kind = "send" THEN "TRANSMITTING" ELSE "RECEIVING"
    /\ s.o.kind # "none"
    /\ p # "callback" => s.d.callback = s.o.id
    /\ s.u.tx # <<>> => p = "enable" /\ s.o.kind = "send"
    /\ p = "enable" /\ s.o.kind = "recv" => Len(s.u.got) + s.u.rcr = s.o.n

Sending(s, p) ==
    /\ p = "idle" /\ s.d.status = "TRANSMITTING"
    /\ s.o.kind = "send" /\ s.o.state = "begun" /\ s.d.callback = s.o.id
    /\ ~s.u.rxen /\ s.u.txen /\ s.u.flags = {}
    /\ "ENDTX" \in s.u.ier
    /\ "ENDRX" \in s.u.ier => s.u.rcr > 0

\* A flag is one of an error that came with a character of this very transfer,
\* or the timeout's, and the last character is still to come.
Receiving(s, p) ==
    /\ s.d.status = "RECEIVING"
    /\ s.o.kind = "recv" /\ s.o.state = "begun" /\ s.d.callback = s.o.id
    /\ s.u.tx = <<>> /\ s.u.rxen /\ s.u.txen
    /\ "ENDRX" \in s.u.ier /\ "ENDTX" \notin s.u.ier
    /\ Len(s.u.got) + s.u.rcr = s.o.n
    /\ s.u.flags \subseteq s.u.ier
    /\ s.u.flags \cap Errors # {} => s.o.spoilt
    /\ s.u.flags # {} => s.u.rcr > 0
    /\ p = "idle" \/ (p = "abort" /\ s.u.rcr > 0 /\ s.u.out = <<>>)

BrickInv(b, s, p) ==
    /\ s \in Sides /\ p \in Places
    /\ s.o.own /\ s.o.clean
    /\ s.o.due = s.u.out \o s.u.tx
    /\ \/ s.d.status = "UNINITIALIZED" /\ Resting(s, p) /\ s.u.out = <<>>
       \/ /\ Listens(b, s)
          /\ \/ s.d.status = "IDLE" /\ Resting(s, p)
             \/ Starting(s, p) \/ Sending(s, p) \/ Receiving(s, p)

Shapes ==
    /\ rs485_state \in [Bricks -> Drivers]
    /\ usart \in [Bricks -> Usarts]
    /\ op \in [Bricks -> Transfers]
    /\ prog \in [Bricks -> Places]

Inv == Shapes /\ \A b \in Bricks : BrickInv(b, Brick(b), prog[b])

---------------------------------------------------------------------------
(* What the steps of a transfer do to a brick's record *)

LEMMA Names ==
    /\ \A e \in Errors : e # "none" /\ e # "TIMEOUT" /\ e # "ENDRX" /\ e # "ENDTX"
    /\ "TIMEOUT" # "ENDRX" /\ "TIMEOUT" # "ENDTX"
    /\ Errors \subseteq Flags /\ Flags \subseteq Sources
    /\ "TIMEOUT" \in Flags /\ "ENDRX" \in Sources /\ "ENDTX" \in Sources
    /\ "ENDRX" \notin Flags /\ "ENDTX" \notin Flags
BY DEF Errors, Flags, Sources

LEMMA SideIs ==
    ASSUME NEW s \in Sides
    PROVE  s.d \in Drivers /\ s.u \in Usarts /\ s.o \in Transfers
BY DEF Sides

LEMMA BufferIs ==
    ASSUME NEW o \in Transfers
    PROVE  Buffer(o) \in Seq(Chars)
<1>1. o.n \in Nat /\ o.id \in Nat
    BY DEF Transfers
<1>2. \A k \in 1..o.n : [id |-> o.id, k |-> k] \in Chars
    BY <1>1 DEF Chars
<1> QED
    BY <1>1, <1>2 DEF Buffer

LEMMA TakenIs ==
    ASSUME NEW s \in Sides, NEW kind \in Kinds, NEW n \in Nat
    PROVE  LET t == Taken(s, kind, n) IN
           /\ t \in Sides /\ t.u = s.u
           /\ t.d.status = IF kind = "send" THEN "TRANSMITTING" ELSE "RECEIVING"
           /\ t.o.kind = kind /\ t.o.n = n /\ t.o.state = "begun"
           /\ t.o.due = s.o.due /\ t.o.own = s.o.own /\ t.o.clean = s.o.clean
<1> DEFINE status == IF kind = "send" THEN "TRANSMITTING" ELSE "RECEIVING"
           id == s.o.id + 1
           begun == "begun"
<1>1. status \in Statuses /\ kind \in Kept /\ begun \in States
    BY DEF Statuses, Kept, States
<1>2. id \in Nat
    BY SideIs DEF Transfers
<1>3. Taken(s, kind, n) =
          [s EXCEPT !.d.status = status,
                    !.o = [@ EXCEPT !.id = id, !.kind = kind, !.n = n, !.state = begun,
                                    !.spoilt = FALSE]]
    BY DEF Taken
<1> HIDE DEF status, id, begun
<1> DEFINE d == [s.d EXCEPT !.status = status]
           o == [s.o EXCEPT !.id = id, !.kind = kind, !.n = n, !.state = begun, !.spoilt = FALSE]
<1>4. d \in Drivers /\ o \in Transfers
    BY <1>1, <1>2, SideIs DEF Drivers, Transfers
<1>5. Taken(s, kind, n) = [d |-> d, u |-> s.u, o |-> o]
    BY <1>3 DEF Sides
<1>6. Taken(s, kind, n) \in Sides
    BY <1>4, <1>5, SideIs DEF Sides
<1>7. Taken(s, kind, n).d = d /\ Taken(s, kind, n).u = s.u /\ Taken(s, kind, n).o = o
    BY <1>5
<1>8. d.status = status
    BY SideIs DEF Drivers
<1>9. /\ o.kind = kind /\ o.n = n /\ o.state = begun
      /\ o.due = s.o.due /\ o.own = s.o.own /\ o.clean = s.o.clean
    BY SideIs DEF Transfers
<1> QED
    BY <1>6, <1>7, <1>8, <1>9 DEF status, begun

LEMMA WithCallbackIs ==
    ASSUME NEW s \in Sides
    PROVE  LET t == WithCallback(s) IN
           /\ t \in Sides /\ t.u = s.u /\ t.o = s.o
           /\ t.d.callback = s.o.id /\ t.d.status = s.d.status
<1>1. [s.d EXCEPT !.callback = s.o.id] \in Drivers
    BY SideIs DEF Drivers, Transfers
<1> QED
    BY <1>1, SideIs DEF WithCallback, Sides, Drivers

LEMMA LoadedIs ==
    ASSUME NEW s \in Sides
    PROVE  LET t == Loaded(s) IN
           /\ t \in Sides /\ t.d = s.d
           /\ t.u.ier = s.u.ier /\ t.u.flags = s.u.flags /\ t.u.out = s.u.out
           /\ t.u.txen = s.u.txen /\ t.u.rxen = s.u.rxen
           /\ t.o.id = s.o.id /\ t.o.kind = s.o.kind /\ t.o.n = s.o.n
           /\ t.o.state = s.o.state /\ t.o.own = s.o.own /\ t.o.clean = s.o.clean
           /\ s.o.kind = "send" => /\ t.u.tx = Buffer(s.o) /\ t.u.rcr = s.u.rcr
                                   /\ t.o.due = s.o.due \o Buffer(s.o)
           /\ s.o.kind # "send" => /\ t.u.tx = s.u.tx /\ t.o.due = s.o.due
                                   /\ t.u.rcr = s.o.n /\ t.u.got = <<>>
<1> USE SideIs
<1>1. CASE s.o.kind = "send"
    <2> DEFINE tx == Buffer(s.o)
               due == s.o.due \o Buffer(s.o)
    <2>1. tx \in Seq(Chars) /\ due \in Seq(Chars)
        BY BufferIs DEF Transfers
    <2>2. Loaded(s) = [s EXCEPT !.u.tx = tx, !.o.due = due]
        BY <1>1 DEF Loaded
    <2> HIDE DEF tx, due
    <2>3. [s.u EXCEPT !.tx = tx] \in Usarts /\ [s.o EXCEPT !.due = due] \in Transfers
        BY <2>1 DEF Usarts, Transfers
    <2>4. Loaded(s) = [d |-> s.d, u |-> [s.u EXCEPT !.tx = tx], o |-> [s.o EXCEPT !.due = due]]
        BY <2>2 DEF Sides
    <2>5. Loaded(s) \in Sides
        BY <2>3, <2>4 DEF Sides
    <2>6. /\ Loaded(s).d = s.d /\ Loaded(s).u = [s.u EXCEPT !.tx = tx]
          /\ Loaded(s).o = [s.o EXCEPT !.due = due]
        BY <2>4
    <2> QED
        BY <1>1, <2>5, <2>6 DEF tx, due, Usarts, Transfers
<1>2. CASE s.o.kind # "send"
    <2> DEFINE u == [s.u EXCEPT !.rcr = s.o.n, !.got = <<>>]
    <2>1. Loaded(s) = [s EXCEPT !.u.rcr = s.o.n, !.u.got = <<>>]
        BY <1>2 DEF Loaded
    <2>2. <<>> \in Seq(Chars) /\ s.o.n \in Nat
        BY DEF Transfers
    <2>3. u \in Usarts
        BY <2>2 DEF Usarts
    <2>4. Loaded(s) = [d |-> s.d, u |-> u, o |-> s.o]
        BY <2>1 DEF Sides
    <2>5. Loaded(s) \in Sides
        BY <2>3, <2>4 DEF Sides
    <2>6. Loaded(s).d = s.d /\ Loaded(s).u = u /\ Loaded(s).o = s.o
        BY <2>4
    <2> QED
        BY <1>2, <2>5, <2>6 DEF Usarts
<1> QED
    BY <1>1, <1>2

LEMMA EnabledIs ==
    ASSUME NEW s \in Sides
    PROVE  LET t == Enabled(s) IN
           /\ t \in Sides /\ t.d = s.d /\ t.o = s.o
           /\ t.u.flags = s.u.flags /\ t.u.tx = s.u.tx /\ t.u.out = s.u.out
           /\ t.u.rcr = s.u.rcr /\ t.u.got = s.u.got /\ t.u.txen
           /\ s.o.kind = "send" => /\ t.u.ier = s.u.ier \cup {"ENDTX"}
                                   /\ t.u.rxen = s.u.rxen
           /\ s.o.kind # "send" => t.u.ier = s.u.ier \cup {"ENDRX"} /\ t.u.rxen
<1> USE SideIs
<1>1. CASE s.o.kind = "send"
    <2> DEFINE ier == s.u.ier \cup {"ENDTX"}
               u == [s.u EXCEPT !.ier = ier, !.txen = TRUE]
    <2>1. ier \in SUBSET Sources
        BY Names DEF Usarts
    <2>2. Enabled(s) = [s EXCEPT !.u.ier = ier, !.u.txen = TRUE]
        BY <1>1 DEF Enabled
    <2> HIDE DEF ier
    <2>3. u \in Usarts
        BY <2>1 DEF Usarts
    <2>4. Enabled(s) = [d |-> s.d, u |-> u, o |-> s.o]
        BY <2>2 DEF Sides
    <2>5. Enabled(s) \in Sides
        BY <2>3, <2>4 DEF Sides
    <2>6. Enabled(s).d = s.d /\ Enabled(s).u = u /\ Enabled(s).o = s.o
        BY <2>4
    <2> QED
        BY <1>1, <2>5, <2>6 DEF Usarts, ier
<1>2. CASE s.o.kind # "send"
    <2> DEFINE ier == s.u.ier \cup {"ENDRX"}
               u == [s.u EXCEPT !.ier = ier, !.txen = TRUE, !.rxen = TRUE]
    <2>1. ier \in SUBSET Sources
        BY Names DEF Usarts
    <2>2. Enabled(s) = [s EXCEPT !.u.ier = ier, !.u.txen = TRUE, !.u.rxen = TRUE]
        BY <1>2 DEF Enabled
    <2> HIDE DEF ier
    <2>3. u \in Usarts
        BY <2>1 DEF Usarts
    <2>4. Enabled(s) = [d |-> s.d, u |-> u, o |-> s.o]
        BY <2>2 DEF Sides
    <2>5. Enabled(s) \in Sides
        BY <2>3, <2>4 DEF Sides
    <2>6. Enabled(s).d = s.d /\ Enabled(s).u = u /\ Enabled(s).o = s.o
        BY <2>4
    <2> QED
        BY <1>2, <2>5, <2>6 DEF Usarts, ier
<1> QED
    BY <1>1, <1>2

LEMMA CompletedIs ==
    ASSUME NEW s \in Sides
    PROVE  LET t == Completed(s) IN
           /\ t \in Sides /\ t.o = s.o
           /\ t.d.status = "IDLE" /\ t.d.callback = s.d.callback
           /\ t.u.ier = s.u.ier \ {"ENDRX", "ENDTX"}
           /\ ~t.u.txen /\ ~t.u.rxen
           /\ t.u.flags = s.u.flags /\ t.u.tx = s.u.tx /\ t.u.out = s.u.out
           /\ t.u.rcr = s.u.rcr /\ t.u.got = s.u.got
<1> USE SideIs
<1> DEFINE ier == s.u.ier \ {"ENDRX", "ENDTX"}
           idle == "IDLE"
           u == [s.u EXCEPT !.ier = ier, !.txen = FALSE, !.rxen = FALSE, !.armed = FALSE]
           d == [s.d EXCEPT !.status = idle]
<1>1. ier \in SUBSET Sources /\ idle \in Statuses
    BY DEF Usarts, Statuses
<1>2. Completed(s) = [s EXCEPT !.u.ier = ier, !.u.txen = FALSE, !.u.rxen = FALSE,
                               !.u.armed = FALSE, !.d.status = idle]
    BY DEF Completed
<1> HIDE DEF ier, idle
<1>3. u \in Usarts /\ d \in Drivers
    BY <1>1 DEF Usarts, Drivers
<1>4. Completed(s) = [d |-> d, u |-> u, o |-> s.o]
    BY <1>2 DEF Sides
<1>5. Completed(s) \in Sides
    BY <1>3, <1>4 DEF Sides
<1>6. Completed(s).d = d /\ Completed(s).u = u /\ Completed(s).o = s.o
    BY <1>4
<1> QED
    BY <1>5, <1>6 DEF Usarts, Drivers, ier, idle

LEMMA LineResetIs ==
    ASSUME NEW u \in Usarts
    PROVE  LET v == LineReset(u) IN
           /\ v \in Usarts
           /\ v.ier = u.ier /\ v.tx = u.tx /\ v.rcr = u.rcr /\ v.got = u.got
           /\ v.flags = {} /\ v.out = <<>> /\ ~v.txen /\ ~v.rxen
<1> DEFINE empty == <<>>
           none == {}
<1>1. empty \in Seq(Chars) /\ none \in SUBSET Flags
    OBVIOUS
<1>2. LineReset(u) = [u EXCEPT !.flags = none, !.out = empty, !.txen = FALSE,
                               !.rxen = FALSE, !.armed = FALSE]
    BY DEF LineReset
<1> HIDE DEF empty, none
<1>3. LineReset(u) \in Usarts
    BY <1>1, <1>2 DEF Usarts
<1> QED
    BY <1>2, <1>3 DEF Usarts, empty, none

\* Dropping status flags.
Lowered(s, F) == [s EXCEPT !.u.flags = @ \ F]

LEMMA LoweredIs ==
    ASSUME NEW s \in Sides, NEW F
    PROVE  LET t == Lowered(s, F) IN
           /\ t \in Sides /\ t.d = s.d /\ t.o = s.o
           /\ t.u.flags = s.u.flags \ F
           /\ t.u.ier = s.u.ier /\ t.u.tx = s.u.tx /\ t.u.out = s.u.out
           /\ t.u.txen = s.u.txen /\ t.u.rxen = s.u.rxen
           /\ t.u.rcr = s.u.rcr /\ t.u.got = s.u.got
<1> USE SideIs
<1> DEFINE t == Lowered(s, F)
           flags == s.u.flags \ F
           u == [s.u EXCEPT !.flags = flags]
<1>1. flags \in SUBSET Flags
    BY DEF Usarts
<1>2. t = [s EXCEPT !.u.flags = flags]
    BY DEF Lowered
<1> HIDE DEF flags
<1>3. u \in Usarts
    BY <1>1 DEF Usarts
<1>4. t = [d |-> s.d, u |-> u, o |-> s.o]
    BY <1>2 DEF Sides
<1>5. t \in Sides
    BY <1>3, <1>4 DEF Sides
<1>6. t.d = s.d /\ t.u = u /\ t.o = s.o
    BY <1>4
<1>7. /\ u.flags = flags /\ u.ier = s.u.ier /\ u.tx = s.u.tx /\ u.out = s.u.out
      /\ u.txen = s.u.txen /\ u.rxen = s.u.rxen /\ u.rcr = s.u.rcr /\ u.got = s.u.got
    BY DEF Usarts
<1> QED
    BY <1>5, <1>6, <1>7, Zenon DEF flags

\* A callback changes what is known of the transfer only.
LEMMA FiredIs ==
    ASSUME NEW s \in Sides, NEW outcome
    PROVE  LET t == Fired(s, outcome)
               own == /\ s.o.state = "begun" /\ s.d.callback = s.o.id
                      /\ outcome = "error" => s.o.spoilt
           IN
           /\ t \in Sides /\ t.d = s.d /\ t.u = s.u
           /\ t.o.id = s.o.id /\ t.o.kind = s.o.kind /\ t.o.n = s.o.n
           /\ t.o.spoilt = s.o.spoilt /\ t.o.clean = s.o.clean
           /\ t.o.own <=> s.o.own /\ own
           /\ outcome # "ABORT" \/ s.o.kind # "send" => t.o.due = s.o.due
           /\ t.o.state = CASE outcome = "SUCCESS" -> "done"
                            [] outcome = "ABORT" -> "aborted"
                            [] OTHER -> s.o.state
<1> USE SideIs
<1> DEFINE own == s.o.own /\ /\ s.o.state = "begun" /\ s.d.callback = s.o.id
                             /\ outcome = "error" => s.o.spoilt
           o1 == [s.o EXCEPT !.own = own]
           told == [s EXCEPT !.o.own = own]
<1>1. own \in BOOLEAN
    BY Zenon DEF Transfers
<1> HIDE DEF own
<1>2. o1 \in Transfers
    BY <1>1 DEF Transfers
<1>3. told = [d |-> s.d, u |-> s.u, o |-> o1]
    BY DEF Sides
<1> HIDE DEF told
<1>4. told \in Sides /\ told.d = s.d /\ told.u = s.u /\ told.o = o1
    BY <1>2, <1>3 DEF Sides
<1>5. /\ o1.own = own
      /\ o1.id = s.o.id /\ o1.kind = s.o.kind /\ o1.n = s.o.n /\ o1.state = s.o.state
      /\ o1.spoilt = s.o.spoilt /\ o1.clean = s.o.clean /\ o1.due = s.o.due
    BY DEF Transfers
<1> HIDE DEF o1
<1>6. CASE outcome = "SUCCESS"
    <2> DEFINE done == "done"
               o == [o1 EXCEPT !.state = done]
    <2>1. done \in States
        BY DEF States
    <2>2. Fired(s, outcome) = [told EXCEPT !.o.state = done]
        BY <1>6, Zenon DEF Fired, told, own
    <2> HIDE DEF done
    <2>3. o \in Transfers
        BY <1>2, <2>1 DEF Transfers
    <2>4. Fired(s, outcome) = [d |-> s.d, u |-> s.u, o |-> o]
        BY <1>4, <2>2 DEF Sides
    <2>5. /\ Fired(s, outcome) \in Sides /\ Fired(s, outcome).d = s.d
          /\ Fired(s, outcome).u = s.u /\ Fired(s, outcome).o = o
        BY <2>3, <2>4 DEF Sides
    <2>6. /\ o.own = o1.own
          /\ o.id = o1.id /\ o.kind = o1.kind /\ o.n = o1.n /\ o.state = done
          /\ o.spoilt = o1.spoilt /\ o.clean = o1.clean /\ o.due = o1.due
        BY <1>2 DEF Transfers
    <2> QED
        BY <1>5, <1>6, <2>5, <2>6, Zenon DEF done, own
<1>7. CASE outcome = "ABORT"
    <2> DEFINE aborted == "aborted"
               due == IF s.o.kind = "send" THEN <<>> ELSE s.o.due
               o == [o1 EXCEPT !.state = aborted, !.due = due]
    <2>1. aborted \in States /\ due \in Seq(Chars)
        BY DEF States, Transfers
    <2>2. Fired(s, outcome) = [told EXCEPT !.o.state = aborted, !.o.due = due]
        BY <1>4, <1>5, <1>7, Zenon DEF Fired, told, own
    <2> HIDE DEF aborted, due
    <2>3. o \in Transfers
        BY <1>2, <2>1 DEF Transfers
    <2>4. Fired(s, outcome) = [d |-> s.d, u |-> s.u, o |-> o]
        BY <1>4, <2>2 DEF Sides
    <2>5. /\ Fired(s, outcome) \in Sides /\ Fired(s, outcome).d = s.d
          /\ Fired(s, outcome).u = s.u /\ Fired(s, outcome).o = o
        BY <2>3, <2>4 DEF Sides
    <2>6. /\ o.own = o1.own
          /\ o.id = o1.id /\ o.kind = o1.kind /\ o.n = o1.n /\ o.state = aborted
          /\ o.spoilt = o1.spoilt /\ o.clean = o1.clean /\ o.due = due
        BY <1>2 DEF Transfers
    <2>7. s.o.kind # "send" => due = s.o.due
        BY DEF due
    <2> QED
        BY <1>5, <1>7, <2>5, <2>6, <2>7, Zenon DEF aborted, own
<1>8. CASE outcome # "SUCCESS" /\ outcome # "ABORT"
    <2>1. Fired(s, outcome) = told
        BY <1>8 DEF Fired, told, own
    <2> QED
        BY <1>4, <1>5, <1>8, <2>1, Zenon DEF own
<1> QED
    BY <1>6, <1>7, <1>8

---------------------------------------------------------------------------
(* Each step on one brick keeps its invariant *)

\* A part of the invariant that says who may be interrupted: nobody but a brick
\* whose transfer is over or that has a flag to be told.
LEMMA CsrIs ==
    ASSUME NEW u \in Usarts
    PROVE  /\ "ENDRX" \in Csr(u) <=> u.rcr = 0
           /\ "ENDTX" \in Csr(u) <=> u.tx = <<>>
           /\ "TIMEOUT" \in Csr(u) <=> "TIMEOUT" \in u.flags
           /\ Csr(u) \cap Errors = u.flags \cap Errors
           /\ u.flags \subseteq Csr(u)
           /\ Csr(u) \subseteq u.flags \cup {"ENDRX", "ENDTX"}
BY Names DEF Csr, Usarts

LEMMA QuietIsSilent ==
    ASSUME NEW u \in Usarts, Quiet(u), "ENDTX" \notin u.ier
    PROVE  u.ier \cap Csr(u) = {}
<1>1. "ENDRX" \in u.ier => "ENDRX" \notin Csr(u)
    BY CsrIs DEF Quiet, Usarts
<1> QED
    BY <1>1, CsrIs DEF Quiet

LEMMA Interrupted ==
    ASSUME NEW b, NEW s, NEW p, BrickInv(b, s, p), s.u.ier \cap Csr(s.u) # {}
    PROVE  Listens(b, s) /\ (Sending(s, p) \/ Receiving(s, p))
<1>1. s.u \in Usarts
    BY SideIs DEF BrickInv
<1>2. ~Quiet(s.u)
    BY <1>1, QuietIsSilent DEF Quiet
<1> QED
    BY <1>2 DEF BrickInv, Resting, Starting

LEMMA NotInterrupted ==
    ASSUME NEW b, NEW s, NEW p, BrickInv(b, s, p), s.u.ier \cap Csr(s.u) = {}
    PROVE  /\ Sending(s, p) => s.u.tx # <<>>
           /\ Receiving(s, p) => s.u.rcr > 0 /\ s.u.flags = {}
<1>1. s.u \in Usarts
    BY SideIs DEF BrickInv
<1>2. Sending(s, p) => s.u.tx # <<>>
    BY <1>1, CsrIs DEF Sending
<1>3. Receiving(s, p) => s.u.flags = {}
    BY <1>1, CsrIs DEF Receiving
<1>4. Receiving(s, p) => s.u.rcr # 0
    BY <1>1, CsrIs DEF Receiving
<1>5. s.u.rcr \in Nat
    BY <1>1 DEF Usarts
<1> QED
    BY <1>2, <1>3, <1>4, <1>5

LEMMA LengthsArePositive == \A n \in Lengths : n \in Nat /\ n > 0
BY Rs485Assumption

LEMMA CallStep ==
    ASSUME NEW b, NEW s, NEW p, BrickInv(b, s, p), s.d.status = "IDLE",
           NEW kind \in Kinds, NEW n \in Lengths
    PROVE  BrickInv(b, Taken(s, kind, n), "callback")
<1> DEFINE t == Taken(s, kind, n)
<1>1. s \in Sides /\ Resting(s, p) /\ Listens(b, s)
    BY DEF BrickInv, Starting, Sending, Receiving
<1>2. /\ t \in Sides /\ t.u = s.u
      /\ t.d.status = IF kind = "send" THEN "TRANSMITTING" ELSE "RECEIVING"
      /\ t.o.kind = kind /\ t.o.n = n /\ t.o.state = "begun"
      /\ t.o.due = s.o.due /\ t.o.own = s.o.own /\ t.o.clean = s.o.clean
    BY <1>1, TakenIs, LengthsArePositive
<1> HIDE DEF t
<1>3. Starting(t, "callback")
    BY <1>1, <1>2, LengthsArePositive DEF Starting, Resting, Kinds
<1>4. Listens(b, t) /\ "callback" \in Places
    BY <1>1, <1>2 DEF Listens, Places
<1>5. t.o.own /\ t.o.clean /\ t.o.due = t.u.out \o t.u.tx
    BY <1>2 DEF BrickInv
<1>6. BrickInv(b, t, "callback")
    BY <1>2, <1>3, <1>4, <1>5 DEF BrickInv
<1> QED
    BY <1>6 DEF t

LEMMA CallbackStep ==
    ASSUME NEW b, NEW s, BrickInv(b, s, "callback")
    PROVE  BrickInv(b, WithCallback(s), "load")
<1> DEFINE t == WithCallback(s)
<1>1. s \in Sides /\ Starting(s, "callback") /\ Listens(b, s)
    BY DEF BrickInv, Resting, Sending, Receiving
<1>2. /\ t \in Sides /\ t.u = s.u /\ t.o = s.o
      /\ t.d.callback = s.o.id /\ t.d.status = s.d.status
    BY <1>1, WithCallbackIs
<1> HIDE DEF t
<1>3. Starting(t, "load")
    BY <1>1, <1>2 DEF Starting
<1>4. Listens(b, t) /\ "load" \in Places
    BY <1>1, <1>2 DEF Listens, Places
<1>5. t.o.own /\ t.o.clean /\ t.o.due = t.u.out \o t.u.tx
    BY <1>2 DEF BrickInv
<1>6. BrickInv(b, t, "load")
    BY <1>2, <1>3, <1>4, <1>5 DEF BrickInv
<1> QED
    BY <1>6 DEF t

LEMMA LoadStep ==
    ASSUME NEW b, NEW s, BrickInv(b, s, "load")
    PROVE  BrickInv(b, Loaded(s), "enable")
<1> DEFINE t == Loaded(s)
<1>1. s \in Sides /\ Starting(s, "load") /\ Listens(b, s)
    BY DEF BrickInv, Resting, Sending, Receiving
<1>2. /\ t \in Sides /\ t.d = s.d
      /\ t.u.ier = s.u.ier /\ t.u.flags = s.u.flags /\ t.u.out = s.u.out
      /\ t.u.txen = s.u.txen /\ t.u.rxen = s.u.rxen
      /\ t.o.id = s.o.id /\ t.o.kind = s.o.kind /\ t.o.n = s.o.n
      /\ t.o.state = s.o.state /\ t.o.own = s.o.own /\ t.o.clean = s.o.clean
      /\ s.o.kind = "send" => /\ t.u.tx = Buffer(s.o) /\ t.u.rcr = s.u.rcr
                              /\ t.o.due = s.o.due \o Buffer(s.o)
      /\ s.o.kind # "send" => /\ t.u.tx = s.u.tx /\ t.o.due = s.o.due
                              /\ t.u.rcr = s.o.n /\ t.u.got = <<>>
    BY <1>1, LoadedIs
<1> HIDE DEF t
<1>3. s.u.tx = <<>> /\ s.u.out \in Seq(Chars) /\ s.o.n \in Nat
    BY <1>1, SideIs DEF Starting, Usarts, Transfers
<1>4. t.o.due = t.u.out \o t.u.tx
    <2>1. s.o.due = s.u.out
        BY <1>3 DEF BrickInv
    <2> QED
        BY <1>2, <1>3, <2>1 DEF BrickInv
<1>5. Quiet(t.u)
    BY <1>1, <1>2 DEF Starting, Quiet
<1>6. t.u.got = <<>> => Len(t.u.got) = 0
    OBVIOUS
<1>7. s.o.kind # "send" => Len(t.u.got) + t.u.rcr = t.o.n
    BY <1>2, <1>3, <1>6
<1>8. Starting(t, "enable")
    BY <1>1, <1>2, <1>3, <1>5, <1>7 DEF Starting
<1>9. Listens(b, t) /\ "enable" \in Places /\ t.o.own /\ t.o.clean
    BY <1>1, <1>2 DEF Listens, Places, BrickInv
<1>10. BrickInv(b, t, "enable")
    BY <1>2, <1>4, <1>8, <1>9 DEF BrickInv
<1> QED
    BY <1>10 DEF t

LEMMA EnableStep ==
    ASSUME NEW b, NEW s, BrickInv(b, s, "enable")
    PROVE  BrickInv(b, Enabled(s), "idle")
<1> DEFINE t == Enabled(s)
<1>1. s \in Sides /\ Starting(s, "enable") /\ Listens(b, s)
    BY DEF BrickInv, Resting, Sending, Receiving
<1>2. /\ t \in Sides /\ t.d = s.d /\ t.o = s.o
      /\ t.u.flags = s.u.flags /\ t.u.tx = s.u.tx /\ t.u.out = s.u.out
      /\ t.u.rcr = s.u.rcr /\ t.u.got = s.u.got /\ t.u.txen
      /\ s.o.kind = "send" => t.u.ier = s.u.ier \cup {"ENDTX"} /\ t.u.rxen = s.u.rxen
      /\ s.o.kind # "send" => t.u.ier = s.u.ier \cup {"ENDRX"} /\ t.u.rxen
    BY <1>1, EnabledIs
<1> HIDE DEF t
<1>3. s.o.kind \in Kinds
    BY <1>1, SideIs DEF Starting, Transfers, Kept
<1>4. s.o.kind = "send" => Sending(t, "idle")
    BY <1>1, <1>2 DEF Starting, Sending, Quiet
<1>5. s.o.kind = "recv" => Receiving(t, "idle")
    BY <1>1, <1>2, Names DEF Starting, Receiving, Quiet
<1>6. Sending(t, "idle") \/ Receiving(t, "idle")
    BY <1>3, <1>4, <1>5 DEF Kinds
<1>7. Listens(b, t)
    BY <1>1, <1>2 DEF Listens
<1>8. "idle" \in Places /\ t.o.own /\ t.o.clean /\ t.o.due = t.u.out \o t.u.tx
    BY <1>2 DEF Places, BrickInv
<1>9. BrickInv(b, t, "idle")
    BY <1>2, <1>6, <1>7, <1>8 DEF BrickInv
<1> QED
    BY <1>9 DEF t

\* A whole call in the callback.
LEMMA BegunStep ==
    ASSUME NEW b, NEW s, NEW p, BrickInv(b, s, p), s.d.status = "IDLE",
           NEW kind \in Kinds, NEW n \in Lengths
    PROVE  BrickInv(b, Begun(s, kind, n), "idle")
BY CallStep, CallbackStep, LoadStep, EnableStep DEF Begun

LEMMA CompleteStep ==
    ASSUME NEW b, NEW s, NEW p, BrickInv(b, s, p),
           s.u.ier \cap Csr(s.u) # {}, Complete(s)
    PROVE  /\ p = "idle"
           /\ BrickInv(b, Fired(Completed(s), "SUCCESS"), p)
           /\ Fired(Completed(s), "SUCCESS").d.status = "IDLE"
<1> DEFINE c == Completed(s)
           t == Fired(c, "SUCCESS")
<1>1. s \in Sides /\ s.u \in Usarts /\ s.d \in Drivers /\ s.u.rcr \in Nat
    BY SideIs DEF BrickInv, Usarts
<1>2. Listens(b, s) /\ (Sending(s, p) \/ Receiving(s, p))
    BY Interrupted
<1>3. /\ c \in Sides /\ c.o = s.o /\ c.d.status = "IDLE" /\ c.d.callback = s.d.callback
      /\ c.u.ier = s.u.ier \ {"ENDRX", "ENDTX"} /\ ~c.u.txen /\ ~c.u.rxen
      /\ c.u.flags = s.u.flags /\ c.u.tx = s.u.tx /\ c.u.out = s.u.out
      /\ c.u.rcr = s.u.rcr /\ c.u.got = s.u.got
    BY <1>1, CompletedIs
<1>4. p = "idle" /\ s.u.flags = {}
    <2>1. CASE Sending(s, p)
        BY <2>1 DEF Sending
    <2>2. CASE Receiving(s, p)
        <3>1. s.u.rcr = 0
            BY <1>1, <2>2, CsrIs DEF Complete, Receiving
        <3> QED
            BY <2>2, <3>1 DEF Receiving
    <2> QED
        BY <1>2, <2>1, <2>2
<1>5. s.u.tx = <<>> /\ (s.o.kind # "send" => Len(s.u.got) = s.o.n)
    <2>1. CASE Sending(s, p)
        BY <1>1, <2>1, CsrIs DEF Complete, Sending
    <2>2. CASE Receiving(s, p)
        <3>1. s.u.rcr = 0
            BY <1>1, <2>2, CsrIs DEF Complete, Receiving
        <3>2. Len(s.u.got) \in Nat
            BY <1>1 DEF Usarts
        <3> QED
            BY <2>2, <3>1, <3>2 DEF Receiving
    <2> QED
        BY <1>2, <2>1, <2>2
<1>6. s.o.state = "begun" /\ s.d.callback = s.o.id
    BY <1>2 DEF Sending, Receiving
<1> HIDE DEF c
<1>7. /\ t \in Sides /\ t.d = c.d /\ t.u = c.u
      /\ t.o.kind = c.o.kind /\ t.o.n = c.o.n /\ t.o.clean = c.o.clean
      /\ t.o.due = c.o.due /\ t.o.state = "done"
      /\ t.o.own <=> /\ c.o.own
                     /\ /\ c.o.state = "begun" /\ c.d.callback = c.o.id
                        /\ "SUCCESS" = "error" => c.o.spoilt
    BY <1>3, FiredIs
<1>8. t.o.own
    BY <1>3, <1>6, <1>7 DEF BrickInv
<1> HIDE DEF t
<1>9. Quiet(t.u)
    BY <1>3, <1>4, <1>7 DEF Quiet
<1>10. Resting(t, p)
    BY <1>3, <1>4, <1>5, <1>7, <1>9 DEF Resting
<1>11. Listens(b, t)
    BY <1>2, <1>3, <1>7, Names DEF Listens
<1>12. t.o.clean /\ t.o.due = t.u.out \o t.u.tx /\ t.d.status = "IDLE" /\ p \in Places
    BY <1>3, <1>7 DEF BrickInv
<1>13. BrickInv(b, t, p)
    BY <1>7, <1>8, <1>10, <1>11, <1>12 DEF BrickInv
<1> QED
    BY <1>4, <1>12, <1>13 DEF t, c

LEMMA LoweredReceiving ==
    ASSUME NEW s, NEW t, NEW p, NEW F, Receiving(s, p),
           t.d = s.d, t.u.flags = s.u.flags \ F, t.u.ier = s.u.ier, t.u.tx = s.u.tx,
           t.u.out = s.u.out, t.u.txen = s.u.txen, t.u.rxen = s.u.rxen,
           t.u.rcr = s.u.rcr, t.u.got = s.u.got,
           t.o.id = s.o.id, t.o.kind = s.o.kind, t.o.n = s.o.n, t.o.state = s.o.state,
           t.o.spoilt = s.o.spoilt
    PROVE  Receiving(t, p)
<1>1. /\ t.u.flags \subseteq t.u.ier
      /\ t.u.flags \cap Errors # {} => s.u.flags \cap Errors # {}
      /\ t.u.flags # {} => s.u.flags # {}
    BY DEF Receiving
<1>2. /\ t.u.flags \cap Errors # {} => t.o.spoilt
      /\ t.u.flags # {} => t.u.rcr > 0
    BY <1>1 DEF Receiving
<1> QED
    BY <1>1, <1>2, Zenon DEF Receiving

LEMMA TimeoutStep ==
    ASSUME NEW b, NEW s, NEW p, BrickInv(b, s, p),
           s.u.ier \cap Csr(s.u) # {}, ~Complete(s), "TIMEOUT" \in Csr(s.u)
    PROVE  BrickInv(b, Fired([s EXCEPT !.u.flags = @ \ {"TIMEOUT"}], "TIMEOUT"), p)
<1> DEFINE c == [s EXCEPT !.u.flags = @ \ {"TIMEOUT"}]
           t == Fired(c, "TIMEOUT")
<1>1. s \in Sides /\ s.u \in Usarts
    BY SideIs DEF BrickInv
<1>2. Listens(b, s) /\ (Sending(s, p) \/ Receiving(s, p))
    BY Interrupted
<1>3. "TIMEOUT" \in s.u.flags
    BY <1>1, CsrIs
<1>4. Receiving(s, p)
    BY <1>2, <1>3 DEF Sending
<1> DEFINE F == {"TIMEOUT"}
<1>5. c = Lowered(s, F)
    BY DEF Lowered
<1> HIDE DEF c, F
<1>6. /\ c \in Sides /\ c.d = s.d /\ c.o = s.o /\ c.u.flags = s.u.flags \ F
      /\ c.u.ier = s.u.ier /\ c.u.tx = s.u.tx /\ c.u.out = s.u.out
      /\ c.u.txen = s.u.txen /\ c.u.rxen = s.u.rxen
      /\ c.u.rcr = s.u.rcr /\ c.u.got = s.u.got
    BY <1>1, <1>5, LoweredIs
<1>7. /\ t \in Sides /\ t.d = c.d /\ t.u = c.u
      /\ t.o.id = c.o.id /\ t.o.kind = c.o.kind /\ t.o.n = c.o.n /\ t.o.clean = c.o.clean
      /\ t.o.spoilt = c.o.spoilt /\ t.o.due = c.o.due /\ t.o.state = c.o.state
      /\ t.o.own <=> /\ c.o.own
                     /\ /\ c.o.state = "begun" /\ c.d.callback = c.o.id
                        /\ "TIMEOUT" = "error" => c.o.spoilt
    BY <1>6, FiredIs
<1>8. t.o.own
    BY <1>4, <1>6, <1>7 DEF BrickInv, Receiving
<1> HIDE DEF t
<1>9. Receiving(t, p)
    BY <1>4, <1>6, <1>7, LoweredReceiving
<1>10. Listens(b, t)
    BY <1>2, <1>6, <1>7 DEF Listens
<1>11. t.o.clean /\ t.o.due = t.u.out \o t.u.tx /\ p \in Places
    BY <1>6, <1>7 DEF BrickInv
<1>12. BrickInv(b, t, p)
    BY <1>7, <1>8, <1>9, <1>10, <1>11 DEF BrickInv
<1> QED
    BY <1>12 DEF t, c, F

LEMMA ErrorStep ==
    ASSUME NEW b, NEW s, NEW p, BrickInv(b, s, p),
           s.u.ier \cap Csr(s.u) # {}, ~Complete(s), Csr(s.u) \cap Errors # {}
    PROVE  BrickInv(b, Fired([s EXCEPT !.u = StatusReset(@)], "error"), p)
<1> DEFINE c == [s EXCEPT !.u = StatusReset(@)]
           t == Fired(c, "error")
<1>1. s \in Sides /\ s.u \in Usarts
    BY SideIs DEF BrickInv
<1>2. Listens(b, s) /\ (Sending(s, p) \/ Receiving(s, p))
    BY Interrupted
<1>3. s.u.flags \cap Errors # {}
    BY <1>1, CsrIs
<1>4. Receiving(s, p)
    BY <1>2, <1>3 DEF Sending
<1>5. c = Lowered(s, Errors)
    BY <1>1 DEF StatusReset, Sides, Lowered
<1> HIDE DEF c
<1>6. /\ c \in Sides /\ c.d = s.d /\ c.o = s.o /\ c.u.flags = s.u.flags \ Errors
      /\ c.u.ier = s.u.ier /\ c.u.tx = s.u.tx /\ c.u.out = s.u.out
      /\ c.u.txen = s.u.txen /\ c.u.rxen = s.u.rxen
      /\ c.u.rcr = s.u.rcr /\ c.u.got = s.u.got
    BY <1>1, <1>5, LoweredIs
<1>7. /\ t \in Sides /\ t.d = c.d /\ t.u = c.u
      /\ t.o.id = c.o.id /\ t.o.kind = c.o.kind /\ t.o.n = c.o.n /\ t.o.clean = c.o.clean
      /\ t.o.spoilt = c.o.spoilt /\ t.o.due = c.o.due /\ t.o.state = c.o.state
      /\ t.o.own <=> /\ c.o.own
                     /\ /\ c.o.state = "begun" /\ c.d.callback = c.o.id
                        /\ "error" = "error" => c.o.spoilt
    BY <1>6, FiredIs
<1>8. t.o.own
    BY <1>3, <1>4, <1>6, <1>7 DEF BrickInv, Receiving
<1> HIDE DEF t
<1>9. Receiving(t, p)
    BY <1>4, <1>6, <1>7, LoweredReceiving
<1>10. Listens(b, t)
    BY <1>2, <1>6, <1>7 DEF Listens
<1>11. t.o.clean /\ t.o.due = t.u.out \o t.u.tx /\ p \in Places
    BY <1>6, <1>7 DEF BrickInv
<1>12. BrickInv(b, t, p)
    BY <1>7, <1>8, <1>9, <1>10, <1>11 DEF BrickInv
<1> QED
    BY <1>12 DEF t, c

\* nx_rs485_abort, its test.
LEMMA AbortStep ==
    ASSUME NEW b, NEW s, BrickInv(b, s, "idle"), s.u.ier \cap Csr(s.u) = {},
           s.d.status = "RECEIVING", s.u.out = <<>>
    PROVE  BrickInv(b, s, "abort")
<1>1. Receiving(s, "idle") /\ Listens(b, s)
    BY DEF BrickInv, Starting, Sending
<1>2. s.u.rcr > 0
    BY <1>1, NotInterrupted
<1>3. Receiving(s, "abort")
    BY <1>1, <1>2 DEF Receiving
<1>4. "abort" \in Places
    BY DEF Places
<1> QED
    BY <1>1, <1>3, <1>4 DEF BrickInv

\* The line is reset and the driver's status set.
WithLine(s, w, status) == [s EXCEPT !.u = w, !.d.status = status]

LEMMA WithLineIs ==
    ASSUME NEW s \in Sides, NEW w \in Usarts, NEW status \in Statuses
    PROVE  LET t == WithLine(s, w, status) IN
           /\ t \in Sides /\ t.u = w /\ t.o = s.o
           /\ t.d.status = status /\ t.d.callback = s.d.callback
<1> DEFINE d == [s.d EXCEPT !.status = status]
<1>1. WithLine(s, w, status) = [s EXCEPT !.u = w, !.d = d]
    BY DEF WithLine
<1>2. d \in Drivers /\ d.status = status /\ d.callback = s.d.callback
    BY SideIs DEF Drivers
<1> HIDE DEF d
<1>3. s.o \in Transfers
    BY SideIs
<1> QED
    BY <1>1, <1>2, <1>3 DEF Sides

LEMMA StoppedIs ==
    ASSUME NEW s \in Sides
    PROVE  LET t == Stopped(s) IN
           /\ t \in Sides /\ t.o = s.o
           /\ t.d.status = "IDLE" /\ t.d.callback = s.d.callback
           /\ t.u.ier = s.u.ier /\ t.u.tx = s.u.tx /\ t.u.rcr = s.u.rcr /\ t.u.got = s.u.got
           /\ t.u.flags = {} /\ t.u.out = <<>> /\ ~t.u.txen /\ ~t.u.rxen
<1> DEFINE v == LineReset(s.u)
           w == StatusReset(v)
           none == {}
           idle == "IDLE"
<1>1. /\ v \in Usarts /\ v.ier = s.u.ier /\ v.tx = s.u.tx /\ v.rcr = s.u.rcr
      /\ v.got = s.u.got /\ v.flags = {} /\ v.out = <<>> /\ ~v.txen /\ ~v.rxen
    BY SideIs, LineResetIs
<1>2. Stopped(s) = WithLine(s, w, idle)
    BY Zenon DEF Stopped, WithLine
<1> HIDE DEF v
<1>3. w = [v EXCEPT !.flags = none]
    BY <1>1 DEF StatusReset
<1>4. none \in SUBSET Flags /\ idle \in Statuses
    BY DEF Statuses
<1> HIDE DEF w, none, idle
<1>5. /\ w \in Usarts /\ w.ier = v.ier /\ w.tx = v.tx /\ w.rcr = v.rcr /\ w.got = v.got
      /\ w.flags = none /\ w.out = v.out /\ w.txen = v.txen /\ w.rxen = v.rxen
    BY <1>1, <1>3, <1>4 DEF Usarts
<1>6. /\ Stopped(s) \in Sides /\ Stopped(s).u = w /\ Stopped(s).o = s.o
      /\ Stopped(s).d.status = idle /\ Stopped(s).d.callback = s.d.callback
    BY <1>2, <1>4, <1>5, WithLineIs
<1> QED
    BY <1>1, <1>5, <1>6 DEF none, idle

LEMMA DisabledIs ==
    ASSUME NEW s \in Sides
    PROVE  LET t == Disabled(s) IN
           /\ t \in Sides /\ t.o = s.o /\ t.d.status = "UNINITIALIZED"
           /\ t.u.ier = s.u.ier /\ t.u.tx = s.u.tx /\ t.u.rcr = s.u.rcr /\ t.u.got = s.u.got
           /\ t.u.flags = {} /\ t.u.out = <<>> /\ ~t.u.txen /\ ~t.u.rxen
<1> DEFINE v == LineReset(s.u)
           down == "UNINITIALIZED"
<1>1. /\ v \in Usarts /\ v.ier = s.u.ier /\ v.tx = s.u.tx /\ v.rcr = s.u.rcr
      /\ v.got = s.u.got /\ v.flags = {} /\ v.out = <<>> /\ ~v.txen /\ ~v.rxen
    BY SideIs, LineResetIs
<1>2. Disabled(s) = WithLine(s, v, down) /\ down \in Statuses
    BY Zenon DEF Disabled, Statuses, WithLine
<1> HIDE DEF v, down
<1>3. /\ Disabled(s) \in Sides /\ Disabled(s).u = v /\ Disabled(s).o = s.o
      /\ Disabled(s).d.status = down
    BY <1>1, <1>2, WithLineIs
<1> QED
    BY <1>1, <1>3 DEF down

LEMMA InitializedIs ==
    ASSUME NEW b, NEW s \in Sides
    PROVE  LET t == Initialized(b, s) IN
           /\ t \in Sides /\ t.o = s.o /\ t.d.status = "IDLE"
           /\ t.u.tx = s.u.tx /\ t.u.rcr = s.u.rcr /\ t.u.got = s.u.got
           /\ t.u.ier = Interrupts(b)
           /\ t.u.flags = {} /\ t.u.out = <<>> /\ ~t.u.txen /\ ~t.u.rxen
<1> DEFINE v == LineReset(s.u)
           ier == Interrupts(b)
           w == [v EXCEPT !.ier = ier]
           idle == "IDLE"
<1>1. /\ v \in Usarts /\ v.tx = s.u.tx /\ v.rcr = s.u.rcr
      /\ v.got = s.u.got /\ v.flags = {} /\ v.out = <<>> /\ ~v.txen /\ ~v.rxen
    BY SideIs, LineResetIs
<1>2. ier \in SUBSET Sources /\ idle \in Statuses
    BY Names DEF Interrupts, Statuses
<1>3. Initialized(b, s) = WithLine(s, w, idle)
    BY Zenon DEF Initialized, WithLine
<1> HIDE DEF v, ier, idle
<1>4. /\ w \in Usarts /\ w.ier = ier /\ w.tx = v.tx /\ w.rcr = v.rcr /\ w.got = v.got
      /\ w.flags = v.flags /\ w.out = v.out /\ w.txen = v.txen /\ w.rxen = v.rxen
    BY <1>1, <1>2 DEF Usarts
<1> HIDE DEF w
<1>5. /\ Initialized(b, s) \in Sides /\ Initialized(b, s).u = w
      /\ Initialized(b, s).o = s.o /\ Initialized(b, s).d.status = idle
    BY <1>2, <1>3, <1>4, WithLineIs
<1> QED
    BY <1>1, <1>4, <1>5 DEF ier, idle

LEMMA AbortResetStep ==
    ASSUME NEW b, NEW s, BrickInv(b, s, "abort")
    PROVE  BrickInv(b, Fired(Stopped(s), "ABORT"), "idle")
<1> DEFINE e == Stopped(s)
           t == Fired(e, "ABORT")
<1>1. s \in Sides
    BY DEF BrickInv
<1>2. Receiving(s, "abort") /\ Listens(b, s)
    BY DEF BrickInv, Resting, Starting, Sending
<1>3. /\ e \in Sides /\ e.o = s.o
      /\ e.d.status = "IDLE" /\ e.d.callback = s.d.callback
      /\ e.u.ier = s.u.ier /\ e.u.tx = s.u.tx /\ e.u.rcr = s.u.rcr /\ e.u.got = s.u.got
      /\ e.u.flags = {} /\ e.u.out = <<>> /\ ~e.u.txen /\ ~e.u.rxen
    BY <1>1, StoppedIs
<1> HIDE DEF e
<1>4. /\ t \in Sides /\ t.d = e.d /\ t.u = e.u
      /\ t.o.kind = e.o.kind /\ t.o.n = e.o.n /\ t.o.clean = e.o.clean
      /\ e.o.kind # "send" => t.o.due = e.o.due
      /\ t.o.state = "aborted"
      /\ t.o.own <=> /\ e.o.own
                     /\ /\ e.o.state = "begun" /\ e.d.callback = e.o.id
                        /\ "ABORT" = "error" => e.o.spoilt
    BY <1>3, FiredIs
<1>5. t.o.own
    BY <1>2, <1>3, <1>4 DEF BrickInv, Receiving
<1> HIDE DEF t
<1>6. t.o.due = s.u.out \o s.u.tx /\ s.u.out = <<>> /\ s.u.tx = <<>>
    BY <1>2, <1>3, <1>4 DEF BrickInv, Receiving
<1>7. Quiet(t.u)
    BY <1>2, <1>3, <1>4 DEF Quiet, Receiving
<1>8. Resting(t, "idle")
    BY <1>3, <1>4, <1>6, <1>7 DEF Resting
<1>9. Listens(b, t)
    BY <1>2, <1>3, <1>4 DEF Listens
<1>10. t.o.due = t.u.out \o t.u.tx /\ "idle" \in Places
    BY <1>3, <1>4, <1>6 DEF Places
<1>11. t.d.status = "IDLE" /\ t.o.clean
    BY <1>3, <1>4 DEF BrickInv
<1>12. BrickInv(b, t, "idle")
    BY <1>4, <1>5, <1>8, <1>9, <1>10, <1>11 DEF BrickInv
<1> QED
    BY <1>12 DEF t, e

LEMMA ShutdownStep ==
    ASSUME NEW b, NEW s, BrickInv(b, s, "idle"), s.d.status = "IDLE", s.u.out = <<>>
    PROVE  BrickInv(b, Disabled(s), "idle")
<1> DEFINE t == Disabled(s)
<1>1. s \in Sides
    BY DEF BrickInv
<1>2. Resting(s, "idle")
    BY DEF BrickInv, Starting, Sending, Receiving
<1>3. /\ t \in Sides /\ t.o = s.o /\ t.d.status = "UNINITIALIZED"
      /\ t.u.ier = s.u.ier /\ t.u.tx = s.u.tx /\ t.u.rcr = s.u.rcr /\ t.u.got = s.u.got
      /\ t.u.flags = {} /\ t.u.out = <<>> /\ ~t.u.txen /\ ~t.u.rxen
    BY <1>1, DisabledIs
<1> HIDE DEF t
<1>4. Quiet(t.u)
    BY <1>2, <1>3 DEF Quiet, Resting
<1>5. Resting(t, "idle")
    BY <1>2, <1>3, <1>4 DEF Resting
<1>6. t.o.due = t.u.out \o t.u.tx /\ t.o.own /\ t.o.clean
    BY <1>3 DEF BrickInv
<1>7. BrickInv(b, t, "idle")
    BY <1>3, <1>5, <1>6 DEF BrickInv, Places
<1> QED
    BY <1>7 DEF t

LEMMA InitializeStep ==
    ASSUME NEW b, NEW s, BrickInv(b, s, "idle"), s.d.status = "UNINITIALIZED"
    PROVE  BrickInv(b, Initialized(b, s), "idle")
<1> DEFINE t == Initialized(b, s)
<1>1. s \in Sides
    BY DEF BrickInv
<1>2. Resting(s, "idle") /\ s.u.out = <<>>
    BY DEF BrickInv, Starting, Sending, Receiving
<1>3. /\ t \in Sides /\ t.o = s.o /\ t.d.status = "IDLE"
      /\ t.u.tx = s.u.tx /\ t.u.rcr = s.u.rcr /\ t.u.got = s.u.got
      /\ t.u.ier = Interrupts(b)
      /\ t.u.flags = {} /\ t.u.out = <<>> /\ ~t.u.txen /\ ~t.u.rxen
    BY <1>1, InitializedIs
<1> HIDE DEF t
<1>4. /\ "ENDTX" \notin Interrupts(b) /\ "ENDRX" \notin Interrupts(b)
      /\ Errors \subseteq Interrupts(b)
      /\ b \in TimedOut => "TIMEOUT" \in Interrupts(b)
    BY Names DEF Interrupts
<1>5. Quiet(t.u)
    BY <1>3, <1>4 DEF Quiet
<1>6. Resting(t, "idle")
    BY <1>2, <1>3, <1>5 DEF Resting
<1>7. t.o.due = t.u.out \o t.u.tx /\ t.o.own /\ t.o.clean
    BY <1>2, <1>3 DEF BrickInv
<1>8. Listens(b, t)
    BY <1>3, <1>4 DEF Listens
<1>9. BrickInv(b, t, "idle")
    BY <1>3, <1>6, <1>7, <1>8 DEF BrickInv, Places
<1> QED
    BY <1>9 DEF t

---------------------------------------------------------------------------
(* The wire's steps *)

LEMMA HeadMoves ==
    ASSUME NEW S, NEW f \in Seq(S), NEW g \in Seq(S), g # <<>>
    PROVE  /\ Append(f, Head(g)) \in Seq(S) /\ Tail(g) \in Seq(S)
           /\ Append(f, Head(g)) \o Tail(g) = f \o g
<1> DEFINE l == Append(f, Head(g)) \o Tail(g)
           r == f \o g
<1>1. Head(g) \in S /\ Tail(g) \in Seq(S) /\ Len(Tail(g)) = Len(g) - 1 /\ Len(g) > 0
    OBVIOUS
<1>2. Append(f, Head(g)) \in Seq(S) /\ Len(Append(f, Head(g))) = Len(f) + 1
    BY <1>1
<1>3. l \in Seq(S) /\ r \in Seq(S) /\ Len(l) = Len(f) + Len(g) /\ Len(r) = Len(f) + Len(g)
    BY <1>1, <1>2
<1>4. \A i \in 1..Len(l) : l[i] = r[i]
    <2> TAKE i \in 1..Len(l)
    <2>1. CASE i <= Len(f)
        BY <1>1, <1>2, <1>3, <2>1
    <2>2. CASE i = Len(f) + 1
        BY <1>1, <1>2, <1>3, <2>2
    <2>3. CASE i > Len(f) + 1
        <3>1. i - (Len(f) + 1) \in 1..Len(Tail(g))
            BY <1>1, <1>3, <2>3
        <3>2. l[i] = Tail(g)[i - (Len(f) + 1)]
            BY <1>1, <1>2, <1>3, <2>3
        <3>3. Tail(g)[i - (Len(f) + 1)] = g[i - Len(f)]
            BY <1>1, <3>1
        <3> QED
            BY <1>1, <1>3, <2>3, <3>2, <3>3
    <2> QED
        BY <1>3, <2>1, <2>2, <2>3
<1> QED
    BY <1>1, <1>2, <1>3, <1>4, SeqEqual

LEMMA HeadLeaves ==
    ASSUME NEW S, NEW f \in Seq(S), f # <<>>, NEW g \in Seq(S)
    PROVE  /\ f \o g # <<>> /\ Head(f \o g) = Head(f)
           /\ Tail(f) \in Seq(S) /\ Tail(f \o g) = Tail(f) \o g
<1> DEFINE l == Tail(f \o g)
           r == Tail(f) \o g
<1>1. Tail(f) \in Seq(S) /\ Len(Tail(f)) = Len(f) - 1 /\ Len(f) > 0
    OBVIOUS
<1>2. f \o g \in Seq(S) /\ Len(f \o g) = Len(f) + Len(g) /\ f \o g # <<>>
    BY <1>1
<1>3. Head(f \o g) = Head(f)
    BY <1>1, <1>2
<1>4. /\ l \in Seq(S) /\ Len(l) = Len(f) + Len(g) - 1
      /\ r \in Seq(S) /\ Len(r) = Len(f) + Len(g) - 1
    BY <1>1, <1>2
<1>5. \A i \in 1..Len(l) : l[i] = r[i]
    <2> TAKE i \in 1..Len(l)
    <2>1. l[i] = (f \o g)[i + 1]
        BY <1>2, <1>4
    <2>2. CASE i <= Len(f) - 1
        BY <1>1, <1>4, <2>1, <2>2
    <2>3. CASE i > Len(f) - 1
        BY <1>1, <1>4, <2>1, <2>3
    <2> QED
        BY <1>1, <1>4, <2>2, <2>3
<1> QED
    BY <1>1, <1>2, <1>3, <1>4, <1>5, SeqEqual

\* The same brick with other registers, or another transfer.
LEMMA WithIs ==
    ASSUME NEW s \in Sides, NEW v \in Usarts, NEW o \in Transfers
    PROVE  LET t == [d |-> s.d, u |-> v, o |-> o] IN
           t \in Sides /\ t.d = s.d /\ t.u = v /\ t.o = o
BY SideIs DEF Sides

LEMMA FeedStep ==
    ASSUME NEW b, NEW s, NEW p, BrickInv(b, s, p), s.u.txen, s.u.tx # <<>>
    PROVE  /\ Fed(s.u) \in Usarts
           /\ BrickInv(b, [d |-> s.d, u |-> Fed(s.u), o |-> s.o], p)
<1> DEFINE u == s.u
           out == Append(u.out, Head(u.tx))
           tx == Tail(u.tx)
           v == Fed(u)
           t == [d |-> s.d, u |-> v, o |-> s.o]
<1>1. s \in Sides /\ u \in Usarts /\ s.o \in Transfers
    BY SideIs DEF BrickInv
<1>2. Sending(s, p) /\ Listens(b, s)
    BY DEF BrickInv, Resting, Starting, Receiving, Quiet
<1>3. u.out \in Seq(Chars) /\ u.tx \in Seq(Chars) /\ u.tx # <<>>
    BY <1>1 DEF Usarts
<1> HIDE DEF u
<1>4. out \in Seq(Chars) /\ tx \in Seq(Chars) /\ out \o tx = u.out \o u.tx
    BY <1>3, HeadMoves
<1>5. v = [u EXCEPT !.out = out, !.tx = tx]
    BY DEF Fed
<1> HIDE DEF out, tx, v
<1>6. /\ v \in Usarts /\ v.out = out /\ v.tx = tx
      /\ v.ier = u.ier /\ v.flags = u.flags /\ v.txen = u.txen /\ v.rxen = u.rxen
      /\ v.rcr = u.rcr /\ v.got = u.got
    BY <1>1, <1>4, <1>5 DEF Usarts
<1>7. t \in Sides /\ t.d = s.d /\ t.u = v /\ t.o = s.o
    BY <1>1, <1>6, WithIs
<1> HIDE DEF t
<1>8. Sending(t, p)
    BY <1>2, <1>6, <1>7 DEF Sending, u
<1>9. Listens(b, t)
    BY <1>2, <1>6, <1>7 DEF Listens, u
<1>10. t.o.due = t.u.out \o t.u.tx /\ t.o.own /\ t.o.clean /\ p \in Places
    BY <1>4, <1>6, <1>7 DEF BrickInv, u
<1>11. BrickInv(b, t, p)
    BY <1>7, <1>8, <1>9, <1>10 DEF BrickInv
<1> QED
    BY <1>6, <1>11 DEF t, v, u

LEMMA SilenceStep ==
    ASSUME NEW b, NEW s, NEW p, BrickInv(b, s, p), b \in TimedOut,
           s.u.rxen, s.u.ier \cap Csr(s.u) = {}
    PROVE  /\ Elapsed(s.u) \in Usarts
           /\ BrickInv(b, [d |-> s.d, u |-> Elapsed(s.u), o |-> s.o], p)
<1> DEFINE u == s.u
           flags == u.flags \cup {"TIMEOUT"}
           v == Elapsed(u)
           t == [d |-> s.d, u |-> v, o |-> s.o]
<1>1. s \in Sides /\ u \in Usarts /\ s.o \in Transfers
    BY SideIs DEF BrickInv
<1>2. Receiving(s, p) /\ Listens(b, s)
    BY DEF BrickInv, Resting, Starting, Sending, Quiet
<1>3. u.rcr > 0
    BY <1>2, NotInterrupted
<1> HIDE DEF u
<1>4. flags \in SUBSET Flags /\ flags \cap Errors = u.flags \cap Errors
    BY <1>1, Names DEF Usarts
<1>5. v = [u EXCEPT !.armed = FALSE, !.flags = flags]
    BY DEF Elapsed
<1> HIDE DEF flags, v
<1>6. /\ v \in Usarts /\ v.flags = flags /\ v.out = u.out /\ v.tx = u.tx
      /\ v.ier = u.ier /\ v.txen = u.txen /\ v.rxen = u.rxen
      /\ v.rcr = u.rcr /\ v.got = u.got
    BY <1>1, <1>4, <1>5 DEF Usarts
<1>7. t \in Sides /\ t.d = s.d /\ t.u = v /\ t.o = s.o
    BY <1>1, <1>6, WithIs
<1> HIDE DEF t
<1>8. /\ t.u.flags \subseteq t.u.ier
      /\ t.u.flags \cap Errors # {} => t.o.spoilt
      /\ t.u.rcr > 0
    BY <1>2, <1>3, <1>4, <1>6, <1>7 DEF Receiving, Listens, flags, u
<1>9. Receiving(t, p)
    BY <1>2, <1>6, <1>7, <1>8 DEF Receiving, u
<1>10. Listens(b, t)
    BY <1>2, <1>6, <1>7 DEF Listens, u
<1>11. t.o.due = t.u.out \o t.u.tx /\ t.o.own /\ t.o.clean /\ p \in Places
    BY <1>6, <1>7 DEF BrickInv, u
<1>12. BrickInv(b, t, p)
    BY <1>7, <1>9, <1>10, <1>11 DEF BrickInv
<1> QED
    BY <1>6, <1>12 DEF t, v, u

\* A character leaves a brick's transmitter.
Sent(u) == [u EXCEPT !.out = Tail(@)]
Paid(o) == [o EXCEPT !.due = Tail(@)]

LEMMA SentStep ==
    ASSUME NEW b, NEW s, NEW p, BrickInv(b, s, p), s.u.out # <<>>
    PROVE  /\ s.o.due # <<>> /\ Head(s.u.out) = Head(s.o.due)
           /\ Sent(s.u) \in Usarts /\ Paid(s.o) \in Transfers
           /\ BrickInv(b, [d |-> s.d, u |-> Sent(s.u), o |-> Paid(s.o)], p)
<1> DEFINE out == Tail(s.u.out)
           due == Tail(s.o.due)
           v == Sent(s.u)
           o == Paid(s.o)
           t == [d |-> s.d, u |-> v, o |-> o]
<1>1. s \in Sides /\ s.u \in Usarts /\ s.o \in Transfers
    BY SideIs DEF BrickInv
<1>2. s.u.out \in Seq(Chars) /\ s.u.tx \in Seq(Chars) /\ s.o.due = s.u.out \o s.u.tx
    BY <1>1 DEF Usarts, BrickInv
<1>3. /\ s.o.due # <<>> /\ Head(s.o.due) = Head(s.u.out)
      /\ out \in Seq(Chars) /\ due = out \o s.u.tx
    <2>1. \A f, g \in Seq(Chars) : f # <<>> =>
              /\ f \o g # <<>> /\ Head(f \o g) = Head(f)
              /\ Tail(f) \in Seq(Chars) /\ Tail(f \o g) = Tail(f) \o g
        BY HeadLeaves
    <2> QED
        BY <1>2, <2>1, Zenon
<1>4. due \in Seq(Chars)
    BY <1>2, <1>3
<1>0. v = [s.u EXCEPT !.out = out] /\ o = [s.o EXCEPT !.due = due]
    BY DEF Sent, Paid
<1> HIDE DEF out, due, v, o
<1>5. /\ v \in Usarts /\ v.out = out /\ v.tx = s.u.tx
      /\ v.ier = s.u.ier /\ v.flags = s.u.flags /\ v.txen = s.u.txen /\ v.rxen = s.u.rxen
      /\ v.rcr = s.u.rcr /\ v.got = s.u.got
    BY <1>0, <1>1, <1>3 DEF Usarts
<1>6. /\ o \in Transfers /\ o.due = due /\ o.id = s.o.id /\ o.kind = s.o.kind
      /\ o.n = s.o.n /\ o.state = s.o.state /\ o.spoilt = s.o.spoilt
      /\ o.own = s.o.own /\ o.clean = s.o.clean
    BY <1>0, <1>1, <1>4 DEF Transfers
<1>7. t \in Sides /\ t.d = s.d /\ t.u = v /\ t.o = o
    BY <1>1, <1>5, <1>6, WithIs
<1> HIDE DEF t
<1>8. /\ Resting(s, p) => Resting(t, p)
      /\ Starting(s, p) => Starting(t, p)
      /\ Sending(s, p) => Sending(t, p)
      /\ Listens(b, s) => Listens(b, t)
    BY <1>5, <1>6, <1>7 DEF Resting, Starting, Sending, Listens, Quiet
<1>9. Receiving(s, p) => Receiving(t, p)
    BY <1>5, <1>6, <1>7 DEF Receiving
<1>10. t.o.due = t.u.out \o t.u.tx /\ t.o.own /\ t.o.clean /\ p \in Places
    BY <1>3, <1>5, <1>6, <1>7 DEF BrickInv
<1>11. BrickInv(b, t, p)
    BY <1>7, <1>8, <1>9, <1>10 DEF BrickInv
<1> QED
    BY <1>3, <1>5, <1>6, <1>11 DEF t, v, o

\* What a receiver does with a character.
LEMMA ReceivedIs ==
    ASSUME NEW u \in Usarts, u.rcr > 0, NEW char \in Chars, NEW error,
           error = {"none"} \/ \E e \in Errors : error = {e}
    PROVE  LET v == Received(u, char, error) IN
           /\ v \in Usarts
           /\ v.ier = u.ier /\ v.tx = u.tx /\ v.out = u.out
           /\ v.txen = u.txen /\ v.rxen = u.rxen
           /\ v.flags \subseteq u.flags \cup Errors
           /\ error = {"none"} => v.flags = u.flags
           /\ Len(v.got) + v.rcr = Len(u.got) + u.rcr
           /\ v.rcr = u.rcr \/ v.rcr = u.rcr - 1
<1> DEFINE flags == u.flags \cup (error \ {"none"})
           w == [u EXCEPT !.armed = TRUE, !.flags = flags]
           got == Append(u.got, char)
           rcr == u.rcr - 1
           x == [w EXCEPT !.got = got, !.rcr = rcr]
<1>1. /\ flags \in SUBSET Flags /\ flags \subseteq u.flags \cup Errors
      /\ error = {"none"} => flags = u.flags
    BY Names DEF Usarts
<1>2. u.got \in Seq(Chars) /\ u.rcr \in Nat /\ Len(u.got) \in Nat
    BY DEF Usarts
<1>3. got \in Seq(Chars) /\ rcr \in Nat /\ Len(got) + rcr = Len(u.got) + u.rcr
    BY <1>2
<1> HIDE DEF flags, got
<1>4. /\ w \in Usarts /\ w.flags = flags /\ w.ier = u.ier /\ w.tx = u.tx /\ w.out = u.out
      /\ w.txen = u.txen /\ w.rxen = u.rxen /\ w.got = u.got /\ w.rcr = u.rcr
    BY <1>1 DEF Usarts
<1>5. Received(u, char, error) = w \/ Received(u, char, error) = x
    BY <1>4 DEF Received, flags, got
<1> HIDE DEF w, rcr
<1>6. /\ x \in Usarts /\ x.flags = w.flags /\ x.ier = w.ier /\ x.tx = w.tx /\ x.out = w.out
      /\ x.txen = w.txen /\ x.rxen = w.rxen /\ x.got = got /\ x.rcr = rcr
    BY <1>3, <1>4 DEF Usarts
<1> HIDE DEF x
<1>7. rcr = u.rcr - 1
    BY DEF rcr
<1> QED
    BY <1>1, <1>3, <1>4, <1>5, <1>6, <1>7

\* The last character of a reception is not spoilt.
LEMMA ReceivedStep ==
    ASSUME NEW b, NEW s, NEW p, BrickInv(b, s, p), s.u.rxen, s.u.ier \cap Csr(s.u) = {},
           p # "abort", NEW char \in Chars, NEW error,
           error = {"none"} \/ ((\E e \in Errors : error = {e}) /\ s.u.rcr > 1),
           NEW spoilt \in BOOLEAN, error # {"none"} => spoilt, s.o.spoilt => spoilt
    PROVE  /\ Received(s.u, char, error) \in Usarts
           /\ [s.o EXCEPT !.spoilt = spoilt] \in Transfers
           /\ BrickInv(b, [d |-> s.d, u |-> Received(s.u, char, error),
                           o |-> [s.o EXCEPT !.spoilt = spoilt]], p)
<1> DEFINE v == Received(s.u, char, error)
           o == [s.o EXCEPT !.spoilt = spoilt]
           t == [d |-> s.d, u |-> v, o |-> o]
<1>1. s \in Sides /\ s.u \in Usarts /\ s.o \in Transfers /\ s.u.rcr \in Nat
    BY SideIs DEF BrickInv, Usarts
<1>2. Receiving(s, p) /\ Listens(b, s)
    BY DEF BrickInv, Resting, Starting, Sending, Quiet
<1>3. s.u.rcr > 0 /\ s.u.flags = {}
    BY <1>2, NotInterrupted
<1>0. error = {"none"} \/ \E e \in Errors : error = {e}
    OBVIOUS
<1>4. /\ v \in Usarts
      /\ v.ier = s.u.ier /\ v.tx = s.u.tx /\ v.out = s.u.out
      /\ v.txen = s.u.txen /\ v.rxen = s.u.rxen
      /\ v.flags \subseteq s.u.flags \cup Errors
      /\ error = {"none"} => v.flags = s.u.flags
      /\ Len(v.got) + v.rcr = Len(s.u.got) + s.u.rcr
      /\ v.rcr = s.u.rcr \/ v.rcr = s.u.rcr - 1
    BY <1>0, <1>1, <1>3, ReceivedIs
<1>5. /\ o \in Transfers /\ o.spoilt = spoilt /\ o.due = s.o.due /\ o.id = s.o.id
      /\ o.kind = s.o.kind /\ o.n = s.o.n /\ o.state = s.o.state
      /\ o.own = s.o.own /\ o.clean = s.o.clean
    BY <1>1 DEF Transfers
<1> HIDE DEF v, o
<1>6. t \in Sides /\ t.d = s.d /\ t.u = v /\ t.o = o
    BY <1>1, <1>4, <1>5, WithIs
<1> HIDE DEF t
<1>7. /\ t.u.flags \subseteq t.u.ier
      /\ t.u.flags # {} => t.o.spoilt
    BY <1>2, <1>3, <1>4, <1>5, <1>6 DEF Listens
<1>8. t.u.flags # {} => t.u.rcr > 0
    BY <1>1, <1>3, <1>4, <1>6
<1>9. p = "idle"
    BY <1>2 DEF Receiving
<1>10. Receiving(t, p)
    BY <1>2, <1>4, <1>5, <1>6, <1>7, <1>8, <1>9 DEF Receiving
<1>11. Listens(b, t)
    BY <1>2, <1>4, <1>6 DEF Listens
<1>12. t.o.due = t.u.out \o t.u.tx /\ t.o.own /\ t.o.clean /\ p \in Places
    BY <1>4, <1>5, <1>6 DEF BrickInv
<1>13. BrickInv(b, t, p)
    BY <1>6, <1>10, <1>11, <1>12 DEF BrickInv
<1> QED
    BY <1>4, <1>5, <1>13 DEF t, v, o

---------------------------------------------------------------------------
(* The invariant is inductive *)

AllRules == {"settled", "receptions", "undisturbed", "drained"} \subseteq Rules

LEMMA BrickIs ==
    ASSUME Shapes, NEW b \in Bricks
    PROVE  /\ Brick(b) \in Sides /\ prog[b] \in Places
           /\ Brick(b).d = rs485_state[b] /\ Brick(b).u = usart[b] /\ Brick(b).o = op[b]
BY DEF Shapes, Brick, Sides

\* A step of one brick.
LEMMA OneBrick ==
    ASSUME Inv, NEW b \in Bricks, NEW t, NEW q, BrickInv(b, t, q), Becomes(b, t),
           prog' = [prog EXCEPT ![b] = q]
    PROVE  Inv'
<1>1. t.d \in Drivers /\ t.u \in Usarts /\ t.o \in Transfers /\ q \in Places /\ t \in Sides
    BY SideIs DEF BrickInv
<1>2. Shapes'
    BY <1>1 DEF Inv, Shapes, Becomes
<1>3. /\ rs485_state'[b] = t.d /\ usart'[b] = t.u /\ op'[b] = t.o /\ prog'[b] = q
      /\ \A c \in Bricks \ {b} : /\ rs485_state'[c] = rs485_state[c] /\ usart'[c] = usart[c]
                                 /\ op'[c] = op[c] /\ prog'[c] = prog[c]
    BY <1>1 DEF Inv, Shapes, Becomes
<1>4. t = [d |-> t.d, u |-> t.u, o |-> t.o]
    BY <1>1 DEF Sides
<1>5. Brick(b)' = t
    BY <1>3, <1>4 DEF Brick
<1>6. \A c \in Bricks \ {b} : Brick(c)' = Brick(c)
    BY <1>3 DEF Brick
<1>7. \A c \in Bricks : BrickInv(c, Brick(c)', prog'[c])
    BY <1>3, <1>5, <1>6 DEF Inv
<1> QED
    BY <1>2, <1>7 DEF Inv

LEMMA OneBrickOnly ==
    ASSUME Inv, NEW b \in Bricks, NEW t, BrickInv(b, t, prog[b]), Becomes(b, t), UNCHANGED prog
    PROVE  Inv'
<1>1. prog' = [prog EXCEPT ![b] = prog[b]]
    BY DEF Inv, Shapes
<1> QED
    BY <1>1, OneBrick

LEMMA IsrKeeps ==
    ASSUME Inv, NEW b \in Bricks, Isr(b)
    PROVE  Inv'
<1> DEFINE s == Brick(b)
           p == prog[b]
<1>1. /\ s.u = usart[b] /\ BrickInv(b, s, p) /\ s.u.ier \cap Csr(s.u) # {} /\ UNCHANGED prog
    BY BrickIs DEF Inv, Isr, Interrupting
<1>2. CASE Complete(s)
    <2> DEFINE c == Fired(Completed(s), "SUCCESS")
    <2>1. p = "idle" /\ BrickInv(b, c, p) /\ c.d.status = "IDLE"
        BY <1>1, <1>2, CompleteStep
    <2>2. PICK t \in Told(c) : Becomes(b, t)
        BY <1>2 DEF Isr
    <2> HIDE DEF c, s
    <2>3. t = c \/ \E kind \in Kinds, n \in Lengths : t = Begun(c, kind, n)
        BY <2>2 DEF Told
    <2>4. BrickInv(b, t, p)
        BY <2>1, <2>3, BegunStep
    <2> QED
        BY <1>1, <2>2, <2>4, OneBrickOnly DEF s, p
<1>3. CASE ~Complete(s) /\ "TIMEOUT" \in Csr(s.u)
    <2> DEFINE t == Fired([s EXCEPT !.u.flags = @ \ {"TIMEOUT"}], "TIMEOUT")
    <2>1. Becomes(b, t)
        BY <1>3 DEF Isr
    <2>2. BrickInv(b, t, p)
        BY <1>1, <1>3, TimeoutStep
    <2> QED
        BY <1>1, <2>1, <2>2, OneBrickOnly
<1>4. CASE ~Complete(s) /\ "TIMEOUT" \notin Csr(s.u) /\ Csr(s.u) \cap Errors # {}
    <2> DEFINE t == Fired([s EXCEPT !.u = StatusReset(@)], "error")
    <2>1. Becomes(b, t)
        BY <1>4 DEF Isr
    <2>2. BrickInv(b, t, p)
        BY <1>1, <1>4, ErrorStep
    <2> QED
        BY <1>1, <2>1, <2>2, OneBrickOnly
<1>5. CASE ~Complete(s) /\ "TIMEOUT" \notin Csr(s.u) /\ Csr(s.u) \cap Errors = {}
    <2>1. Becomes(b, s)
        BY <1>5 DEF Isr
    <2> QED
        BY <1>1, <2>1, OneBrickOnly
<1> QED
    BY <1>2, <1>3, <1>4, <1>5

LEMMA AtIs ==
    ASSUME Inv, NEW b \in Bricks, NEW place, At(b, place)
    PROVE  /\ BrickInv(b, Brick(b), place) /\ prog[b] = place
           /\ Brick(b).u.ier \cap Csr(Brick(b).u) = {}
           /\ Brick(b).d = rs485_state[b] /\ Brick(b).u = usart[b] /\ Brick(b).o = op[b]
BY BrickIs DEF Inv, At, Interrupting

LEMMA CallsKeep ==
    ASSUME Inv, AllRules, NEW b \in Bricks,
           InCall(b) \/ Call(b) \/ Abort(b) \/ Shutdown(b) \/ Initialize(b)
    PROVE  Inv'
<1>1. CASE Call(b)
    <2>1. At(b, "idle") /\ Brick(b).d.status = "IDLE"
        BY <1>1, BrickIs DEF Call, Inv
    <2>2. PICK kind \in Kinds, n \in Lengths : Becomes(b, Taken(Brick(b), kind, n))
        BY <1>1 DEF Call
    <2>3. BrickInv(b, Taken(Brick(b), kind, n), "callback")
        BY <2>1, AtIs, CallStep
    <2> QED
        BY <1>1, <2>2, <2>3, OneBrick DEF Call, Go
<1>2. CASE StoreCallback(b)
    <2>1. BrickInv(b, WithCallback(Brick(b)), "load")
        BY <1>2, AtIs, CallbackStep DEF StoreCallback
    <2> QED
        BY <1>2, <2>1, OneBrick DEF StoreCallback, Go
<1>3. CASE Load(b)
    <2>1. BrickInv(b, Loaded(Brick(b)), "enable")
        BY <1>3, AtIs, LoadStep DEF Load
    <2> QED
        BY <1>3, <2>1, OneBrick DEF Load, Go
<1>4. CASE Enable(b)
    <2>1. BrickInv(b, Enabled(Brick(b)), "idle")
        BY <1>4, AtIs, EnableStep DEF Enable
    <2> QED
        BY <1>4, <2>1, OneBrick DEF Enable, Go
<1>5. CASE AbortReset(b)
    <2>1. BrickInv(b, Fired(Stopped(Brick(b)), "ABORT"), "idle")
        BY <1>5, AtIs, AbortResetStep DEF AbortReset
    <2> QED
        BY <1>5, <2>1, OneBrick DEF AbortReset, Go
<1>6. CASE Abort(b)
    <2>1. /\ BrickInv(b, Brick(b), "idle") /\ Brick(b).u.ier \cap Csr(Brick(b).u) = {}
          /\ Brick(b).d.status = "RECEIVING" /\ Brick(b).u.out = <<>>
        BY <1>6, AtIs DEF Abort, AbortMay, AllRules
    <2>2. BrickInv(b, Brick(b), "abort")
        BY <2>1, AbortStep
    <2>3. Becomes(b, Brick(b))
        BY <1>6, BrickIs DEF Abort, Becomes, Inv, Shapes
    <2> QED
        BY <1>6, <2>2, <2>3, OneBrick DEF Abort, Go
<1>7. CASE Shutdown(b)
    <2>1. /\ BrickInv(b, Brick(b), "idle") /\ prog[b] = "idle"
          /\ Brick(b).d.status = "IDLE" /\ Brick(b).u.out = <<>>
        BY <1>7, AtIs DEF Shutdown, AllRules
    <2>2. BrickInv(b, Disabled(Brick(b)), "idle")
        BY <2>1, ShutdownStep
    <2> QED
        BY <1>7, <2>1, <2>2, OneBrickOnly DEF Shutdown
<1>8. CASE Initialize(b)
    <2>1. /\ BrickInv(b, Brick(b), "idle") /\ prog[b] = "idle"
          /\ Brick(b).d.status = "UNINITIALIZED"
        BY <1>8, AtIs DEF Initialize
    <2>2. BrickInv(b, Initialized(b, Brick(b)), "idle")
        BY <2>1, InitializeStep
    <2> QED
        BY <1>8, <2>1, <2>2, OneBrickOnly DEF Initialize
<1> QED
    BY <1>1, <1>2, <1>3, <1>4, <1>5, <1>6, <1>7, <1>8 DEF InCall

\* A step of a brick's registers.
LEMMA RegistersKeep ==
    ASSUME Inv, NEW b \in Bricks, NEW v \in Usarts,
           BrickInv(b, [d |-> Brick(b).d, u |-> v, o |-> Brick(b).o], prog[b]),
           usart' = [usart EXCEPT ![b] = v], UNCHANGED <<rs485_state, prog, op>>
    PROVE  Inv'
<1> DEFINE t == [d |-> Brick(b).d, u |-> v, o |-> Brick(b).o]
<1>1. Becomes(b, t)
    BY BrickIs DEF Becomes, Inv, Shapes
<1> QED
    BY <1>1, OneBrickOnly

LEMMA FeedKeeps ==
    ASSUME Inv, NEW b \in Bricks, Feed(b)
    PROVE  Inv'
<1>1. BrickInv(b, Brick(b), prog[b]) /\ Brick(b).u = usart[b]
    BY BrickIs DEF Inv
<1>2. /\ Fed(usart[b]) \in Usarts
      /\ BrickInv(b, [d |-> Brick(b).d, u |-> Fed(usart[b]), o |-> Brick(b).o], prog[b])
    BY <1>1, FeedStep DEF Feed
<1> QED
    BY <1>2, RegistersKeep DEF Feed

LEMMA SilenceKeeps ==
    ASSUME Inv, NEW b \in Bricks, Silence(b)
    PROVE  Inv'
<1>1. BrickInv(b, Brick(b), prog[b]) /\ Brick(b).u = usart[b]
    BY BrickIs DEF Inv
<1>2. /\ Elapsed(usart[b]) \in Usarts
      /\ BrickInv(b, [d |-> Brick(b).d, u |-> Elapsed(usart[b]), o |-> Brick(b).o], prog[b])
    BY <1>1, SilenceStep DEF Silence, Interrupting
<1> QED
    BY <1>2, RegistersKeep DEF Silence

LEMMA ShiftKeeps ==
    ASSUME Inv, AllRules, NEW b \in Bricks, Shift(b)
    PROVE  Inv'
<1> DEFINE char == Head(usart[b].out)
           listen == {c \in Bricks \ {b} : usart[c].rxen /\ usart[c].txen}
           Held(c) == /\ usart'[c] \in Usarts /\ op'[c] \in Transfers
                       /\ BrickInv(c, [d |-> rs485_state[c], u |-> usart'[c], o |-> op'[c]],
                                   prog[c])
<1>1. \A c \in Bricks :
          /\ BrickInv(c, Brick(c), prog[c]) /\ Brick(c) \in Sides
          /\ Brick(c).d = rs485_state[c] /\ Brick(c).u = usart[c] /\ Brick(c).o = op[c]
          /\ usart[c] \in Usarts /\ op[c] \in Transfers
    BY BrickIs DEF Inv, Shapes
<1>2. /\ usart[b].out # <<>>
      /\ \A c \in listen : ~Interrupting(c) /\ prog[c] # "abort"
      /\ UNCHANGED <<rs485_state, prog>>
    BY DEF Shift, AllRules
<1>3. PICK error \in {{"none"}} \cup (IF faults < MaxFaults THEN {{e} : e \in Errors} ELSE {}) :
          /\ error # {"none"} => \A c \in listen : usart[c].rcr > 1
          /\ usart' = [c \in Bricks |->
                 IF c = b THEN [usart[c] EXCEPT !.out = Tail(@)]
                 ELSE IF c \in listen THEN Received(usart[c], char, error) ELSE usart[c]]
          /\ op' = [c \in Bricks |->
                 IF c = b
                 THEN IF op[b].due # <<>> /\ char = Head(op[b].due)
                      THEN [op[b] EXCEPT !.due = Tail(@)] ELSE [op[b] EXCEPT !.clean = FALSE]
                 ELSE IF c \in listen /\ error # {"none"} THEN [op[c] EXCEPT !.spoilt = TRUE]
                 ELSE op[c]]
    BY DEF Shift, AllRules
<1>4. error = {"none"} \/ \E e \in Errors : error = {e}
    BY <1>3
<1>5. char \in Chars
    BY <1>1, <1>2 DEF Usarts
<1> HIDE DEF char, listen
<1>6. Held(b)
    <2>1. /\ Sent(usart[b]) \in Usarts /\ Paid(op[b]) \in Transfers
          /\ op[b].due # <<>> /\ Head(usart[b].out) = Head(op[b].due)
          /\ BrickInv(b, [d |-> rs485_state[b], u |-> Sent(usart[b]), o |-> Paid(op[b])],
                      prog[b])
        BY <1>1, <1>2, SentStep
    <2>2. usart'[b] = Sent(usart[b]) /\ op'[b] = Paid(op[b])
        BY <1>3, <2>1 DEF char, Sent, Paid
    <2> QED
        BY <2>1, <2>2
<1>7. ASSUME NEW c \in listen
      PROVE  Held(c)
    <2>1. /\ c \in Bricks /\ c # b /\ usart[c].rxen
          /\ usart[c].ier \cap Csr(usart[c]) = {} /\ prog[c] # "abort"
        BY <1>2 DEF listen, Interrupting
    <2>2. error = {"none"} \/ ((\E e \in Errors : error = {e}) /\ usart[c].rcr > 1)
        BY <1>3, <1>4
    <2> DEFINE spoilt == IF error = {"none"} THEN op[c].spoilt ELSE TRUE
    <2>3. spoilt \in BOOLEAN /\ (error # {"none"} => spoilt) /\ (op[c].spoilt => spoilt)
        <3>1. op[c].spoilt \in BOOLEAN
            BY <1>1, <2>1, Zenon DEF Transfers
        <3> QED
            BY <3>1
    <2>4. usart'[c] = Received(usart[c], char, error)
        BY <1>3, <2>1
    <2>5. op'[c] = [op[c] EXCEPT !.spoilt = spoilt]
        <3>1. CASE error = {"none"}
            <4>1. op'[c] = op[c] /\ spoilt = op[c].spoilt
                BY <1>3, <2>1, <3>1
            <4>2. op[c] = [op[c] EXCEPT !.spoilt = op[c].spoilt]
                BY <1>1, <2>1 DEF Transfers
            <4> QED
                BY <4>1, <4>2
        <3>2. CASE error # {"none"}
            BY <1>3, <2>1, <3>2
        <3> QED
            BY <3>1, <3>2
    <2> HIDE DEF spoilt
    <2>6. BrickInv(c, Brick(c), prog[c])
        BY <1>1, <2>1
    <2>7. /\ Received(Brick(c).u, char, error) \in Usarts
          /\ [Brick(c).o EXCEPT !.spoilt = spoilt] \in Transfers
          /\ BrickInv(c, [d |-> Brick(c).d, u |-> Received(Brick(c).u, char, error),
                          o |-> [Brick(c).o EXCEPT !.spoilt = spoilt]], prog[c])
        BY <1>1, <1>5, <2>1, <2>2, <2>3, <2>6, ReceivedStep
    <2> QED
        BY <1>1, <2>1, <2>4, <2>5, <2>7
<1>8. ASSUME NEW c \in Bricks, c # b, c \notin listen
      PROVE  Held(c)
    BY <1>1, <1>3, <1>8 DEF Brick
<1>9. \A c \in Bricks : Held(c)
    BY <1>6, <1>7, <1>8
<1>10. Shapes'
    BY <1>2, <1>3, <1>9 DEF Inv, Shapes
<1>11. \A c \in Bricks : BrickInv(c, Brick(c)', prog'[c])
    BY <1>2, <1>9 DEF Brick
<1> QED
    BY <1>10, <1>11 DEF Inv

LEMMA InitHolds == Init => Inv
<1> SUFFICES ASSUME Init PROVE Inv
    OBVIOUS
<1>1. /\ "UNINITIALIZED" \in Statuses /\ "idle" \in Places /\ "none" \in Kept
      /\ "none" \in States /\ <<>> \in Seq(Chars) /\ {} \in SUBSET Sources
      /\ {} \in SUBSET Flags
    BY DEF Statuses, Places, Kept, States
<1> DEFINE d == [status |-> "UNINITIALIZED", callback |-> 0]
           u == [ier |-> {}, flags |-> {}, tx |-> <<>>, out |-> <<>>, txen |-> FALSE,
                 rcr |-> 0, got |-> <<>>, rxen |-> FALSE, armed |-> FALSE]
           o == [id |-> 0, kind |-> "none", n |-> 0, state |-> "none", spoilt |-> FALSE,
                 due |-> <<>>, own |-> TRUE, clean |-> TRUE]
           s == [d |-> d, u |-> u, o |-> o]
<1>2. d \in Drivers /\ u \in Usarts /\ o \in Transfers
    BY <1>1 DEF Drivers, Usarts, Transfers
<1>3. Shapes
    BY <1>1, <1>2 DEF Init, Shapes
<1>4. s \in Sides
    BY <1>2 DEF Sides
<1>5. Resting(s, "idle")
    BY DEF Resting, Quiet
<1>6. ASSUME NEW b \in Bricks
      PROVE  BrickInv(b, Brick(b), prog[b])
    <2>1. Brick(b) = s /\ prog[b] = "idle"
        BY DEF Init, Brick
    <2>0. s.o.due = <<>> /\ s.u.out = <<>> /\ s.u.tx = <<>> /\ <<>> \o <<>> = <<>>
        OBVIOUS
    <2>2. s.o.own /\ s.o.clean /\ s.o.due = s.u.out \o s.u.tx
        BY <2>0
    <2>3. s.d.status = "UNINITIALIZED" /\ s.u.out = <<>>
        OBVIOUS
    <2> HIDE DEF s
    <2>4. BrickInv(b, s, "idle")
        BY <1>1, <1>4, <1>5, <2>2, <2>3 DEF BrickInv
    <2> QED
        BY <2>1, <2>4
<1> QED
    BY <1>3, <1>6 DEF Inv

LEMMA NextKeeps ==
    ASSUME Inv, AllRules, [Next]_vars
    PROVE  Inv'
<1>1. CASE Next
    BY <1>1, IsrKeeps, CallsKeep, FeedKeeps, ShiftKeeps, SilenceKeeps DEF Next
<1>2. CASE UNCHANGED vars
    BY <1>2 DEF vars, Inv, Shapes, Brick
<1> QED
    BY <1>1, <1>2

\* The invariant holds whenever programs and line keep to the rules.
LEMMA InvAlways ==
    ASSUME AllRules
    PROVE  Spec => []Inv
<1>1. Init => Inv
    BY InitHolds
<1>2. Inv /\ [Next]_vars => Inv'
    BY NextKeeps
<1> QED
    BY <1>1, <1>2, PTL DEF Spec

---------------------------------------------------------------------------
(* The theorems *)

\* rs485.c tells each transfer its own outcome: whatever the bricks start, abort
\* and shut down, from the callback too, the callback that is run is that of the
\* transfer in progress, once it is over never again, and SUCCESS means the whole
\* of the buffer was taken or filled.
THEOREM CallbacksAreOwn ==
    ASSUME AllRules
    PROVE  Spec => []AnswersOwn
<1>1. Inv => AnswersOwn
    <2> SUFFICES ASSUME Inv, NEW b \in Bricks
                 PROVE  /\ op[b].own
                        /\ op[b].state = "done" =>
                               IF op[b].kind = "send" THEN usart[b].tx = <<>>
                               ELSE Len(usart[b].got) = op[b].n
        BY DEF AnswersOwn
    <2>1. /\ BrickInv(b, Brick(b), prog[b])
          /\ Brick(b).u = usart[b] /\ Brick(b).o = op[b]
        BY BrickIs DEF Inv
    <2>2. op[b].state = "done" => Resting(Brick(b), prog[b])
        BY <2>1 DEF BrickInv, Starting, Sending, Receiving
    <2> QED
        BY <2>1, <2>2 DEF BrickInv, Resting
<1> QED
    BY <1>1, InvAlways, PTL

\* What rs485.c puts on the wire is what was sent and not aborted, in order; and
\* nothing of it is left when the driver has been shut down.
THEOREM WireCarriesWhatWasSent ==
    ASSUME AllRules
    PROVE  Spec => []WireTrue
<1>1. Inv => WireTrue
    <2> SUFFICES ASSUME Inv, NEW b \in Bricks
                 PROVE  /\ op[b].clean
                        /\ rs485_state[b].status = "UNINITIALIZED" => op[b].due = <<>>
        BY DEF WireTrue
    <2>1. /\ BrickInv(b, Brick(b), prog[b]) /\ Brick(b).d = rs485_state[b]
          /\ Brick(b).u = usart[b] /\ Brick(b).o = op[b]
        BY BrickIs DEF Inv
    <2>2. rs485_state[b].status = "UNINITIALIZED" => usart[b].out = <<>> /\ usart[b].tx = <<>>
        BY <2>1 DEF BrickInv, Resting, Starting, Sending, Receiving
    <2>3. op[b].clean /\ op[b].due = usart[b].out \o usart[b].tx
        BY <2>1 DEF BrickInv
    <2> QED
        BY <2>2, <2>3
<1> QED
    BY <1>1, InvAlways, PTL

=============================================================================
