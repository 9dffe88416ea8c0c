------------------------------ MODULE Display ------------------------------
(***************************************************************************)
(* The display, base/display.c: text written into the buffer that the LCD  *)
(* driver mirrors, with the start-up of both, their end in nx_core_halt    *)
(* and the message of nx__abort.                                           *)
(*                                                                         *)
(* A call is the code that it has left to run, a sequence of instructions  *)
(* between which interrupts come.  A cell is one byte wide.                *)
(***************************************************************************)
EXTENDS Lcd

CONSTANTS
    Calls,      \* that the program may make, records of an op and its arguments
    Message,    \* what nx__abort writes
    Rules,      \* what the program keeps to, see below
    MaxCalls    \* bound: the calls it makes

ASSUME DisplayAssumption ==
    /\ Rules \subseteq {"lines", "calm"}
    /\ MaxCalls \in Nat

Blank == " "
LF == "\n"

VARIABLES
    display,    \* the buffer, auto_refresh, the cursor; due: the LCD is asked
                \* to show all that was written
    code,       \* what the program has left of its call
    kernel,     \* "up", "halted" or "aborted", the latter without interrupts
    calls

vars == <<lcdVars, display, code, kernel, calls>>

---------------------------------------------------------------------------
(* Text *)

\* Unless a wrap was the last thing, a line feed starts a line.  set_pos keeps
\* ignore_lf as it is.
UpdateCursorKept(d, inc_y) ==
    LET wraps == ~inc_y /\ d.x + 1 >= Visible
        down == wraps \/ (inc_y /\ ~d.ignore_lf)
    IN  [d EXCEPT !.x = IF down THEN 0 ELSE IF inc_y THEN @ ELSE @ + 1,
                  !.y = IF down THEN (IF @ + 1 >= Pages THEN 0 ELSE @ + 1) ELSE @,
                  !.ignore_lf = wraps \/ @]

UpdateCursor(d, inc_y) ==
    LET wraps == ~inc_y /\ d.x + 1 >= Visible
        down == wraps \/ (inc_y /\ ~d.ignore_lf)
    IN  [d EXCEPT !.x = IF down THEN 0 ELSE IF inc_y THEN @ ELSE @ + 1,
                  !.y = IF down THEN (IF @ + 1 >= Pages THEN 0 ELSE @ + 1) ELSE @,
                  !.ignore_lf = wraps]

Put(d, c) ==
    IF c = LF THEN UpdateCursor(d, TRUE)
    ELSE UpdateCursor([d EXCEPT !.buffer[d.y * Visible + d.x] = c, !.due = FALSE], FALSE)

Digit == <<"0", "1", "2", "3", "4", "5", "6", "7", "8", "9", "A", "B", "C", "D", "E", "F">>

\* The digits of val, the first first.
Digits(base, val) ==
    LET digits[n \in 0..val] ==
            (IF n < base THEN <<>> ELSE digits[n \div base]) \o <<Digit[(n % base) + 1]>>
    IN  digits[val]

---------------------------------------------------------------------------
(* The code of the calls *)

Do(op, arg) == <<[op |-> op, arg |-> arg]>>

Text(str) == [k \in DOMAIN str |-> [op |-> "char", arg |-> str[k]]]
String(str) == Text(str) \o Do("dirty", 0)
Number(base, val) == String(Digits(base, val)) \o Do("dirty", 0)
Clear == Do("memset", 0) \o Do("set_pos", <<0, 0>>) \o Do("dirty", 0)
AutoRefresh(on) == Do("auto", on) \o Do("dirty", 0)

CodeOf(call) ==
    CASE call.op = "string" -> String(call.arg)
      [] call.op = "hex"    -> Number(16, call.arg)
      [] call.op = "int"    -> IF call.arg < 0 THEN String(<<"-">>) \o Number(10, -call.arg)
                               ELSE Number(10, call.arg)
      [] call.op = "clear"  -> Clear
      [] call.op = "auto_refresh" -> AutoRefresh(call.arg)
      [] call.op = "end_line" -> Do("char", LF)
      [] OTHER              -> Do(call.op, call.arg)

CommandByte(name, n) == Do("mode", "COMMAND") \o Do("byte", Command(name, n))

\* nx__lcd_init, whose set-up commands change nothing here, and nx__display_init.
Boot ==
    CommandByte("reset", 0) \o CommandByte("setup", 0) \o CommandByte("column", 0)
        \o CommandByte("page", 0) \o CommandByte("enable", 1)
        \o Do("auto", FALSE) \o Clear \o Do("cursor", 0)
        \o Do("set_display", 0) \o Do("auto", TRUE) \o Do("dirty", 0)

\* nx__lcd_shutdown
Shutdown == Do("mask", 0) \o Do("stop", 0) \o CommandByte("reset", 0)

\* A page of nx__lcd_sync_refresh.
PageOf(i) ==
    CommandByte("column", 0) \o CommandByte("page", i) \o Do("mode", "DATA")
        \o [j \in 1..Visible |-> [op |-> "copy", arg |-> i * Visible + j - 1]]

Refreshed(n) ==
    LET pages[i \in 0..n] == IF i = 0 THEN <<>> ELSE pages[i - 1] \o PageOf(i - 1)
    IN  pages[n]

\* nx__lcd_sync_refresh that stops before the last page.
SyncRefreshShort == Refreshed(Pages - 1)

SyncRefresh == Refreshed(Pages)

---------------------------------------------------------------------------
(* The instructions *)

\* The next instruction is op; interrupts are served first.
At(op) == code # <<>> /\ Head(code).op = op /\ (Interrupting => kernel = "aborted")
Arg == Head(code).arg
Done == code' = Tail(code) /\ UNCHANGED <<kernel, calls>>

Shows(d) == display' = d /\ UNCHANGED lcdVars /\ Done

Char == At("char") /\ Shows(Put(display, Arg))

Memset ==
    /\ At("memset")
    /\ Shows([display EXCEPT !.buffer = [p \in DOMAIN @ |-> Blank], !.due = FALSE])

SetPos == At("set_pos") /\ Shows([display EXCEPT !.x = Arg[1], !.y = Arg[2]])
Cursor == At("cursor") /\ Shows([display EXCEPT !.x = 0, !.y = 0, !.ignore_lf = FALSE])
Auto == At("auto") /\ Shows([display EXCEPT !.auto_refresh = Arg])

\* dirty_display, and nx_display_refresh, which does not ask.
Dirty ==
    /\ At("dirty") \/ At("refresh")
    /\ IF At("refresh") \/ display.auto_refresh
       THEN /\ spi_state' = [spi_state EXCEPT !.screen_dirty = TRUE]
            /\ display' = [display EXCEPT !.due = TRUE]
       ELSE UNCHANGED <<spi_state, display>>
    /\ UNCHANGED <<pdc, line, lcd>> /\ Done

SetDisplay ==
    /\ At("set_display")
    /\ spi_state' = [spi_state EXCEPT !.screen = TRUE]
    /\ pdc' = [pdc EXCEPT !.ier = TRUE]
    /\ UNCHANGED <<line, lcd, display>> /\ Done

Mode ==
    /\ At("mode") /\ MayMode(Arg)
    /\ spi_state' = [spi_state EXCEPT !.mode = Arg]
    /\ UNCHANGED <<pdc, line, lcd, display>> /\ Done

Byte ==
    /\ TDRE
    /\ \/ At("byte") /\ line' = Append(line, Arg)
       \/ At("copy") /\ line' = Append(line, Data(Arg, display.buffer[Arg]))
    /\ UNCHANGED <<spi_state, pdc, lcd, display>> /\ Done

Mask ==
    /\ \/ At("mask") /\ pdc' = [pdc EXCEPT !.ier = FALSE]
       \/ At("stop") /\ pdc' = [pdc EXCEPT !.txten = FALSE]
    /\ UNCHANGED <<spi_state, line, lcd, display>> /\ Done

Execute ==
    \/ Char \/ Memset \/ SetPos \/ Cursor \/ Auto \/ Dirty
    \/ SetDisplay \/ Mode \/ Byte \/ Mask

---------------------------------------------------------------------------
(* The program *)

\*   lines   nothing moves the cursor right after a wrap, not even an abort
Orderly == "lines" \in Rules => ~display.ignore_lf

Call ==
    /\ code = <<>> /\ kernel = "up" /\ calls < MaxCalls /\ ~Interrupting
    /\ \E c \in Calls :
           /\ c.op \in {"clear", "set_pos"} => Orderly
           /\ code' = CodeOf(c)
    /\ calls' = calls + 1
    /\ UNCHANGED <<lcdVars, display, kernel>>

\* The program returns and the kernel shuts the LCD down.
\*   calm    when the display is not dirty
Halt ==
    /\ code = <<>> /\ kernel = "up" /\ ~Interrupting
    /\ "calm" \in Rules => ~spi_state.screen_dirty /\ ~pdc.ier
    /\ code' = Shutdown /\ kernel' = "halted"
    /\ UNCHANGED <<lcdVars, display, calls>>

\* A data abort or a prefetch abort of the program.  Its message begins with a
\* call that moves the cursor.
Abort ==
    /\ kernel = "up" /\ calls > 0 /\ ~Interrupting /\ Orderly
    /\ code' = AutoRefresh(FALSE) \o Clear \o String(Message) \o SyncRefresh
    /\ kernel' = "aborted"
    /\ UNCHANGED <<lcdVars, display, calls>>

Isr == kernel # "aborted" /\ spi_isr /\ UNCHANGED <<display, code, kernel, calls>>
Tick == kernel # "aborted" /\ FastUpdate /\ UNCHANGED <<display, code, kernel, calls>>
Bus == (Feed(display.buffer) \/ Shift) /\ UNCHANGED <<display, code, kernel, calls>>

Init ==
    /\ LcdInit
    /\ display = [buffer |-> [p \in 0..Pages * Visible - 1 |-> Blank], auto_refresh |-> FALSE,
                  x |-> 0, y |-> 0, ignore_lf |-> FALSE, due |-> FALSE]
    /\ code = Boot /\ kernel = "up" /\ calls = 0

Next == Execute \/ Call \/ Halt \/ Abort \/ Isr \/ Tick \/ Bus

Spec ==
    /\ Init /\ [][Next]_vars
    /\ WF_vars(Execute) /\ WF_vars(Isr) /\ WF_vars(Tick) /\ WF_vars(Bus)

---------------------------------------------------------------------------
(* Properties *)

TypeOK ==
    /\ display.x \in 0..Visible - 1 /\ display.y \in 0..Pages - 1
    /\ spi_state.mode \in {"COMMAND", "DATA"} /\ spi_state.page \in 0..Pages - 1
    /\ spi_state.data \in {NULL} \cup (0..Pages * Visible)
    /\ Len(line) <= 2 /\ kernel \in {"up", "halted", "aborted"} /\ calls \in 0..MaxCalls

\* The UC1601, which counts pages and columns by itself, never loses step with
\* the frame: each byte is taken for what it was meant, and each byte that is
\* seen is the buffer's for that very place, whatever was cut short before.
BytesInPlace == TypeOK /\ lcd.inplace

Shown == lcd.ram = display.buffer

\* What was written is on the LCD in the end, be the last write in the middle of
\* a frame that had already passed the place.
ScreenFollows == [](code = <<>> /\ kernel = "up" /\ display.due => <>(Shown \/ code # <<>>))

\* An abort leaves its message on the LCD, whole, wherever in a frame it came;
\* a halt leaves the controller reset.
EndsAsMeant ==
    code = <<>> /\ TXEMPTY =>
        /\ kernel = "aborted" => Shown
        /\ kernel = "halted" => lcd.state = "reset"

\* The panel shows the display's buffer as long as the brick runs, and its
\* last words when it has stopped.
PanelTrue == BytesInPlace /\ EndsAsMeant

\* The cursor that wraps at once and then ignores a line feed is, to a program,
\* one that wraps when there is more to print.
Sheet ==
    INSTANCE Terminal WITH
        Width <- Visible, Height <- Pages,
        Chars <- {Blank, "-", "a", "b"} \cup {Digit[k] : k \in DOMAIN Digit},
        cells <- display.buffer,
        col <- IF display.ignore_lf THEN Visible ELSE display.x,
        row <- IF display.ignore_lf THEN (display.y + Pages - 1) % Pages ELSE display.y

ImplementsTerminal == Sheet!Spec

=============================================================================
