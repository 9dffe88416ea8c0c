-------------------------------- MODULE Lcd --------------------------------
(***************************************************************************)
(* The LCD driver, base/drivers/_lcd.c: the frame that the interrupt sends *)
(* page by page through the SPI's DMA controller, the PDC, the dirty flag  *)
(* that asks for it, and the UC1601, the display's controller, which       *)
(* counts the bytes on its own and is never read.                          *)
(*                                                                         *)
(* Whether a byte is a command or data is told by a pin beside the line,   *)
(* that is, by the driver's mode when the byte arrives, not when it is     *)
(* written.                                                                *)
(***************************************************************************)
EXTENDS Integers, Sequences

CONSTANTS
    Pages,      \* of the LCD: 8
    Visible,    \* bytes of a page that are seen: 100
    Padding     \* and that are not: 32

ASSUME LcdAssumption ==
    /\ Pages \in Nat \ {0} /\ Visible \in Nat \ {0}
    /\ Padding \in 1..Visible

NULL == -1
Unknown == "unknown"

VARIABLES
    spi_state,  \* the driver's record; data is an offset into the screen
    pdc,        \* the SPI's: interrupt enabled, DMA enabled, the block left
    line,       \* the bytes in the transmitter, which holds two
    lcd         \* the UC1601

lcdVars == <<spi_state, pdc, line, lcd>>

\* A byte as it is meant.
Command(name, n) == [meant |-> "COMMAND", name |-> name, n |-> n]
Data(offset, value) == [meant |-> "DATA", name |-> value, n |-> offset]

\* A block that is left is in the transmitter before the CPU looks.
ENDTX == pdc.count = 0
TDRE == Len(line) < 2
TXEMPTY == line = <<>> /\ (pdc.txten => ENDTX)

\* The mode switched at once.
MayModeAtOnce(mode) == TRUE

\* spi_set_tx_mode and spi_write_command_byte: what they wait for.
MayMode(mode) == spi_state.mode # mode => TXEMPTY
MayWrite(mode) == MayMode(mode) /\ TDRE

---------------------------------------------------------------------------
(* The interrupt *)

Interrupting == pdc.ier /\ ENDTX

\* Between two frames.
AtStart == spi_state.page = 0 /\ ~spi_state.send_padding

Sent(s, offset, n) ==
    /\ spi_state' = [s EXCEPT !.mode = "DATA"]
    /\ pdc' = [pdc EXCEPT !.at = offset, !.count = n]

\* SendNext that resets the flag once more when the frame is out.
SendNextResets(s) ==
    IF ~s.send_padding
    THEN Sent([s EXCEPT !.send_padding = TRUE], s.data, Visible)
    ELSE Sent([s EXCEPT !.page = (@ + 1) % Pages, !.data = @ + Visible, !.send_padding = FALSE,
                        !.screen_dirty = @ /\ s.page # Pages - 1],
              s.data + Visible - Padding, Padding)

\* 100 bytes of a page from s.data on, then 32 bytes that are not seen.
SendNext(s) ==
    IF ~s.send_padding
    THEN Sent([s EXCEPT !.send_padding = TRUE], s.data, Visible)
    ELSE Sent([s EXCEPT !.page = (@ + 1) % Pages, !.data = @ + Visible, !.send_padding = FALSE],
              s.data + Visible - Padding, Padding)

StartFrame ==
    /\ Interrupting /\ AtStart
    /\ LET dirty == spi_state.screen_dirty /\ spi_state.screen
           s == [spi_state EXCEPT !.screen_dirty = FALSE, !.data = IF dirty THEN 0 ELSE NULL]
       IN  IF dirty THEN MayMode("DATA") /\ SendNext(s)
           ELSE spi_state' = s /\ pdc' = [pdc EXCEPT !.ier = FALSE]
    /\ UNCHANGED <<line, lcd>>

GoOn ==
    /\ Interrupting /\ ~AtStart /\ MayMode("DATA")
    /\ SendNext(spi_state)
    /\ UNCHANGED <<line, lcd>>

spi_isr == StartFrame \/ GoOn

\* nx__lcd_fast_update, by the tick.
FastUpdate ==
    /\ spi_state.screen_dirty /\ ~pdc.ier
    /\ pdc' = [pdc EXCEPT !.ier = TRUE]
    /\ UNCHANGED <<spi_state, line, lcd>>

---------------------------------------------------------------------------
(* The SPI and the UC1601 *)

\* The PDC reads the screen as it is when the transmitter has room.
Feed(screen) ==
    /\ pdc.txten /\ ~ENDTX /\ TDRE
    /\ line' = Append(line, Data(pdc.at, screen[pdc.at]))
    /\ pdc' = [pdc EXCEPT !.at = @ + 1, !.count = @ - 1]
    /\ UNCHANGED <<spi_state, lcd>>

Obeyed(byte) ==
    CASE byte.name = "reset"  -> [lcd EXCEPT !.state = "reset"]
      [] byte.name = "column" -> [lcd EXCEPT !.col = byte.n]
      [] byte.name = "page"   -> [lcd EXCEPT !.page = byte.n]
      [] byte.name = "enable" -> [lcd EXCEPT !.state = "on"]
      [] OTHER                -> lcd

\* The address wraps at the end of a page and after the last.
Stored(byte) ==
    LET seen == lcd.col < Visible
        here == lcd.page * Visible + lcd.col
        last == lcd.col = Visible + Padding - 1
    IN  [lcd EXCEPT
            !.ram = IF seen THEN [@ EXCEPT ![here] = byte.name] ELSE @,
            !.inplace = @ /\ (seen => byte.n = here),
            !.col = IF last THEN 0 ELSE @ + 1,
            !.page = IF last THEN (@ + 1) % Pages ELSE @]

\* A byte leaves the transmitter; the PDC is faster than the line.
Shift ==
    /\ line # <<>>
    /\ pdc.txten /\ ~ENDTX => ~TDRE
    /\ LET byte == Head(line)
           got == IF spi_state.mode = "DATA" THEN Stored(byte) ELSE Obeyed(byte)
       IN  lcd' = [got EXCEPT !.inplace = @ /\ byte.meant = spi_state.mode]
    /\ line' = Tail(line)
    /\ UNCHANGED <<spi_state, pdc>>

LcdInit ==
    /\ spi_state = [mode |-> "COMMAND", screen |-> FALSE, screen_dirty |-> FALSE,
                    data |-> NULL, page |-> 0, send_padding |-> FALSE]
    /\ pdc = [ier |-> FALSE, txten |-> TRUE, at |-> 0, count |-> 0]
    /\ line = <<>>
    /\ lcd = [state |-> "off", page |-> 0, col |-> 0, inplace |-> TRUE,
              ram |-> [p \in 0..Pages * Visible - 1 |-> Unknown]]

=============================================================================
