-------------------------------- MODULE Rcmd --------------------------------
(***************************************************************************)
(* A command file, lib/rcmd/rcmd.c, that drives the motors and the sound   *)
(* driver, base/drivers/sound.c.                                           *)
(*                                                                         *)
(* A file is a sequence of lines and a line the sequence of the pieces     *)
(* that nx_rcmd_readline makes of it: one if it fits into the buffer.  A   *)
(* piece is what the tokenizer makes of it.  Text (print, clear, exec, the *)
(* message of an error) goes to the display and changes nothing here.      *)
(***************************************************************************)
EXTENDS Motors

CONSTANTS
  Files,      \* the command files; <<>> stands for a program of calls instead
  Word,       \* 2^32, the width of tone_cycles
  WavePart,   \* 2000, what the cycles of a tone are divided by
  MinFreq,    \* 200, and
  MinMs       \* 100: the least that play takes

ASSUME RcmdAssumption ==
  /\ Word \in Nat \ {0} /\ WavePart \in Nat \ {0}
  /\ MinFreq \in Nat /\ MinMs \in Nat

VARIABLES
  rcmd,       \* nx_rcmd_parse: its place, what is left of the file, the piece,
              \* the line number, ...
  tone        \* tone_cycles, whether the interrupt is on, the cycles asked for,
              \* and whether a wave ended within nx_sound_freq_async

rcmdVars == <<motorVars, rcmd, tone>>

Blank == [cmd |-> "", argc |-> 0, args |-> <<>>]
NotANumber == 2000

Least(a, b) == IF a < b THEN a ELSE b

-----------------------------------------------------------------------------
(* Sound *)

Cycles(freq, ms) == (((freq * ms) % Word) \div WavePart + Word - 1) % Word

\* The interrupt that counts before it looks.
WaveOutEarly(t) ==
  LET left == (t.cycles + Word - 1) % Word
  IN  [t EXCEPT !.cycles = left, !.on = left # 0]

\* sound_isr
WaveOut(t) == [t EXCEPT !.cycles = (@ + Word - 1) % Word, !.on = t.cycles # 0]

\* A wave takes longer than nx_sound_freq_async: at most one ends within it.
SoundIsr ==
  /\ tone.on /\ ~tone.out
  /\ tone' = [WaveOut(tone) EXCEPT !.out = rcmd.place = "play"]
  /\ UNCHANGED <<motorVars, rcmd>>

-----------------------------------------------------------------------------
(* The file *)

At(place) == rcmd.place = place
Unmoved == UNCHANGED <<motorVars, tone>>

\* The next piece; the end of the file may come right after its last.
Following(line) == IF Len(line) = 1 THEN <<>> ELSE <<Tail(line)>>

\* The line number counted for commands only.
NumberedCommands(r, piece) == IF piece = Blank THEN r.n ELSE r.n + 1

Numbered(r, piece) == r.n + 1

Read ==
  /\ At("read")
  /\ IF rcmd.todo = <<>>
     THEN rcmd' = [rcmd EXCEPT !.place = "do", !.piece = Blank, !.eof = TRUE,
                               !.n = Numbered(rcmd, Blank), !.line = @ + 1]
     ELSE LET line == Head(rcmd.todo)
              todo == Following(line) \o Tail(rcmd.todo) IN
          \E eof \in IF todo = <<>> THEN BOOLEAN ELSE {FALSE} :
            rcmd' = [rcmd EXCEPT !.place = "do", !.piece = Head(line), !.todo = todo,
                       !.eof = eof, !.n = Numbered(rcmd, Head(line)),
                       !.line = IF rcmd.inside THEN @ ELSE @ + 1,
                       !.inside = Len(line) > 1]
  /\ Unmoved

\* The rest of nx_rcmd_parse's loop when a command is done.
Onward(r) == [r EXCEPT !.place = IF r.eof THEN "over" ELSE "read"]
Failed(r, err) == [r EXCEPT !.place = "over", !.error = err]

\* Of a list that is too short the last stands for the rest.
Nth(list, i) == list[Least(i + 1, Len(list))]

MoveError(args) ==
  \/ \E k \in DOMAIN args[1] : args[1][k] \notin MotorPorts
  \/ \E m \in MotorPorts :
       LET speed == Nth(args[2], m)
           ms == Nth(args[3], m) IN
       \/ speed = NotANumber \/ speed > 100 \/ speed < -100
       \/ ms = NotANumber \/ (speed # 0 /\ ms = 0)

Move ==
  /\ At("do") /\ rcmd.piece.cmd = "move"
  /\ LET args == rcmd.piece.args IN
     rcmd' = IF rcmd.piece.argc # 4 THEN Failed(rcmd, "INCORRECT_ARGC")
             ELSE IF MoveError(args) THEN Failed(rcmd, "INVALID_PARAMETER")
             ELSE [rcmd EXCEPT !.place = "move",
                     !.motors = Range(args[1])]
  /\ Unmoved

\* The active motors of a move, one call after another, the lowest first.
Activate ==
  /\ At("move") /\ call.steps = <<>>
  /\ \/ rcmd.motors = {} /\ rcmd' = Onward(rcmd) /\ UNCHANGED motorVars
     \/ \E m \in rcmd.motors :
          /\ \A k \in rcmd.motors : m <= k
          /\ LET speed == Nth(rcmd.piece.args[2], m) IN
             IF speed # 0 THEN RotateTime(m, speed, Nth(rcmd.piece.args[3], m), FALSE)
             ELSE Stop(m, TRUE)
          /\ rcmd' = [rcmd EXCEPT !.motors = @ \ {m}]
  /\ UNCHANGED tone

\* nx_rcmd_play and the first half of nx_sound_freq_async, ...
Play ==
  /\ At("do") /\ rcmd.piece.cmd = "play"
  /\ LET freq == rcmd.piece.args[1]
         ms == rcmd.piece.args[2] IN
     IF rcmd.piece.argc < 3
     THEN rcmd' = Failed(rcmd, "INCORRECT_ARGC") /\ UNCHANGED tone
     ELSE IF freq < MinFreq \/ ms < MinMs
     THEN rcmd' = Failed(rcmd, "INVALID_PARAMETER") /\ UNCHANGED tone
     ELSE /\ rcmd' = [rcmd EXCEPT !.place = "play"]
          /\ tone' = [tone EXCEPT !.cycles = Cycles(freq, ms), !.asked = (freq * ms) \div WavePart]
  /\ UNCHANGED motorVars

\* ... its second half, and the wait of nx_sound_freq.
PlayOn ==
  /\ At("play")
  /\ tone' = [tone EXCEPT !.on = TRUE, !.out = FALSE]
  /\ rcmd' = IF rcmd.piece.argc = 4
             THEN [rcmd EXCEPT !.place = "wait", !.left = rcmd.piece.args[2]]
             ELSE Onward(rcmd)
  /\ UNCHANGED motorVars

Wait ==
  /\ At("do") /\ rcmd.piece.cmd = "wait"
  /\ rcmd' = IF rcmd.piece.argc # 2 THEN Failed(rcmd, "INCORRECT_ARGC")
             ELSE IF rcmd.piece.args[1] \in {0, NotANumber} THEN Failed(rcmd, "INVALID_PARAMETER")
             ELSE [rcmd EXCEPT !.place = "wait", !.left = rcmd.piece.args[1]]
  /\ Unmoved

WaitOver == At("wait") /\ rcmd.left = 0 /\ rcmd' = Onward(rcmd) /\ Unmoved

\* print, clear and exec: text.
Write ==
  /\ At("do") /\ rcmd.piece.cmd \in {"print", "clear"}
  /\ rcmd' = Onward(rcmd)
  /\ Unmoved

Exec ==
  /\ At("do") /\ rcmd.piece.cmd = "exec"
  /\ rcmd' = IF rcmd.piece.argc # 2 THEN Failed(rcmd, "INCORRECT_ARGC") ELSE Onward(rcmd)
  /\ Unmoved

\* A blank line, a comment, end and nop; and what is no command.
Commands == {"move", "print", "clear", "play", "exec", "wait", "end", "nop"}

Other ==
  /\ At("do") /\ rcmd.piece.cmd \notin Commands \ {"end", "nop"}
  /\ rcmd' = IF rcmd.piece.cmd \in Commands \cup {"", "#"} THEN Onward(rcmd)
             ELSE Failed(rcmd, "COMMAND_NOT_FOUND")
  /\ Unmoved

Parse ==
  Read \/ Move \/ Activate \/ Play \/ PlayOn \/ Wait \/ WaitOver
    \/ Write \/ Exec \/ Other

-----------------------------------------------------------------------------
RcmdInit ==
  /\ Init
  /\ tone = [cycles |-> 0, on |-> FALSE, asked |-> 0, out |-> FALSE]
  /\ \E f \in Files :
       rcmd = [place |-> IF f = <<>> THEN "none" ELSE "read", todo |-> f, piece |-> Blank,
               n |-> 0, eof |-> FALSE, error |-> "NO_ERROR", motors |-> {}, left |-> 0,
               line |-> 0, inside |-> FALSE]

RcmdTick ==
  /\ Tick
  /\ rcmd' = [rcmd EXCEPT !.left = IF @ = 0 THEN 0 ELSE @ - 1]
  /\ UNCHANGED tone

RcmdNext ==
  \/ At("none") /\ Call /\ UNCHANGED <<rcmd, tone>>
  \/ (Step \/ Isr) /\ UNCHANGED <<rcmd, tone>>
  \/ RcmdTick \/ Parse \/ SoundIsr

\* Those of Motors; the program never stops between two steps; waves go out.
RcmdFairness ==
  /\ WF_rcmdVars((Step /\ UNCHANGED <<rcmd, tone>>) \/ Parse)
  /\ SF_rcmdVars(RcmdTick) /\ WF_rcmdVars(SoundIsr)
  /\ \A m \in MotorPorts : SF_rcmdVars(Turn(m) /\ UNCHANGED <<rcmd, tone>>)

RcmdSpec == RcmdInit /\ [][RcmdNext]_rcmdVars /\ RcmdFairness

-----------------------------------------------------------------------------
(* Properties *)

(* A command file comes to its end, and leaves no motor running and no tone    *)
(* sounding: its moves are bounded in time, its waits end.                     *)
FileEnds ==
  [](~At("none") =>
       <>(At("over") /\ ~tone.on /\ \A m \in MotorPorts : to_avr.speed[m] = 0))

(* The line number that an error is reported with is that of the line in the   *)
(* file, whatever blank lines, comments and ends of file came before it.       *)
ErrorAtLine == rcmd.error # "NO_ERROR" => rcmd.n = rcmd.line

(* A tone never has more waves to go than it was asked for: the counter that   *)
(* goes below zero at its end does so with the interrupt off.                  *)
ToneAsAsked == tone.on => tone.cycles <= tone.asked

(* The interpreter does what the line says, and says which line it could not. *)
LinesObeyed == ErrorAtLine /\ ToneAsAsked

-----------------------------------------------------------------------------
(* What the theorems ask of the program and the files: *)

\* no goal so near that one edge or one tick passes it while it is being set;
NotTooNear == \A goal \in Angles \cup Times : goal > 1

MoveServed(p) ==
  p.cmd = "move" /\ p.argc = 4 =>
    \A m \in MotorPorts :
      LET speed == Nth(p.args[2], m) IN
      /\ speed \in Int
      /\ speed \in -100 .. 100 =>
           speed \in Speeds /\ (speed # 0 => Nth(p.args[3], m) \in Nat \ {1})

\* no tone whose frequency times its duration does not fit;
ToneServed(p) ==
  p.cmd = "play" /\ p.argc > 2 =>
    p.args[1] \in Nat /\ p.args[2] \in Nat /\ p.args[1] * p.args[2] < Word

WaitServed(p) == p.cmd = "wait" /\ p.argc = 2 => p.args[1] \in Nat

\* the pieces that lines are made of,
PiecesServed(Pieces) ==
  /\ \A p \in Pieces :
       /\ p.argc \in Nat
       /\ MoveServed(p) /\ ToneServed(p) /\ WaitServed(p)
  /\ Files \subseteq Seq(Seq(Pieces) \ {<<>>})

\* and no line that is longer than the buffer.
LinesFit == \A f \in Files : \A k \in DOMAIN f : Len(f[k]) = 1
=============================================================================
