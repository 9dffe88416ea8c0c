------------------------------- MODULE MCRcmd -------------------------------
(* Command files for two motors; the numbers a .cfg file cannot hold. *)
EXTENDS Rcmd

MCMotorPorts == {0, 1}
MCSpeeds == {-100, 0, 100}
MCAsked == {0, 127}

P(cmd, argc, args) == <<[cmd |-> cmd, argc |-> argc, args |-> args]>>
Go(motors, speeds, ms) == P("move", 4, <<motors, speeds, ms>>)
Sound(freq, ms) == P("play", 3, <<freq, ms>>)
Pause(ms) == P("wait", 2, <<ms>>)
Note == P("#", 1, <<>>)
Empty == <<Blank>>

\* Both motors, one of them stopped again; a tone played beside, one waited for;
\* the errors, after blank lines and comments.
MCFiles ==
  {<<>>,
   <<Go(<<0, 1>>, <<100, -100>>, <<2>>), Pause(1), Go(<<0>>, <<0>>, <<0>>)>>,
   <<Note, Go(<<1, 0>>, <<100>>, <<3, 2>>), Go(<<1>>, <<-100>>, <<2>>), Empty>>,
   <<Sound(3, 4), Sound(2, 4), Pause(1), P("play", 4, <<4, 4>>), Go(<<1>>, <<100>>, <<2>>)>>,
   <<Empty, Sound(4, 4), Note, P("print", 3, <<>>), Go(<<0>>, <<101>>, <<2>>), Pause(1)>>,
   <<Go(<<0>>, <<100>>, <<2>>), Empty, Go(<<1>>, <<100>>, <<0>>)>>,
   <<Note, P("exec", 2, <<>>), P("turn", 2, <<>>), Pause(1)>>,
   <<P("end", 1, <<>>), P("exec", 1, <<>>)>>, <<P("nop", 1, <<>>), Pause(0)>>,
   <<Empty, P("wait", 3, <<1>>)>>, <<P("play", 2, <<4, 0>>)>>, <<P("move", 3, <<>>)>>,
   <<Sound(1, 4)>>, <<P("clear", 1, <<>>), Go(<<2>>, <<0>>, <<0>>)>>}

\* A line that is too long is read as two.
MCLongLines == {<<P("print", 4, <<>>) \o Pause(1), P("turn", 1, <<>>)>>}

\* A tone so low, or so high and long, that its cycles are none.
MCTones == {<<Sound(2, 1)>>, <<Sound(16, 4)>>}

\* The files are such as the theorems are about.
MCPieces == UNION {UNION {Range(line) : line \in Range(f)} : f \in MCFiles}
ASSUME MCFilesServed ==
  Files = MCFiles => PiecesServed(MCPieces) /\ LinesFit /\ NotTooNear
=============================================================================
