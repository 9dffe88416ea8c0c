----------------------------- MODULE MCDisplay -----------------------------
(* A display of two lines of two cells, and the calls made on it. *)
EXTENDS Display

MCCalls ==
    {[op |-> "string", arg |-> s] : s \in {<<"a">>, <<"a", "b">>, <<"b", LF>>}}
        \cup {[op |-> "int", arg |-> -7], [op |-> "hex", arg |-> 26]}
        \cup {[op |-> op, arg |-> 0] : op \in {"clear", "end_line", "refresh"}}
        \cup {[op |-> "set_pos", arg |-> <<1, 1>>]}
        \cup {[op |-> "auto_refresh", arg |-> on] : on \in BOOLEAN}

MCMessage == <<"a", LF, "b">>

=============================================================================
