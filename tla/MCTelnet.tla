------------------------------ MODULE MCTelnet ------------------------------
(* Data of three kinds, a command, a negotiation, and options that are       *)
(* empty, misformed, hold IACs, are longer than telnet_cmd, or have a name   *)
(* without a handler or one telnet_cmds does not list.                       *)
EXTENDS Telnet

Message(kind, S) == {[kind |-> kind, what |-> w] : w \in S}

SomeMessages ==
    Message("data", {<<"a">>, <<"IAC">>, <<"WILL">>})
    \cup Message("command", {<<"SE">>})
    \cup Message("negotiation", {<<"WILL", "a">>})
    \cup Message("option", {<<"a">>, <<"a", "a">>, <<"a", "IAC">>,
                            <<"a", "a", "IAC">>, <<"a", "SE", "e">>,
                            <<"e">>, <<"SE", "e">>})
    \cup Message("misformed", {<<"a", "a">>})

=============================================================================
