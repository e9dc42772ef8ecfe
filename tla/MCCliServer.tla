---------------------------- MODULE MCCliServer ----------------------------
(***************************************************************************)
(* Two telnet connections, one of which may get the block of the other: a  *)
(* user who keeps the rules of telnet, and a client that does not.  And    *)
(* the serial port, where a byte of 0 ends the string that is executed.    *)
(* Lines are full at two characters,   subcommands at one byte.            *)
(***************************************************************************)
EXTENDS CliServer

User == "user"
Client == "client"

UserItems == {<<"h">>, <<"CR">>, <<"BS">>, <<"SP">>, <<"IAC", "SB", "h", "IAC", "SE">>}
ClientItems == {<<"IAC", "IAC">>, <<"IAC", "DO", "BS">>, <<"IAC", "SB", "h", "h", "NUL">>, <<"CR">>}
PortItems == {<<"u">>, <<"NUL">>, <<"CR">>}

MCItems == (User :> UserItems) @@ (Client :> ClientItems) @@ ("port" :> PortItems)

Help == {<<"h">>}
UserCmds == {<<"u">>}

BlockSymmetry == Permutations(Blocks)
=============================================================================
