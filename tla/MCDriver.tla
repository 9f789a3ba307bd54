------------------------------ MODULE MCDriver ------------------------------
(* Driver for TLC: two commands, one of them with up to two arguments.     *)
EXTENDS Driver

TwoCommands == <<0, 2>>

Command(cmd_idx, argv) == [cmd_idx |-> cmd_idx, argv |-> argv]

\* Two commands each: with a value that looks like the beginning of a command,
\* with an empty one, with two, and without arguments.
SomeScripts == {
    <<Command(1, <<<<1>>>>), Command(1, <<<<>>>>)>>,
    <<Command(1, <<<<>>, <<1, 0>>>>), Command(0, <<>>)>> }
=============================================================================
