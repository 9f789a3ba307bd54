------------------------------ MODULE MCShell ------------------------------
(* A driver that may be there at the start, ends and is started again, and *)
(* a few scripts.                                                          *)
EXTENDS Shell

OneDriver == {<<"a", "1">>}

TwoCommands == <<[name |-> "go", arity |-> 1], [name |-> "ask", arity |-> 0]>>

Go  == <<"cmd", "a", "1", "go", "x", NL>>
Ask == <<"cmd", "a", "1", "ask", NL>>

SomeScripts == {Go \o Ask, <<"list", NL>> \o Ask \o <<NL>>}

Digits == {"1"}

TwoSizes == {4, 7}
=============================================================================
