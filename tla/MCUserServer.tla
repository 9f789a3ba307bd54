---------------------------- MODULE MCUserServer ----------------------------
(* Two connections, each used by one client after the other.               *)
EXTENDS UserServer

Ask(method, id, body) == [method |-> method, id |-> id, body |-> body]

SomeAsks == {
    Ask("GET", 0, "none"), Ask("GET", 1, "none"),
    Ask("POST", 0, "a"), Ask("POST", 1, "b"), Ask("POST", 1, "none"),
    Ask("DELETE", 1, "none"), Ask("DELETE", 0, "none") }
=============================================================================
