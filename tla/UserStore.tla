----------------------------- MODULE UserStore -----------------------------
(***************************************************************************)
(* What the server of satellite-soft-labs promises its clients: requests   *)
(* are served one after the other, each at some moment between its arrival *)
(* and its answer, on one table of users.  Nothing here knows of threads,  *)
(* queues or the cache.                                                    *)
(***************************************************************************)
EXTENDS Integers

CONSTANTS
    Conn,       \* connections; one is used again after its client has gone
    Id,         \* ids of rows
    Value       \* what a row says of a user

NoRow == "no row"
NoRequest == [method |-> "none", id |-> 0, body |-> "none"]

\* The id is 0 when the path names none and -1 when it is malformed.
Requests ==
    [method : {"GET", "POST", "DELETE", "other"}, id : Id \cup {0, -1}, body : Value \cup {"none", "bad"}]

Tables == [Id -> Value \cup {NoRow}]
NoRows == [i \in Id |-> NoRow]
Only(i, t) == [NoRows EXCEPT ![i] = t[i]]

Kinds == {"OK", "BAD_REQUEST", "NOT_FOUND"}
Reply(kind, records) == [kind |-> kind, records |-> records]
NoReply == Reply("none", NoRows)

VARIABLES
    store,      \* the rows
    asked,      \* connection -> its request
    given,      \* connection -> the reply to it
    up          \* whether the server is up

svars == <<store, asked, given, up>>

Gives(c, kind, records) == given' = [given EXCEPT ![c] = Reply(kind, records)]

StoreInit ==
    /\ store \in Tables
    /\ asked = [c \in Conn |-> NoRequest]
    /\ given = [c \in Conn |-> NoReply]
    /\ up = TRUE

Ask(c, q) ==
    /\ asked[c] = NoRequest
    /\ asked' = [asked EXCEPT ![c] = q]
    /\ UNCHANGED <<store, given, up>>

\* All rows, of one moment; the kind of the reply is left open.
ServeAll(c, kind) ==
    /\ asked[c].method = "GET" /\ asked[c].id = 0
    /\ Gives(c, kind, store)
    /\ UNCHANGED <<store, asked, up>>

ServeOne(c) ==
    LET i == asked[c].id IN
    /\ asked[c].method = "GET" /\ i \in Id
    /\ IF store[i] # NoRow THEN Gives(c, "OK", Only(i, store)) ELSE Gives(c, "NOT_FOUND", NoRows)
    /\ UNCHANGED <<store, asked, up>>

ServeUpdate(c) ==
    LET i == asked[c].id IN
    /\ asked[c].method = "POST" /\ i \in Id /\ asked[c].body \in Value
    /\ IF store[i] # NoRow
       THEN store' = [store EXCEPT ![i] = asked[c].body] /\ Gives(c, "OK", NoRows)
       ELSE UNCHANGED store /\ Gives(c, "NOT_FOUND", NoRows)
    /\ UNCHANGED <<asked, up>>

ServeInsert(c, i) ==
    /\ asked[c].method = "POST" /\ asked[c].id = 0 /\ asked[c].body \in Value
    /\ store[i] = NoRow
    /\ store' = [store EXCEPT ![i] = asked[c].body]
    /\ Gives(c, "OK", NoRows)
    /\ UNCHANGED <<asked, up>>

ServeDelete(c) ==
    LET i == asked[c].id IN
    /\ asked[c].method = "DELETE" /\ i \in Id
    /\ store' = [store EXCEPT ![i] = NoRow]
    /\ IF store[i] # NoRow THEN Gives(c, "OK", NoRows) ELSE Gives(c, "NOT_FOUND", NoRows)
    /\ UNCHANGED <<asked, up>>

\* What makes no sense is refused; so may be a POST whose body was not read well.
Refuse(c) ==
    /\ \/ asked[c].method = "POST"
       \/ asked[c].method = "other"
       \/ asked[c].id = -1
       \/ asked[c].method = "DELETE" /\ asked[c].id = 0
    /\ Gives(c, "BAD_REQUEST", NoRows)
    /\ UNCHANGED <<store, asked, up>>

Serve(c) ==
    /\ asked[c] # NoRequest
    /\ given[c] = NoReply
    /\ \/ \E kind \in Kinds : ServeAll(c, kind)
       \/ ServeOne(c)
       \/ ServeUpdate(c)
       \/ \E i \in Id : ServeInsert(c, i)
       \/ ServeDelete(c)
       \/ Refuse(c)

\* A client goes with its reply; clients may go without one only once the server
\* has been stopped.
Leave(C) ==
    /\ up => \A c \in C : given[c] # NoReply
    /\ asked' = [c \in Conn |-> IF c \in C THEN NoRequest ELSE asked[c]]
    /\ given' = [c \in Conn |-> IF c \in C THEN NoReply ELSE given[c]]
    /\ UNCHANGED <<store, up>>

GoDown ==
    /\ up' = FALSE
    /\ UNCHANGED <<store, asked, given>>

StoreNext ==
    \/ \E c \in Conn : Serve(c) \/ \E q \in Requests : Ask(c, q)
    \/ \E C \in SUBSET Conn : Leave(C)
    \/ GoDown

StoreSpec == StoreInit /\ [][StoreNext]_svars
=============================================================================
