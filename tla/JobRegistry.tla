---------------------------- MODULE JobRegistry ----------------------------
(***************************************************************************)
(* What the IO service of supertel/lib promises its clients.  At most one  *)
(* job is registered for a descriptor and an operation; a job is called    *)
(* only while it is registered; a one-shot job is unregistered by the very *)
(* step that calls it; once the service is stopped nothing new is          *)
(* registered.  The epoll set, the lookup table and the eventfd, by which  *)
(* io-service.c keeps this promise, do not appear here.                    *)
(***************************************************************************)

CONSTANTS Fd, Op

VARIABLES
    once,       \* registered one-shot jobs, as pairs <<fd, op>>
    many,       \* registered jobs that stay registered when called
    called,     \* the job being run, as a singleton, or the empty set
    accepting   \* new jobs are accepted

regVars == <<once, many, called, accepting>>

Slots == Fd \X Op

RegInit ==
    /\ once = {}
    /\ many = {}
    /\ called = {}
    /\ accepting = TRUE

\* A free slot takes the job; a post to a taken slot changes nothing.
Register(s, oneshot) ==
    /\ accepting
    /\ s \notin once \cup many
    /\ once' = IF oneshot THEN once \cup {s} ELSE once
    /\ many' = IF oneshot THEN many ELSE many \cup {s}
    /\ UNCHANGED <<called, accepting>>

Unregister(s) ==
    /\ once' = once \ {s}
    /\ many' = many \ {s}
    /\ UNCHANGED <<called, accepting>>

Call(s) ==
    /\ called = {}
    /\ s \in once \cup many
    /\ called' = {s}
    /\ once' = once \ {s}
    /\ UNCHANGED <<many, accepting>>

Return ==
    /\ called' = {}
    /\ UNCHANGED <<once, many, accepting>>

Close ==
    /\ accepting' = FALSE
    /\ UNCHANGED <<once, many, called>>

RegNext ==
    \/ \E s \in Slots, oneshot \in BOOLEAN : Register(s, oneshot)
    \/ \E s \in Slots : Unregister(s) \/ Call(s)
    \/ Return
    \/ Close

RegSpec == RegInit /\ [][RegNext]_regVars
=============================================================================
