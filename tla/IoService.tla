----------------------------- MODULE IoService -----------------------------
(***************************************************************************)
(* The event loop of supertel/lib/io-service.c: one thread, an epoll set,  *)
(* a lookup table of jobs and a semaphore eventfd through which the API    *)
(* functions ask the loop to bring the epoll set up to date.               *)
(*                                                                         *)
(* The API functions run either outside io_service_run or inside a job it  *)
(* calls, so they interleave with the loop only at those places; readiness *)
(* of descriptors changes at any time.                                     *)
(***************************************************************************)
EXTENDS Integers

CONSTANTS
    Fd,         \* descriptors (numbers, which are reused after a close)
    MaxNotify   \* bound on the eventfd counter

ASSUME MaxNotifyAssumption == MaxNotify \in Nat

READ  == "read"
WRITE == "write"
Op == {READ, WRITE}

VARIABLES
    allow_new,
    running,
    event_fd,       \* value of the semaphore eventfd
    lookup_table,   \* descriptors that have a lookup_job_element
    events,         \* lje->event.events, {} for a descriptor not in the table
    job,            \* operations whose lje->job[op].job is not NULL
    oneshot,        \* operations whose lje->job[op].oneshot is set
    added,          \* descriptors in the epoll set
    mask,           \* the epoll set's mask of each, {} when not added
    open,           \* descriptors that are open
    ready,          \* pairs <<fd, op>> the kernel would report
    pc,             \* "out" of run, at the "wait", in "disp"atch, in a "call"
    cur_fd,         \* the event being dispatched: its descriptor (a singleton),
    cur_ops,        \* its operations not dispatched yet,
    cur_op          \* and the operation whose job runs (a singleton)

api  == <<allow_new, running, event_fd>>
tbl  == <<lookup_table, events, job, oneshot>>
poll == <<added, mask>>
env  == <<open, ready>>
cur  == <<cur_fd, cur_ops, cur_op>>
loop == <<pc, cur_fd, cur_ops, cur_op>>
vars == <<allow_new, running, event_fd, lookup_table, events, job, oneshot,
          added, mask, open, ready, pc, cur_fd, cur_ops, cur_op>>

NoEvent == cur_fd = {} /\ cur_ops = {} /\ cur_op = {}

TypeOK ==
    /\ allow_new \in BOOLEAN /\ running \in BOOLEAN
    /\ event_fd \in Nat
    /\ lookup_table \in SUBSET Fd
    /\ events \in [Fd -> SUBSET Op]
    /\ job \in [Fd -> SUBSET Op]
    /\ oneshot \in [Fd -> SUBSET Op]
    /\ added \in SUBSET Fd
    /\ mask \in [Fd -> SUBSET Op]
    /\ open \in SUBSET Fd
    /\ ready \in SUBSET (Fd \X Op)
    /\ pc \in {"out", "wait", "disp", "call"}
    /\ cur_fd \in SUBSET Fd /\ cur_ops \in SUBSET Op /\ cur_op \in SUBSET Op

Init ==
    /\ allow_new = TRUE
    /\ running = FALSE
    /\ event_fd = 0
    /\ lookup_table = {}
    /\ events = [fd \in Fd |-> {}]
    /\ job = [fd \in Fd |-> {}]
    /\ oneshot = [fd \in Fd |-> {}]
    /\ added = {}
    /\ mask = [fd \in Fd |-> {}]
    /\ open = {}
    /\ ready = {}
    /\ pc = "out"
    /\ NoEvent

-----------------------------------------------------------------------------
(* The API.  It is called where client code runs.                          *)

InClient == pc \in {"out", "call"}

notify_svc == event_fd < MaxNotify /\ event_fd' = event_fd + 1

\* Faulty variants, which the properties tell from the code: the loop is not
\* notified, and a stopped service takes new jobs.
post_job_silent(fd, op, once) ==
    /\ InClient /\ fd \in open /\ allow_new /\ op \notin job[fd]
    /\ lookup_table' = lookup_table \cup {fd}
    /\ events' = [events EXCEPT ![fd] = @ \cup {op}]
    /\ job' = [job EXCEPT ![fd] = @ \cup {op}]
    /\ oneshot' = [oneshot EXCEPT ![fd] = IF once THEN @ \cup {op} ELSE @ \ {op}]
    /\ UNCHANGED <<api, poll, env, loop>>

post_job_stopped(fd, op, once) ==
    /\ InClient /\ fd \in open /\ op \notin job[fd]
    /\ lookup_table' = lookup_table \cup {fd}
    /\ events' = [events EXCEPT ![fd] = @ \cup {op}]
    /\ job' = [job EXCEPT ![fd] = @ \cup {op}]
    /\ oneshot' = [oneshot EXCEPT ![fd] = IF once THEN @ \cup {op} ELSE @ \ {op}]
    /\ IF running THEN notify_svc ELSE UNCHANGED event_fd
    /\ UNCHANGED <<allow_new, running, poll, env, loop>>

\* A slot that already has a job keeps it: the call then changes nothing but,
\* possibly, the table.  (A descriptor whose slot is taken is in the table.)
io_service_post_job(fd, op, once) ==
    /\ InClient
    /\ fd \in open
    /\ allow_new
    /\ op \notin job[fd]
    /\ lookup_table' = lookup_table \cup {fd}
    /\ events' = [events EXCEPT ![fd] = @ \cup {op}]
    /\ job' = [job EXCEPT ![fd] = @ \cup {op}]
    /\ oneshot' = [oneshot EXCEPT ![fd] = IF once THEN @ \cup {op} ELSE @ \ {op}]
    /\ IF running THEN notify_svc ELSE UNCHANGED event_fd
    /\ UNCHANGED <<allow_new, running, poll, env, loop>>

\* Faulty variant: the event mask of the element is not brought up to date.
remove_job_keeps_event(fd, op) ==
    /\ InClient /\ op \in job[fd]
    /\ job' = [job EXCEPT ![fd] = @ \ {op}]
    /\ IF running THEN notify_svc ELSE UNCHANGED event_fd
    /\ UNCHANGED <<allow_new, running, lookup_table, events, oneshot, poll, env, loop>>

\* The element stays in the table, and its oneshot flag stays as it was.
io_service_remove_job(fd, op) ==
    /\ InClient
    /\ op \in job[fd]
    /\ events' = [events EXCEPT ![fd] = @ \ {op}]
    /\ job' = [job EXCEPT ![fd] = @ \ {op}]
    /\ IF running THEN notify_svc ELSE UNCHANGED event_fd
    /\ UNCHANGED <<allow_new, running, lookup_table, oneshot, poll, env, loop>>

io_service_stop(wait_pending) ==
    /\ InClient
    /\ allow_new' = FALSE
    /\ running' = wait_pending
    /\ notify_svc
    /\ UNCHANGED <<tbl, poll, env, loop>>

-----------------------------------------------------------------------------
(* io_service_run.                                                         *)

\* Entry: everything in the table is added to the epoll set.  The kernel
\* refuses closed descriptors and those that are in the set already.
Run ==
    /\ pc = "out"
    /\ LET new == (lookup_table \cap open) \ added IN
       /\ added' = added \cup new
       /\ mask' = [fd \in Fd |-> IF fd \in new THEN events[fd] ELSE mask[fd]]
    /\ running' = TRUE
    /\ pc' = "wait"
    /\ UNCHANGED <<allow_new, event_fd, tbl, env, cur>>

\* Faulty variant: the loop is left only when no job is pending.
Leave_when_empty ==
    /\ pc = "wait" /\ ~running /\ lookup_table = {}
    /\ pc' = "out"
    /\ UNCHANGED <<api, tbl, poll, env, cur>>

\* The loop's condition fails.
Leave ==
    /\ pc = "wait"
    /\ ~running
    /\ pc' = "out"
    /\ UNCHANGED <<api, tbl, poll, env, cur>>

\* Faulty variant: a purged descriptor stays in the epoll set.
Notified_leaks ==
    /\ pc = "wait" /\ running /\ event_fd > 0
    /\ event_fd' = event_fd - 1
    /\ lookup_table' = {fd \in lookup_table : events[fd] # {}}
    /\ UNCHANGED <<allow_new, running, events, job, oneshot, poll, env, loop>>

\* epoll_wait reports the eventfd: purge the elements left without events,
\* bring the mask of the others up to date.  The table is tested for
\* emptiness before it is purged.
Notified ==
    /\ pc = "wait" /\ running
    /\ event_fd > 0
    /\ event_fd' = event_fd - 1
    /\ running' = ~(lookup_table = {} /\ ~allow_new)
    /\ LET purged == {fd \in lookup_table : events[fd] = {}}
           kept   == lookup_table \ purged
       IN /\ lookup_table' = kept
          /\ oneshot' = [fd \in Fd |-> IF fd \in kept THEN oneshot[fd] ELSE {}]
          /\ added' = (added \ purged) \cup (kept \cap open)
          /\ mask' = [fd \in Fd |->
                        IF fd \in kept \cap open THEN events[fd]
                        ELSE IF fd \in purged THEN {} ELSE mask[fd]]
    /\ UNCHANGED <<allow_new, events, job, env, loop>>

Reported(fd) == {op \in mask[fd] : <<fd, op>> \in ready}

\* epoll_wait reports a descriptor, with every operation that is ready.
Fetch(fd) ==
    /\ pc = "wait" /\ running
    /\ fd \in added
    /\ Reported(fd) # {}
    /\ pc' = "disp"
    /\ cur_fd' = {fd} /\ cur_ops' = Reported(fd) /\ cur_op' = {}
    /\ UNCHANGED <<api, tbl, poll, env>>

\* Where the loop over the operations goes when those in ops are left.
Resume(fd, ops) ==
    /\ pc' = IF ops = {} THEN "wait" ELSE "disp"
    /\ cur_fd' = IF ops = {} THEN {} ELSE {fd}
    /\ cur_ops' = ops
    /\ cur_op' = {}

\* The operation the loop reaches next: reading before writing.
NextOp(op) == op \in cur_ops /\ (op = WRITE => READ \notin cur_ops)

\* One round of that loop.  The oneshot flag is looked at even when the slot
\* is empty.  A slot with a job has it called; for an empty slot the mask is
\* corrected, which does nothing once the descriptor has left the epoll set.
Dispatch(fd, op) ==
    /\ pc = "disp"
    /\ cur_fd = {fd}
    /\ NextOp(op)
    /\ IF fd \in lookup_table
       THEN LET once  == op \in oneshot[fd]
                left  == IF once THEN events[fd] \ {op} ELSE events[fd]
                drop  == once /\ left = {}
                found == op \in job[fd]
            IN /\ events' = [events EXCEPT ![fd] = left]
               /\ job' = [job EXCEPT ![fd] = IF once THEN @ \ {op} ELSE @]
               /\ oneshot' = [oneshot EXCEPT ![fd] = IF drop THEN {} ELSE @]
               /\ lookup_table' = IF drop THEN lookup_table \ {fd} ELSE lookup_table
               /\ added' = IF drop THEN added \ {fd} ELSE added
               /\ mask' = [mask EXCEPT ![fd] =
                             IF drop THEN {}
                             ELSE IF ~found /\ fd \in added THEN left ELSE @]
               /\ IF found
                  THEN /\ pc' = "call"
                       /\ cur_ops' = cur_ops \ {op}
                       /\ cur_op' = {op}
                       /\ UNCHANGED cur_fd
                  ELSE Resume(fd, cur_ops \ {op})
       ELSE Resume(fd, cur_ops \ {op}) /\ UNCHANGED <<tbl, poll>>
    /\ UNCHANGED <<api, env>>

\* The job returns to the loop over the operations.
JobReturns(fd) ==
    /\ pc = "call"
    /\ cur_fd = {fd}
    /\ Resume(fd, cur_ops)
    /\ UNCHANGED <<api, tbl, poll, env>>

-----------------------------------------------------------------------------
(* The kernel and the clients' use of it.                                  *)

\* The lowest free number is handed out again, here any that is free.
OpenFd(fd) ==
    /\ InClient
    /\ fd \notin open
    /\ open' = open \cup {fd}
    /\ UNCHANGED <<api, tbl, poll, ready, loop>>

\* Closing removes a descriptor from the epoll set.  Clients take their jobs
\* away first, as timer_deinit does.
CloseFd(fd) ==
    /\ InClient
    /\ fd \in open
    /\ job[fd] = {}
    /\ open' = open \ {fd}
    /\ ready' = ready \ ({fd} \X Op)
    /\ added' = added \ {fd}
    /\ mask' = [mask EXCEPT ![fd] = {}]
    /\ UNCHANGED <<api, tbl, loop>>

BecomeReady(fd, op) ==
    /\ fd \in open
    /\ <<fd, op>> \notin ready
    /\ ready' = ready \cup {<<fd, op>>}
    /\ UNCHANGED <<api, tbl, poll, open, loop>>

\* A job reads or writes its descriptor until it would block.
Drain(fd, op) ==
    /\ InClient
    /\ <<fd, op>> \in ready
    /\ ready' = ready \ {<<fd, op>>}
    /\ UNCHANGED <<api, tbl, poll, open, loop>>

-----------------------------------------------------------------------------
Api ==
    \/ \E fd \in Fd, op \in Op, once \in BOOLEAN : io_service_post_job(fd, op, once)
    \/ \E fd \in Fd, op \in Op : io_service_remove_job(fd, op)
    \/ \E w \in BOOLEAN : io_service_stop(w)

Loop ==
    \/ Leave
    \/ Notified
    \/ \E fd \in Fd : Fetch(fd)
    \/ \E fd \in Fd, op \in Op : Dispatch(fd, op)

Kernel ==
    \/ \E fd \in Fd : OpenFd(fd) \/ CloseFd(fd)
    \/ \E fd \in Fd, op \in Op : BecomeReady(fd, op) \/ Drain(fd, op)

Next ==
    \/ Api
    \/ Run
    \/ Loop
    \/ \E fd \in Fd : JobReturns(fd)
    \/ Kernel

Spec == Init /\ [][Next]_vars

\* The loop keeps running, jobs return, and the kernel's ready list is a
\* queue: with one event fetched at a time (maxevents = 1) and level-triggered
\* entries requeued at its tail, no descriptor that stays ready is starved.
FairSpec ==
    /\ Spec
    /\ WF_vars(Leave)
    /\ SF_vars(Notified)
    /\ \A fd \in Fd :
        /\ SF_vars(Fetch(fd))
        /\ WF_vars(JobReturns(fd))
        /\ \A op \in Op : WF_vars(Dispatch(fd, op))

-----------------------------------------------------------------------------
(* Properties.                                                             *)

\* No registration is lost (post_job's notify, the purge and refresh of run):
\* while the loop is active, an operation with a job is in the mask epoll
\* has for its descriptor, or a notification is pending that will put it
\* there.  Posts from jobs, removals, closed and reused descriptor numbers
\* and the purge of one-shot jobs all have to cooperate for this.
NoLostRegistration ==
    pc # "out" =>
        \A fd \in Fd : \A op \in job[fd] : op \in mask[fd] \/ event_fd > 0

\* The epoll set never holds a descriptor the lookup table does not know
\* (the deletions in run): its events would be fetched again and again
\* without anything ever being called or corrected.
NoOrphanInterest == added \subseteq lookup_table

\* The element the loop purges, or keeps out of the epoll mask, is one without
\* jobs: the event mask of an element and its job slots always agree.
EventsMatchJobs ==
    \A fd \in Fd :
        /\ events[fd] = job[fd]
        /\ fd \notin lookup_table => events[fd] = {} /\ oneshot[fd] = {}

\* The inductive strengthening of the three invariants above.  Only open
\* descriptors have jobs or are in the epoll set ...
OnlyOpen ==
    /\ added \subseteq open
    /\ \A fd \in Fd : job[fd] # {} => fd \in open
    /\ \A fd \in Fd : fd \notin added => mask[fd] = {}

\* ... the epoll set is empty until run is first called, a loop told to stop
\* accepts no jobs, and nothing is missing from the mask of a descriptor that
\* is still in the epoll set when run is called again.
Phases ==
    /\ pc = "out" /\ allow_new => added = {}
    /\ pc # "out" /\ ~running => ~allow_new
    /\ \A fd \in added : \A op \in job[fd] : op \in mask[fd] \/ event_fd > 0

IInv ==
    /\ TypeOK
    /\ EventsMatchJobs
    /\ NoOrphanInterest
    /\ NoLostRegistration
    /\ OnlyOpen
    /\ Phases

\* io-service.c keeps the promise of JobRegistry: a job runs only while it is
\* registered, once per post when it is one-shot, and none is registered after
\* a stop, whatever the loop has fetched before a job changed the table.
Registry == INSTANCE JobRegistry WITH
    once <- {s \in Fd \X Op : s[2] \in job[s[1]] \cap oneshot[s[1]]},
    many <- {s \in Fd \X Op : s[2] \in job[s[1]] \ oneshot[s[1]]},
    called <- IF pc = "call" THEN cur_fd \X cur_op ELSE {},
    accepting <- allow_new

KeepsRegistry == Registry!RegSpec

\* A job whose descriptor stays ready is called (run): it is not registered
\* and ready for ever without being called, unless the loop has been left.
Calling(fd, op) == pc = "call" /\ cur_fd = {fd} /\ cur_op = {op}

ReadyJobIsCalled ==
    \A fd \in Fd, op \in Op :
        []<>(\/ ~(op \in job[fd] /\ <<fd, op>> \in ready)
             \/ Calling(fd, op)
             \/ pc = "out")

\* io_service_stop(iosvc, false) makes run return, unless a later stop that
\* waits for pending jobs takes it back.
StopReturns == []<>(running \/ pc = "out")
=============================================================================
