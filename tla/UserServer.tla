----------------------------- MODULE UserServer -----------------------------
(***************************************************************************)
(* The server of satellite-soft-labs: handlers on a pool of threads put    *)
(* requests and connections into two parallel queues (src/Server.cpp), one *)
(* thread serves them from a cache in front of the database                *)
(* (src/Database.cpp, include/Cache.hpp), and the replies are sent from    *)
(* the pool again.  The main thread works in the pool too, as it runs the  *)
(* same io_service.                                                        *)
(*                                                                         *)
(* The state begins after Connect and the start of RunServer.  Failure of  *)
(* a transaction ends the process: commit throws in the database thread,   *)
(* where nothing catches.                                                  *)
(***************************************************************************)
EXTENDS Integers, Sequences, FiniteSets

CONSTANTS
    Conn, Id, Value,    \* see UserStore
    Asks,               \* the requests clients make
    PoolThreads         \* THREADS_COUNT

VARIABLES
    req,                \* connection -> the request of its client
    phase,              \* connection -> how far the request has come
    onMain,             \* connections whose handler blocks the main thread
    m_request_queue,
    m_connection_queue,
    thread,             \* the database thread: "wait", "exec" or "end"
    request, co,        \* its request and, a singleton, its connection
    table,              \* the table in the database
    m_isValid, m_cached_values,
    m_kind,             \* m_dbreply.m_kind
    reply,              \* connection -> the reply to be sent
    stage               \* "run", "stopping", "joined", "interrupted", "off",
                        \* or "terminated" by an exception

Store == INSTANCE UserStore WITH
    store <- table, asked <- req, given <- reply, up <- stage = "run"

ASSUME ServerAssumption ==
    /\ Id \subseteq Nat \ {0} /\ IsFiniteSet(Id)
    /\ Asks \subseteq Store!Requests
    /\ Value \cap {Store!NoRow, "none", "bad"} = {}
    /\ PoolThreads \in Nat

NoRow == Store!NoRow
NoRows == Store!NoRows

pool   == <<req, phase, onMain>>
queues == <<m_request_queue, m_connection_queue>>
dbt    == <<thread, request, co>>
data   == <<table, m_isValid, m_cached_values, m_kind>>
vars   == <<req, phase, onMain, m_request_queue, m_connection_queue, thread, request, co,
            table, m_isValid, m_cached_values, m_kind, reply, stage>>

\* A request as the handlers put it into the queue; value is NoRow unless the
\* body of a POST gave all three names.
DBRequests == [type : {"GET", "POST", "DELETE", "INVALID"}, id : Id \cup {0}, value : Value \cup {NoRow}]
DBRequest(type, id, value) == [type |-> type, id |-> id, value |-> value]
Invalid == DBRequest("INVALID", 0, NoRow)

Init ==
    /\ req = [c \in Conn |-> Store!NoRequest]
    /\ phase = [c \in Conn |-> "none"]
    /\ onMain = {}
    /\ m_request_queue = <<>>
    /\ m_connection_queue = <<>>
    /\ thread = "wait"
    /\ request = Invalid
    /\ co = {}
    /\ table \in Store!Tables
    /\ m_isValid = FALSE
    /\ m_cached_values = NoRows
    /\ m_kind = "OK"                \* zero, as the Database object is static
    /\ reply = [c \in Conn |-> Store!NoReply]
    /\ stage = "run"

-----------------------------------------------------------------------------
(* Handlers, on threads of the pool.                                       *)

PoolRuns == stage \in {"run", "stopping"}

Blocked == {c \in Conn : phase[c] \in {"body", "stuck"}}
PoolHasThread == Cardinality(Blocked \ onMain) < PoolThreads
HasThread == PoolRuns /\ (onMain = {} \/ PoolHasThread)

\* The rows the table may come to have.  Bounds the table: no client asks for an
\* insertion there is no id for.
Inserts == {c \in Conn : req[c].method = "POST" /\ req[c].id = 0}
RoomForInsert ==
    Cardinality(Inserts) + Cardinality({i \in Id : table[i] # NoRow}) < Cardinality(Id)

\* A client connects; the library posts the handler.
Accept(c, q) ==
    /\ stage = "run"
    /\ phase[c] = "none"
    /\ q.method = "POST" /\ q.id = 0 => RoomForInsert
    /\ req' = [req EXCEPT ![c] = q]
    /\ phase' = [phase EXCEPT ![c] = "posted"]
    /\ UNCHANGED <<onMain, queues, dbt, data, reply, stage>>

\* Faulty variant: the connections are stacked.
QueueRequest_lifo(c, r) ==
    /\ m_request_queue' = Append(m_request_queue, r)
    /\ m_connection_queue' = <<c>> \o m_connection_queue
    /\ phase' = [phase EXCEPT ![c] = "queued"]

QueueRequest(c, r) ==
    /\ m_request_queue' = Append(m_request_queue, r)
    /\ m_connection_queue' = Append(m_connection_queue, c)
    /\ phase' = [phase EXCEPT ![c] = "queued"]

HandleGetRequest(q) == IF q.id >= 0 THEN DBRequest("GET", q.id, NoRow) ELSE Invalid

HandleDeleteRequest(q) == IF q.id > 0 THEN DBRequest("DELETE", q.id, NoRow) ELSE Invalid

\* A POST waits for its body, unless its path or its length is no good.
WaitsForBody(q) == q.method = "POST" /\ q.id >= 0 /\ q.body # "none"

\* The rest of the handler of a POST, with the body that was read.
HandlePostRequest(q, body) == DBRequest("POST", q.id, IF body \in Value THEN body ELSE NoRow)

\* AsyncRequestHandler::operator(), to the end or to where it waits for the body.
Handle(c) ==
    LET q == req[c] IN
    /\ phase[c] = "posted"
    /\ HasThread
    /\ IF WaitsForBody(q)
       THEN /\ phase' = [phase EXCEPT ![c] = "body"]
            /\ \/ onMain = {} /\ onMain' = {c}
               \/ PoolHasThread /\ UNCHANGED onMain
            /\ UNCHANGED queues
       ELSE /\ QueueRequest(c, CASE q.method = "GET"    -> HandleGetRequest(q)
                                 [] q.method = "DELETE" -> HandleDeleteRequest(q)
                                 [] OTHER               -> Invalid)
            /\ UNCHANGED onMain
    /\ UNCHANGED <<req, dbt, data, reply, stage>>

\* ConnectionReadCallback counts the bytes with strlen, though nothing ends them:
\* it may find the body complete, as it was sent or spoilt, and the handler goes
\* on ...
ConnectionReadCallback(c) ==
    /\ phase[c] = "body"
    /\ HasThread
    /\ \E body \in {req[c].body, "bad"} : QueueRequest(c, HandlePostRequest(req[c], body))
    /\ onMain' = onMain \ {c}
    /\ UNCHANGED <<req, dbt, data, reply, stage>>

\* ... or incomplete: nothing reads on, so that the handler waits for ever.
BodyIncomplete(c) ==
    /\ phase[c] = "body"
    /\ HasThread
    /\ phase' = [phase EXCEPT ![c] = "stuck"]
    /\ UNCHANGED <<req, onMain, queues, dbt, data, reply, stage>>

\* ServerSendReply: sends the reply, or drops it once the server is stopping.
ServerSendReply(c) ==
    /\ phase[c] = "reply"
    /\ HasThread
    /\ phase' = [phase EXCEPT ![c] = "none"]
    /\ req' = [req EXCEPT ![c] = Store!NoRequest]
    /\ reply' = [reply EXCEPT ![c] = Store!NoReply]
    /\ UNCHANGED <<onMain, queues, dbt, data, stage>>

-----------------------------------------------------------------------------
(* The database thread.                                                    *)

DbRuns == stage \notin {"off", "terminated"}

\* Faulty variant: the last request is left in the queue.
TakeRequest_leaves_last ==
    /\ DbRuns
    /\ stage # "interrupted"
    /\ thread = "wait"
    /\ Len(m_request_queue) > 1
    /\ request' = Head(m_request_queue)
    /\ co' = {Head(m_connection_queue)}
    /\ m_request_queue' = Tail(m_request_queue)
    /\ m_connection_queue' = Tail(m_connection_queue)
    /\ phase' = [phase EXCEPT ![Head(m_connection_queue)] = "served"]
    /\ thread' = "exec"
    /\ UNCHANGED <<req, onMain, data, reply, stage>>

\* DoRequest takes a request and its connection from the queues.
TakeRequest ==
    /\ DbRuns
    /\ stage # "interrupted"
    /\ thread = "wait"
    /\ m_request_queue # <<>>
    /\ request' = Head(m_request_queue)
    /\ co' = {Head(m_connection_queue)}
    /\ m_request_queue' = Tail(m_request_queue)
    /\ m_connection_queue' = Tail(m_connection_queue)
    /\ phase' = [phase EXCEPT ![Head(m_connection_queue)] = "served"]
    /\ thread' = "exec"
    /\ UNCHANGED <<req, onMain, data, reply, stage>>

\* m_dbreply with its records is copied into the task that sends the reply.
Posts(kind, records) ==
    /\ m_kind' = kind
    /\ reply' = [c \in Conn |-> IF c \in co THEN Store!Reply(kind, records) ELSE reply[c]]

\* SetInvalid
InvalidateCache == m_isValid' = FALSE /\ m_cached_values' = NoRows

\* Faulty variant: an update leaves the cache as it is.
DoPostRequest_keeps_cache ==
    LET i == request.id IN
    /\ \/ /\ request.value = NoRow
          /\ Posts("BAD_REQUEST", NoRows)
          /\ UNCHANGED table
       \/ /\ request.value # NoRow /\ i > 0
          /\ table' = IF table[i] = NoRow THEN table ELSE [table EXCEPT ![i] = request.value]
          /\ Posts(IF table[i] = NoRow THEN "NOT_FOUND" ELSE "OK", NoRows)
       \/ /\ request.value # NoRow /\ i = 0
          /\ \E n \in Id : table[n] = NoRow /\ table' = [table EXCEPT ![n] = request.value]
          /\ Posts("OK", NoRows)
    /\ UNCHANGED <<m_isValid, m_cached_values>>

DoPostRequest ==
    LET i == request.id IN
    \/ /\ request.value = NoRow
       /\ Posts("BAD_REQUEST", NoRows)
       /\ UNCHANGED <<table, m_isValid, m_cached_values>>
    \/ /\ request.value # NoRow /\ i > 0
       /\ InvalidateCache
       /\ table' = IF table[i] = NoRow THEN table ELSE [table EXCEPT ![i] = request.value]
       /\ Posts(IF table[i] = NoRow THEN "NOT_FOUND" ELSE "OK", NoRows)
    \/ /\ request.value # NoRow /\ i = 0
       /\ InvalidateCache
       /\ \E n \in Id : table[n] = NoRow /\ table' = [table EXCEPT ![n] = request.value]
       /\ Posts("OK", NoRows)

\* A delete request that reaches the queue has an id.
DoDeleteRequest ==
    LET i == request.id IN
    /\ InvalidateCache
    /\ table' = [table EXCEPT ![i] = NoRow]
    /\ Posts(IF table[i] = NoRow THEN "NOT_FOUND" ELSE "OK", NoRows)

\* The cache is filled when it is not valid, and answers.  A request for all rows
\* does not set the kind of the reply.
DoGetRequest ==
    LET i == request.id
        cached == IF m_isValid THEN m_cached_values ELSE table
    IN
    /\ m_isValid' = TRUE
    /\ m_cached_values' = cached
    /\ \/ i > 0 /\ cached[i] # NoRow /\ Posts("OK", Store!Only(i, cached))
       \/ i > 0 /\ cached[i] = NoRow /\ Posts("NOT_FOUND", NoRows)
       \/ i = 0 /\ Posts(m_kind, cached)
    /\ UNCHANGED table

\* The request is executed and the reply posted to the pool.
Execute ==
    /\ DbRuns
    /\ thread = "exec"
    /\ \/ request.type = "GET" /\ DoGetRequest
       \/ request.type = "POST" /\ DoPostRequest
       \/ request.type = "DELETE" /\ DoDeleteRequest
       \/ /\ request.type = "INVALID"
          /\ Posts("BAD_REQUEST", NoRows)
          /\ UNCHANGED <<table, m_isValid, m_cached_values>>
    /\ phase' = [c \in Conn |-> IF c \in co THEN "reply" ELSE phase[c]]
    /\ thread' = "wait"
    /\ co' = {}
    /\ request' = Invalid
    /\ UNCHANGED <<req, onMain, queues, stage>>

\* The transaction fails.
RequestFails ==
    /\ DbRuns
    /\ thread = "exec"
    /\ \/ request.type = "GET" /\ ~ m_isValid
       \/ request.type = "POST" /\ request.value # NoRow
       \/ request.type = "DELETE"
    /\ stage' = "terminated"
    /\ UNCHANGED <<pool, queues, dbt, data, reply>>

\* Faulty variant: an interruption is noticed only when there is nothing to do.
ThreadEnds_when_idle ==
    /\ stage = "interrupted"
    /\ thread = "wait"
    /\ m_request_queue = <<>>
    /\ thread' = "end"
    /\ UNCHANGED <<pool, queues, request, co, data, reply, stage>>

\* An interruption ends the wait, and the loop.
ThreadEnds ==
    /\ stage = "interrupted"
    /\ thread = "wait"
    /\ thread' = "end"
    /\ UNCHANGED <<pool, queues, request, co, data, reply, stage>>

-----------------------------------------------------------------------------
(* The end of the server, in the main thread.                              *)

Signal_INT_TERM_handler ==
    /\ stage = "run"
    /\ HasThread
    /\ stage' = "stopping"
    /\ UNCHANGED <<pool, queues, dbt, data, reply>>

\* The library's run returns to RunServer, which interrupts and joins the threads of
\* the pool.  What they have not done is never done.
RunServerReturns ==
    /\ stage = "stopping"
    /\ onMain = {}
    /\ stage' = "joined"
    /\ LET Lost == {c \in Conn : phase[c] \in {"posted", "body", "stuck", "reply"}} IN
       /\ phase' = [c \in Conn |-> IF c \in Lost THEN "none" ELSE phase[c]]
       /\ req' = [c \in Conn |-> IF c \in Lost THEN Store!NoRequest ELSE req[c]]
       /\ reply' = [c \in Conn |-> IF c \in Lost THEN Store!NoReply ELSE reply[c]]
    /\ UNCHANGED <<onMain, queues, dbt, data>>

\* Disconnect interrupts the database thread ...
DisconnectInterrupts ==
    /\ stage = "joined"
    /\ stage' = "interrupted"
    /\ UNCHANGED <<pool, queues, dbt, data, reply>>

\* ... and empties the queues when that has ended.
DisconnectJoins ==
    /\ stage = "interrupted"
    /\ thread = "end"
    /\ stage' = "off"
    /\ m_request_queue' = <<>>
    /\ m_connection_queue' = <<>>
    /\ phase' = [c \in Conn |-> "none"]
    /\ req' = [c \in Conn |-> Store!NoRequest]
    /\ reply' = [c \in Conn |-> Store!NoReply]
    /\ UNCHANGED <<onMain, dbt, data>>

-----------------------------------------------------------------------------

Ending == RunServerReturns \/ DisconnectInterrupts \/ ThreadEnds \/ DisconnectJoins

Next ==
    \/ \E c \in Conn :
          \/ \E q \in Asks : Accept(c, q)
          \/ Handle(c)
          \/ ConnectionReadCallback(c)
          \/ BodyIncomplete(c)
          \/ ServerSendReply(c)
    \/ TakeRequest
    \/ Execute
    \/ RequestFails
    \/ Signal_INT_TERM_handler
    \/ Ending

Spec == Init /\ [][Next]_vars

\* Threads that can go on do.  Neither clients nor signals have to come.
FairSpec ==
    /\ Spec
    /\ \A c \in Conn : WF_vars(Handle(c)) /\ WF_vars(ServerSendReply(c))
    /\ WF_vars(TakeRequest)
    /\ WF_vars(Execute)
    /\ WF_vars(Ending)

-----------------------------------------------------------------------------
(* Properties.                                                             *)

\* Clients see the table as if there were neither threads nor a cache: whatever
\* is queued, executed, cached and replied at the same time, each connection is
\* given the reply to its own request, taken from the table at one moment between
\* the request and the reply, and none is left without while the server is up.
ServesUsers == Store!StoreSpec

\* A valid cache is the table (SetInvalid before every change of the table); an
\* invalid one is empty, so that refilling it adds no row twice.
CacheCoherent == m_cached_values = IF m_isValid THEN table ELSE NoRows

\* A request in the queue is answered while the server runs, unless all threads
\* of the pool wait for bodies again and again.
Answered ==
    \A c \in Conn :
        []<>(\/ phase[c] \notin {"queued", "served", "reply"}
             \/ stage # "run"
             \/ ~ HasThread)

\* After a signal the program ends, unless the main thread waits for the body of
\* a POST.
Ends == (stage = "stopping") ~> (stage \in {"off", "terminated"} \/ onMain # {})
=============================================================================
