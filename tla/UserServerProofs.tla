-------------------------- MODULE UserServerProofs --------------------------
(***************************************************************************)
(* UserServer implements UserStore, for any number of connections, rows    *)
(* and values: with the cache, the two queues and the threads of the pool, *)
(* every reply is the one that the table gives to the request of its       *)
(* connection.                                                             *)
(*                                                                         *)
(* Whether a reply reaches the connection that asked depends on the two    *)
(* queues staying parallel; whether it is right, on the cache.  Both are   *)
(* in the inductive invariant.                                             *)
(***************************************************************************)
EXTENDS UserServer, TLAPS

\* r is what the handlers make of the request q.
Matches(r, q) ==
    /\ r \in DBRequests
    /\ \/ q.method = "GET" /\ r = HandleGetRequest(q)
       \/ q.method = "DELETE" /\ r = HandleDeleteRequest(q)
       \/ q.method \in {"POST", "other"} /\ r = Invalid
       \/ WaitsForBody(q) /\ \E body \in {q.body, "bad"} : r = HandlePostRequest(q, body)

Phases == {"none", "posted", "body", "stuck", "queued", "served", "reply"}

Types ==
    /\ req \in [Conn -> Asks \cup {Store!NoRequest}]
    /\ phase \in [Conn -> Phases]
    /\ reply \in [Conn -> [kind : Store!Kinds \cup {"none"}, records : Store!Tables]]
    /\ m_request_queue \in Seq(DBRequests)
    /\ m_connection_queue \in Seq(Conn)
    /\ thread \in {"wait", "exec", "end"}
    /\ table \in Store!Tables
    /\ m_isValid \in BOOLEAN
    /\ m_kind \in Store!Kinds

\* The queues are parallel, and a connection is in them at most once.
Parallel ==
    /\ Len(m_request_queue) = Len(m_connection_queue)
    /\ \A i \in 1 .. Len(m_connection_queue) :
          /\ phase[m_connection_queue[i]] = "queued"
          /\ Matches(m_request_queue[i], req[m_connection_queue[i]])
    /\ \A i, j \in 1 .. Len(m_connection_queue) :
          m_connection_queue[i] = m_connection_queue[j] => i = j

\* The database thread has the connection of its request.
InHand ==
    IF thread = "exec"
    THEN \E c \in Conn : co = {c} /\ phase[c] = "served" /\ Matches(request, req[c])
    ELSE co = {}

\* How far a request has come, and what there is of it.
PhaseFits ==
    \A c \in Conn :
        /\ phase[c] = "none" <=> req[c] = Store!NoRequest
        /\ phase[c] = "reply" <=> reply[c] # Store!NoReply
        /\ phase[c] = "body" => WaitsForBody(req[c])

IInv == Types /\ CacheCoherent /\ Parallel /\ InHand /\ PhaseFits

-----------------------------------------------------------------------------
(* The handlers.                                                           *)

\* What a request is when it has not waited for a body.
AtOnce(q) ==
    CASE q.method = "GET"    -> HandleGetRequest(q)
      [] q.method = "DELETE" -> HandleDeleteRequest(q)
      [] OTHER               -> Invalid

\* The handlers make requests that match.
LEMMA HandlersMatch ==
    ASSUME NEW q \in Asks
    PROVE  /\ Matches(AtOnce(q), q)
           /\ WaitsForBody(q) =>
                 \A body \in {q.body, "bad"} : Matches(HandlePostRequest(q, body), q)
<1>1. /\ q.method \in {"GET", "POST", "DELETE", "other"}
      /\ q.id \in Id \cup {0, -1}
  BY ServerAssumption DEF Store!Requests
<1>2. \A i \in Id : i \in Nat /\ i > 0
  BY ServerAssumption
<1>3. Invalid \in DBRequests
  BY DEF Invalid, DBRequest, DBRequests, NoRow
<1>4. q.method = "GET" => HandleGetRequest(q) \in DBRequests
  BY <1>1, <1>2, <1>3 DEF HandleGetRequest, DBRequest, DBRequests
<1>5. q.method = "DELETE" => HandleDeleteRequest(q) \in DBRequests
  BY <1>1, <1>2, <1>3 DEF HandleDeleteRequest, DBRequest, DBRequests
<1>6. WaitsForBody(q) => \A body : HandlePostRequest(q, body) \in DBRequests
  BY <1>1, <1>2 DEF WaitsForBody, HandlePostRequest, DBRequest, DBRequests
<1>7. Matches(AtOnce(q), q)
  <2>1. CASE q.method = "GET"
    BY <2>1, <1>4 DEF Matches, AtOnce
  <2>2. CASE q.method = "DELETE"
    BY <2>2, <1>5 DEF Matches, AtOnce
  <2>3. CASE q.method \in {"POST", "other"}
    BY <2>3, <1>3 DEF Matches, AtOnce
  <2> QED
    BY <2>1, <2>2, <2>3, <1>1
<1> QED
  BY <1>6, <1>7 DEF Matches

\* Putting a request into the queues keeps them parallel.
LEMMA QueueParallel ==
    ASSUME IInv, NEW c \in Conn, NEW r, QueueRequest(c, r), Matches(r, req[c]),
           phase[c] # "queued", req' = req
    PROVE  Parallel' /\ m_request_queue' \in Seq(DBRequests) /\ m_connection_queue' \in Seq(Conn)
<1> DEFINE n == Len(m_connection_queue)
<1>1. /\ m_request_queue \in Seq(DBRequests) /\ m_connection_queue \in Seq(Conn)
      /\ Len(m_request_queue) = n /\ phase \in [Conn -> Phases]
      /\ n \in Nat /\ r \in DBRequests
  BY DEF IInv, Types, Parallel, Matches
<1>2. /\ m_request_queue' = Append(m_request_queue, r)
      /\ m_connection_queue' = Append(m_connection_queue, c)
      /\ phase' = [phase EXCEPT ![c] = "queued"]
  BY DEF QueueRequest
<1>3. /\ m_request_queue' \in Seq(DBRequests) /\ Len(m_request_queue') = n + 1
      /\ m_connection_queue' \in Seq(Conn) /\ Len(m_connection_queue') = n + 1
  BY <1>1, <1>2
<1>4. /\ \A i \in 1 .. n : /\ m_request_queue'[i] = m_request_queue[i]
                          /\ m_connection_queue'[i] = m_connection_queue[i]
                          /\ m_connection_queue[i] \in Conn
      /\ m_request_queue'[n + 1] = r /\ m_connection_queue'[n + 1] = c
  BY <1>1, <1>2
<1>5. \A i \in 1 .. n : /\ phase[m_connection_queue[i]] = "queued"
                        /\ m_connection_queue[i] # c
                        /\ Matches(m_request_queue[i], req[m_connection_queue[i]])
  BY DEF IInv, Parallel
<1>6. \A i \in 1 .. n + 1 : i \in 1 .. n \/ i = n + 1
  BY <1>1
<1>7. \A i \in 1 .. n + 1 : /\ phase'[m_connection_queue'[i]] = "queued"
                            /\ Matches(m_request_queue'[i], req[m_connection_queue'[i]])
  <2> TAKE i \in 1 .. n + 1
  <2>1. CASE i \in 1 .. n
    BY <2>1, <1>1, <1>2, <1>4, <1>5
  <2>2. CASE i = n + 1
    BY <2>2, <1>1, <1>2, <1>4
  <2> QED
    BY <2>1, <2>2, <1>6
<1>8. \A i, j \in 1 .. n + 1 : m_connection_queue'[i] = m_connection_queue'[j] => i = j
  <2>1. \A i, j \in 1 .. n : m_connection_queue[i] = m_connection_queue[j] => i = j
    BY DEF IInv, Parallel
  <2> QED
    BY <2>1, <1>4, <1>5, <1>6
<1>9. \A i \in 1 .. n + 1 : Matches(m_request_queue[i], req[m_connection_queue[i]])'
  BY <1>7 DEF Matches
<1> QED
  BY <1>3, <1>7, <1>8, <1>9 DEF Parallel

\* A step that leaves the queues and the requests in them alone.
LEMMA FrameParallel ==
    ASSUME IInv, UNCHANGED queues,
           \A d \in Conn : phase[d] = "queued" => phase'[d] = "queued" /\ req'[d] = req[d]
    PROVE  Parallel' /\ m_request_queue' \in Seq(DBRequests) /\ m_connection_queue' \in Seq(Conn)
<1>1. /\ m_request_queue \in Seq(DBRequests) /\ m_connection_queue \in Seq(Conn)
      /\ m_request_queue' = m_request_queue /\ m_connection_queue' = m_connection_queue
  BY DEF IInv, Types, queues
<1>2. \A i \in 1 .. Len(m_connection_queue) :
          /\ m_connection_queue[i] \in Conn
          /\ phase[m_connection_queue[i]] = "queued"
          /\ Matches(m_request_queue[i], req[m_connection_queue[i]])
  BY <1>1 DEF IInv, Parallel
<1>3. \A i \in 1 .. Len(m_connection_queue) :
          /\ phase'[m_connection_queue[i]] = "queued"
          /\ Matches(m_request_queue[i], req'[m_connection_queue[i]])
  BY <1>2
<1> QED
  BY <1>1, <1>3 DEF IInv, Parallel

\* The database thread's request is still what its connection asked for.
LEMMA FrameInHand ==
    ASSUME IInv, UNCHANGED <<thread, request, co>>,
           \A d \in Conn : phase[d] = "served" => phase'[d] = "served" /\ req'[d] = req[d]
    PROVE  InHand'
  BY DEF IInv, InHand

-----------------------------------------------------------------------------
(* The steps of the pool.                                                  *)

LEMMA AcceptIInv ==
    ASSUME IInv, NEW c \in Conn, NEW q \in Asks, Accept(c, q)
    PROVE  IInv'
<1>1. /\ phase[c] = "none"
      /\ req' = [req EXCEPT ![c] = q]
      /\ phase' = [phase EXCEPT ![c] = "posted"]
      /\ UNCHANGED <<queues, dbt, data, reply>>
  BY DEF Accept
<1>2. q # Store!NoRequest
  BY ServerAssumption DEF Store!Requests, Store!NoRequest
<1>3. Parallel' /\ m_request_queue' \in Seq(DBRequests) /\ m_connection_queue' \in Seq(Conn)
  <2>1. \A d \in Conn : phase[d] = "queued" => phase'[d] = "queued" /\ req'[d] = req[d]
    BY <1>1 DEF IInv, Types
  <2> QED
    BY <1>1, <2>1, FrameParallel
<1>4. InHand'
  <2>1. \A d \in Conn : phase[d] = "served" => phase'[d] = "served" /\ req'[d] = req[d]
    BY <1>1 DEF IInv, Types
  <2> QED
    BY <1>1, <2>1, FrameInHand DEF dbt
<1>5. Types'
  BY <1>1, <1>3 DEF IInv, Types, Phases, dbt, data
<1>6. CacheCoherent'
  BY <1>1 DEF IInv, CacheCoherent, data
<1>7. PhaseFits'
  BY <1>1, <1>2 DEF IInv, Types, PhaseFits
<1> QED
  BY <1>3, <1>4, <1>5, <1>6, <1>7 DEF IInv

\* A handler that queues what it made of the request of c.
LEMMA QueueIInv ==
    ASSUME IInv, NEW c \in Conn, NEW r, QueueRequest(c, r), Matches(r, req[c]),
           phase[c] \in {"posted", "body"}, UNCHANGED <<req, dbt, data, reply>>
    PROVE  IInv'
<1>1. phase' = [phase EXCEPT ![c] = "queued"] /\ req' = req
  BY DEF QueueRequest
<1>2. Parallel' /\ m_request_queue' \in Seq(DBRequests) /\ m_connection_queue' \in Seq(Conn)
  BY <1>1, QueueParallel
<1>3. InHand'
  <2>1. \A d \in Conn : phase[d] = "served" => phase'[d] = "served" /\ req'[d] = req[d]
    BY <1>1 DEF IInv, Types
  <2> QED
    BY <2>1, FrameInHand DEF dbt
<1>4. Types'
  BY <1>1, <1>2 DEF IInv, Types, Phases, dbt, data
<1>5. CacheCoherent'
  BY DEF IInv, CacheCoherent, data
<1>6. PhaseFits'
  BY <1>1 DEF IInv, Types, PhaseFits
<1> QED
  BY <1>2, <1>3, <1>4, <1>5, <1>6 DEF IInv

\* A handler that waits, or goes on waiting, for the body.
LEMMA WaitIInv ==
    ASSUME IInv, NEW c \in Conn, NEW p \in {"body", "stuck"},
           phase[c] \in {"posted", "body"}, WaitsForBody(req[c]),
           phase' = [phase EXCEPT ![c] = p], UNCHANGED <<req, queues, dbt, data, reply>>
    PROVE  IInv'
<1>1. Parallel' /\ m_request_queue' \in Seq(DBRequests) /\ m_connection_queue' \in Seq(Conn)
  <2>1. \A d \in Conn : phase[d] = "queued" => phase'[d] = "queued" /\ req'[d] = req[d]
    BY DEF IInv, Types
  <2> QED
    BY <2>1, FrameParallel
<1>2. InHand'
  <2>1. \A d \in Conn : phase[d] = "served" => phase'[d] = "served" /\ req'[d] = req[d]
    BY DEF IInv, Types
  <2> QED
    BY <2>1, FrameInHand DEF dbt
<1>3. Types'
  BY <1>1 DEF IInv, Types, Phases, dbt, data
<1>4. CacheCoherent'
  BY DEF IInv, CacheCoherent, data
<1>5. PhaseFits'
  BY DEF IInv, Types, PhaseFits
<1> QED
  BY <1>1, <1>2, <1>3, <1>4, <1>5 DEF IInv

LEMMA HandleIInv ==
    ASSUME IInv, NEW c \in Conn, Handle(c)
    PROVE  IInv'
<1>1. phase[c] = "posted" /\ UNCHANGED <<req, dbt, data, reply>>
  BY DEF Handle
<1>2. req[c] \in Asks
  BY <1>1 DEF IInv, Types, PhaseFits
<1>3. CASE WaitsForBody(req[c])
  <2>1. phase' = [phase EXCEPT ![c] = "body"] /\ UNCHANGED queues
    BY <1>3 DEF Handle
  <2> QED
    BY <1>1, <1>3, <2>1, WaitIInv
<1>4. CASE ~ WaitsForBody(req[c])
  <2>1. QueueRequest(c, AtOnce(req[c]))
    BY <1>4 DEF Handle, AtOnce
  <2>2. Matches(AtOnce(req[c]), req[c])
    BY <1>2, HandlersMatch
  <2> QED
    BY <1>1, <2>1, <2>2, QueueIInv
<1> QED
  BY <1>3, <1>4

LEMMA ReadCallbackIInv ==
    ASSUME IInv, NEW c \in Conn, ConnectionReadCallback(c)
    PROVE  IInv'
<1>1. phase[c] = "body" /\ UNCHANGED <<req, dbt, data, reply>>
  BY DEF ConnectionReadCallback
<1>2. req[c] \in Asks /\ WaitsForBody(req[c])
  BY <1>1 DEF IInv, Types, PhaseFits
<1>3. PICK body \in {req[c].body, "bad"} : QueueRequest(c, HandlePostRequest(req[c], body))
  BY DEF ConnectionReadCallback
<1>4. Matches(HandlePostRequest(req[c], body), req[c])
  BY <1>2, HandlersMatch
<1> QED
  BY <1>1, <1>3, <1>4, QueueIInv

LEMMA BodyIncompleteIInv ==
    ASSUME IInv, NEW c \in Conn, BodyIncomplete(c)
    PROVE  IInv'
<1>1. /\ phase[c] = "body" /\ phase' = [phase EXCEPT ![c] = "stuck"]
      /\ UNCHANGED <<req, queues, dbt, data, reply>>
  BY DEF BodyIncomplete
<1>2. WaitsForBody(req[c])
  BY <1>1 DEF IInv, PhaseFits
<1> QED
  BY <1>1, <1>2, WaitIInv

\* Connections that are neither queued nor served are forgotten.
LEMMA LeaveIInv ==
    ASSUME IInv, NEW C \in SUBSET Conn,
           \A c \in C : phase[c] \notin {"queued", "served"},
           phase' = [c \in Conn |-> IF c \in C THEN "none" ELSE phase[c]],
           req' = [c \in Conn |-> IF c \in C THEN Store!NoRequest ELSE req[c]],
           reply' = [c \in Conn |-> IF c \in C THEN Store!NoReply ELSE reply[c]],
           UNCHANGED <<queues, dbt, data>>
    PROVE  IInv'
<1>1. Parallel' /\ m_request_queue' \in Seq(DBRequests) /\ m_connection_queue' \in Seq(Conn)
  <2>1. \A d \in Conn : phase[d] = "queued" => phase'[d] = "queued" /\ req'[d] = req[d]
    OBVIOUS
  <2> QED
    BY <2>1, FrameParallel
<1>2. InHand'
  <2>1. \A d \in Conn : phase[d] = "served" => phase'[d] = "served" /\ req'[d] = req[d]
    OBVIOUS
  <2> QED
    BY <2>1, FrameInHand DEF dbt
<1>3. Types'
  <2>1. Store!NoReply \in [kind : Store!Kinds \cup {"none"}, records : Store!Tables]
    BY DEF Store!NoReply, Store!Reply, Store!NoRows, Store!Tables
  <2> QED
    BY <1>1, <2>1 DEF IInv, Types, Phases, dbt, data
<1>4. CacheCoherent'
  BY DEF IInv, CacheCoherent, data
<1>5. PhaseFits'
  BY DEF IInv, Types, PhaseFits
<1> QED
  BY <1>1, <1>2, <1>3, <1>4, <1>5 DEF IInv

LEMMA SendReplyIInv ==
    ASSUME IInv, NEW c \in Conn, ServerSendReply(c)
    PROVE  IInv'
<1>1. /\ phase[c] = "reply"
      /\ phase' = [d \in Conn |-> IF d \in {c} THEN "none" ELSE phase[d]]
      /\ req' = [d \in Conn |-> IF d \in {c} THEN Store!NoRequest ELSE req[d]]
      /\ reply' = [d \in Conn |-> IF d \in {c} THEN Store!NoReply ELSE reply[d]]
      /\ UNCHANGED <<queues, dbt, data>>
  BY DEF ServerSendReply, IInv, Types
<1>2. {c} \in SUBSET Conn /\ \A d \in {c} : phase[d] \notin {"queued", "served"}
  BY <1>1
<1> QED
  BY <1>1, <1>2, LeaveIInv

-----------------------------------------------------------------------------
(* The steps of the database thread.                                       *)

LEMMA TakeRequestIInv ==
    ASSUME IInv, TakeRequest
    PROVE  IInv'
<1> DEFINE n == Len(m_connection_queue)
           c == Head(m_connection_queue)
<1>1. /\ m_request_queue \in Seq(DBRequests) /\ m_connection_queue \in Seq(Conn)
      /\ Len(m_request_queue) = n /\ n \in Nat /\ phase \in [Conn -> Phases]
      /\ m_request_queue # <<>>
  BY DEF IInv, Types, Parallel, TakeRequest
<1>2. /\ request' = Head(m_request_queue) /\ co' = {c}
      /\ m_request_queue' = Tail(m_request_queue)
      /\ m_connection_queue' = Tail(m_connection_queue)
      /\ phase' = [phase EXCEPT ![c] = "served"]
      /\ thread' = "exec"
      /\ UNCHANGED <<req, data, reply>>
  BY DEF TakeRequest
<1>3. n > 0 /\ n - 1 \in Nat /\ c = m_connection_queue[1] /\ Head(m_request_queue) = m_request_queue[1]
  BY <1>1
<1>4. \A i \in 1 .. n : /\ m_connection_queue[i] \in Conn
                        /\ phase[m_connection_queue[i]] = "queued"
                        /\ Matches(m_request_queue[i], req[m_connection_queue[i]])
  BY <1>1 DEF IInv, Parallel
<1>5. c \in Conn /\ phase[c] = "queued" /\ Matches(Head(m_request_queue), req[c])
  BY <1>3, <1>4
<1>6. /\ m_request_queue' \in Seq(DBRequests) /\ Len(m_request_queue') = n - 1
      /\ m_connection_queue' \in Seq(Conn) /\ Len(m_connection_queue') = n - 1
      /\ \A i \in 1 .. n - 1 : /\ m_request_queue'[i] = m_request_queue[i + 1]
                              /\ m_connection_queue'[i] = m_connection_queue[i + 1]
  BY <1>1, <1>2, <1>3
<1>7. \A i, j \in 1 .. n : m_connection_queue[i] = m_connection_queue[j] => i = j
  BY DEF IInv, Parallel
<1>8. \A i \in 1 .. n - 1 : i + 1 \in 1 .. n /\ i + 1 # 1
  BY <1>1
<1>9. \A i \in 1 .. n - 1 : m_connection_queue[i + 1] # c
  BY <1>3, <1>7, <1>8
<1>10. Parallel'
  <2>1. \A i \in 1 .. n - 1 : /\ phase'[m_connection_queue'[i]] = "queued"
                              /\ Matches(m_request_queue'[i], req[m_connection_queue'[i]])
    BY <1>1, <1>2, <1>4, <1>6, <1>8, <1>9
  <2>2. \A i, j \in 1 .. n - 1 : m_connection_queue'[i] = m_connection_queue'[j] => i = j
    <3> TAKE i, j \in 1 .. n - 1
    <3>1. m_connection_queue'[i] = m_connection_queue'[j] => i + 1 = j + 1
      BY <1>6, <1>7, <1>8
    <3> QED
      BY <3>1
  <2>3. req' = req
    BY <1>2
  <2> QED
    BY <1>6, <2>1, <2>2, <2>3 DEF Parallel
<1>11. InHand'
  <2>1. phase'[c] = "served" /\ Matches(request', req'[c])
    BY <1>1, <1>2, <1>5
  <2> QED
    BY <1>2, <1>5, <2>1 DEF InHand
<1>12. Types'
  BY <1>2, <1>5, <1>6 DEF IInv, Types, Phases, data
<1>13. CacheCoherent'
  BY <1>2 DEF IInv, CacheCoherent, data
<1>14. PhaseFits'
  BY <1>1, <1>2, <1>5 DEF IInv, PhaseFits
<1> QED
  BY <1>10, <1>11, <1>12, <1>13, <1>14 DEF IInv

\* What executing a request does to the table, the cache and the reply: the
\* table keeps its type, the cache stays coherent and the reply is one.
LEMMA ExecuteData ==
    ASSUME IInv, Execute, NEW c \in Conn, co = {c}, request \in DBRequests
    PROVE  /\ table' \in Store!Tables /\ m_isValid' \in BOOLEAN /\ CacheCoherent'
           /\ \E kind \in Store!Kinds, records \in Store!Tables :
                 /\ m_kind' = kind
                 /\ reply' = [reply EXCEPT ![c] = Store!Reply(kind, records)]
<1>1. /\ table \in Store!Tables /\ m_isValid \in BOOLEAN /\ m_kind \in Store!Kinds
      /\ m_cached_values = (IF m_isValid THEN table ELSE NoRows)
      /\ DOMAIN reply = Conn /\ reply = [d \in Conn |-> reply[d]]
  BY DEF IInv, Types, CacheCoherent
<1>2. NoRows \in Store!Tables /\ NoRows = Store!NoRows
  BY DEF NoRows, Store!NoRows, Store!Tables
<1>3. ASSUME NEW kind, NEW records, Posts(kind, records)
      PROVE  m_kind' = kind /\ reply' = [reply EXCEPT ![c] = Store!Reply(kind, records)]
  BY <1>1, <1>3 DEF Posts
<1>4. /\ request.id \in Id \cup {0} /\ request.value \in Value \cup {NoRow}
      /\ \A i \in Id : i \in Nat /\ i > 0
  BY ServerAssumption DEF DBRequests
<1>5. {"OK", "BAD_REQUEST", "NOT_FOUND"} = Store!Kinds
  BY DEF Store!Kinds
<1>6. CASE request.type = "GET" /\ DoGetRequest
  <2>1. table' = table /\ m_isValid' = TRUE /\ m_cached_values' = table
    BY <1>1, <1>6 DEF DoGetRequest
  <2>2. \/ request.id \in Id /\ table[request.id] # NoRow /\ Posts("OK", Store!Only(request.id, table))
        \/ Posts("NOT_FOUND", NoRows)
        \/ Posts(m_kind, table)
    BY <1>1, <1>4, <1>6 DEF DoGetRequest
  <2>3. request.id \in Id => Store!Only(request.id, table) \in Store!Tables
    BY <1>1 DEF Store!Only, Store!NoRows, Store!Tables
  <2> QED
    BY <1>1, <1>2, <1>3, <1>5, <2>1, <2>2, <2>3 DEF CacheCoherent
<1>7. CASE request.type = "POST" /\ DoPostRequest
  <2>1. CASE request.value = NoRow
    <3>1. Posts("BAD_REQUEST", NoRows) /\ UNCHANGED <<table, m_isValid, m_cached_values>>
      BY <1>7, <2>1 DEF DoPostRequest
    <3> QED
      BY <1>1, <1>2, <1>3, <1>5, <3>1 DEF CacheCoherent
  <2>2. CASE request.value # NoRow
    <3>1. /\ m_isValid' = FALSE /\ m_cached_values' = NoRows
          /\ Posts("OK", NoRows) \/ Posts("NOT_FOUND", NoRows)
      BY <1>7, <2>2 DEF DoPostRequest, InvalidateCache
    <3>2. table' \in Store!Tables
      BY <1>1, <1>4, <1>7, <2>2 DEF DoPostRequest, Store!Tables
    <3> QED
      BY <1>2, <1>3, <1>5, <3>1, <3>2 DEF CacheCoherent
  <2> QED
    BY <2>1, <2>2
<1>8. CASE request.type = "DELETE" /\ DoDeleteRequest
  <2>1. /\ m_isValid' = FALSE /\ m_cached_values' = NoRows
        /\ Posts("OK", NoRows) \/ Posts("NOT_FOUND", NoRows)
    BY <1>8 DEF DoDeleteRequest, InvalidateCache
  <2>2. table' \in Store!Tables
    BY <1>1, <1>8 DEF DoDeleteRequest, Store!Tables, NoRow
  <2> QED
    BY <1>2, <1>3, <1>5, <2>1, <2>2 DEF CacheCoherent
<1>9. CASE /\ request.type = "INVALID" /\ Posts("BAD_REQUEST", NoRows)
           /\ UNCHANGED <<table, m_isValid, m_cached_values>>
  BY <1>1, <1>2, <1>3, <1>5, <1>9 DEF CacheCoherent
<1> QED
  BY <1>6, <1>7, <1>8, <1>9 DEF Execute

LEMMA ExecuteIInv ==
    ASSUME IInv, Execute
    PROVE  IInv'
<1>1. PICK c \in Conn : co = {c} /\ phase[c] = "served" /\ Matches(request, req[c])
  BY DEF IInv, InHand, Execute
<1>2. request \in DBRequests
  BY <1>1 DEF Matches
<1>3. /\ table' \in Store!Tables /\ m_isValid' \in BOOLEAN /\ CacheCoherent'
      /\ \E kind \in Store!Kinds, records \in Store!Tables :
            /\ m_kind' = kind
            /\ reply' = [reply EXCEPT ![c] = Store!Reply(kind, records)]
  BY <1>1, <1>2, ExecuteData
<1>4. PICK kind \in Store!Kinds, records \in Store!Tables :
            m_kind' = kind /\ reply' = [reply EXCEPT ![c] = Store!Reply(kind, records)]
  BY <1>3
<1>5. /\ phase' = [d \in Conn |-> IF d \in co THEN "reply" ELSE phase[d]]
      /\ thread' = "wait" /\ co' = {} /\ UNCHANGED <<req, queues>>
  BY DEF Execute
<1>6. phase' = [phase EXCEPT ![c] = "reply"]
  BY <1>1, <1>5 DEF IInv, Types
<1>7. Parallel' /\ m_request_queue' \in Seq(DBRequests) /\ m_connection_queue' \in Seq(Conn)
  <2>1. \A d \in Conn : phase[d] = "queued" => phase'[d] = "queued" /\ req'[d] = req[d]
    BY <1>1, <1>5, <1>6 DEF IInv, Types
  <2> QED
    BY <1>5, <2>1, FrameParallel
<1>8. Store!Reply(kind, records) \in [kind : Store!Kinds \cup {"none"}, records : Store!Tables]
  BY DEF Store!Reply
<1>9. Types'
  BY <1>3, <1>4, <1>5, <1>6, <1>7, <1>8 DEF IInv, Types, Phases
<1>10. InHand'
  BY <1>5 DEF InHand
<1>11. Store!Reply(kind, records) # Store!NoReply
  BY DEF Store!Reply, Store!NoReply, Store!Kinds
<1>12. PhaseFits'
  BY <1>1, <1>4, <1>5, <1>6, <1>11 DEF IInv, Types, PhaseFits
<1> QED
  BY <1>3, <1>7, <1>9, <1>10, <1>12 DEF IInv

-----------------------------------------------------------------------------
(* The end of the server.                                                  *)

\* A step that changes neither connections nor data.
LEMMA QuietIInv ==
    ASSUME IInv, UNCHANGED <<pool, queues, request, co, data, reply>>,
           thread' = thread \/ (thread = "wait" /\ thread' = "end")
    PROVE  IInv'
<1>1. /\ req' = req /\ phase' = phase /\ reply' = reply /\ request' = request /\ co' = co
      /\ m_request_queue' = m_request_queue /\ m_connection_queue' = m_connection_queue
      /\ table' = table /\ m_isValid' = m_isValid /\ m_cached_values' = m_cached_values
      /\ m_kind' = m_kind
  BY DEF pool, queues, data
<1>2. Types'
  BY <1>1 DEF IInv, Types
<1>3. CacheCoherent' /\ PhaseFits' /\ Parallel'
  BY <1>1 DEF IInv, CacheCoherent, PhaseFits, Parallel
<1>4. InHand'
  BY <1>1 DEF IInv, InHand
<1> QED
  BY <1>2, <1>3, <1>4 DEF IInv

LEMMA RunServerReturnsIInv ==
    ASSUME IInv, RunServerReturns
    PROVE  IInv'
<1> DEFINE C == {c \in Conn : phase[c] \in {"posted", "body", "stuck", "reply"}}
<1>1. /\ phase' = [c \in Conn |-> IF c \in C THEN "none" ELSE phase[c]]
      /\ req' = [c \in Conn |-> IF c \in C THEN Store!NoRequest ELSE req[c]]
      /\ reply' = [c \in Conn |-> IF c \in C THEN Store!NoReply ELSE reply[c]]
      /\ UNCHANGED <<queues, dbt, data>>
  BY DEF RunServerReturns
<1>2. C \in SUBSET Conn /\ \A c \in C : phase[c] \notin {"queued", "served"}
  OBVIOUS
<1> HIDE DEF C
<1> QED
  BY <1>1, <1>2, LeaveIInv

LEMMA DisconnectJoinsIInv ==
    ASSUME IInv, DisconnectJoins
    PROVE  IInv'
<1>1. /\ phase' = [c \in Conn |-> "none"]
      /\ req' = [c \in Conn |-> Store!NoRequest]
      /\ reply' = [c \in Conn |-> Store!NoReply]
      /\ m_request_queue' = <<>> /\ m_connection_queue' = <<>>
      /\ thread = "end" /\ UNCHANGED <<dbt, data>>
  BY DEF DisconnectJoins
<1>2. Store!NoReply \in [kind : Store!Kinds \cup {"none"}, records : Store!Tables]
  BY DEF Store!NoReply, Store!Reply, Store!NoRows, Store!Tables
<1>3. Types'
  BY <1>1, <1>2 DEF IInv, Types, Phases, dbt, data
<1>4. CacheCoherent'
  BY <1>1 DEF IInv, CacheCoherent, data
<1>5. Parallel'
  BY <1>1 DEF Parallel
<1>6. InHand'
  BY <1>1 DEF IInv, InHand, dbt
<1>7. PhaseFits'
  BY <1>1 DEF PhaseFits
<1> QED
  BY <1>3, <1>4, <1>5, <1>6, <1>7 DEF IInv

-----------------------------------------------------------------------------
(* The invariant.                                                          *)

LEMMA InitIInv == Init => IInv
<1> SUFFICES ASSUME Init PROVE IInv
  OBVIOUS
<1>1. Store!NoReply \in [kind : Store!Kinds \cup {"none"}, records : Store!Tables]
  BY DEF Store!NoReply, Store!Reply, Store!NoRows, Store!Tables
<1>2. Types
  <2>1. m_request_queue \in Seq(DBRequests) /\ m_connection_queue \in Seq(Conn)
    BY DEF Init
  <2>2. m_isValid \in BOOLEAN /\ m_kind \in Store!Kinds /\ table \in Store!Tables
    BY DEF Init, Store!Kinds
  <2>3. phase \in [Conn -> Phases] /\ thread \in {"wait", "exec", "end"}
    BY DEF Init, Phases
  <2>4. /\ req \in [Conn -> Asks \cup {Store!NoRequest}]
        /\ reply \in [Conn -> [kind : Store!Kinds \cup {"none"}, records : Store!Tables]]
    BY <1>1 DEF Init
  <2> QED
    BY <2>1, <2>2, <2>3, <2>4 DEF Types
<1>3. CacheCoherent /\ Parallel /\ InHand
  BY DEF Init, CacheCoherent, Parallel, InHand
<1>4. PhaseFits
  BY DEF Init, PhaseFits
<1> QED
  BY <1>2, <1>3, <1>4 DEF IInv

LEMMA NextIInv == IInv /\ [Next]_vars => IInv'
<1> SUFFICES ASSUME IInv, [Next]_vars PROVE IInv'
  OBVIOUS
<1>1. ASSUME NEW c \in Conn, NEW q \in Asks, Accept(c, q) PROVE IInv'
  BY <1>1, AcceptIInv
<1>2. ASSUME NEW c \in Conn, Handle(c) PROVE IInv'
  BY <1>2, HandleIInv
<1>3. ASSUME NEW c \in Conn, ConnectionReadCallback(c) PROVE IInv'
  BY <1>3, ReadCallbackIInv
<1>4. ASSUME NEW c \in Conn, BodyIncomplete(c) PROVE IInv'
  BY <1>4, BodyIncompleteIInv
<1>5. ASSUME NEW c \in Conn, ServerSendReply(c) PROVE IInv'
  BY <1>5, SendReplyIInv
<1>6. CASE TakeRequest
  BY <1>6, TakeRequestIInv
<1>7. CASE Execute
  BY <1>7, ExecuteIInv
<1>8. CASE RequestFails \/ Signal_INT_TERM_handler \/ DisconnectInterrupts
  BY <1>8, QuietIInv DEF RequestFails, Signal_INT_TERM_handler, DisconnectInterrupts, dbt
<1>9. CASE ThreadEnds
  BY <1>9, QuietIInv DEF ThreadEnds
<1>10. CASE RunServerReturns
  BY <1>10, RunServerReturnsIInv
<1>11. CASE DisconnectJoins
  BY <1>11, DisconnectJoinsIInv
<1>12. CASE UNCHANGED vars
  BY <1>12, QuietIInv DEF vars, pool, queues, data
<1> QED
  BY <1>1, <1>2, <1>3, <1>4, <1>5, <1>6, <1>7, <1>8, <1>9, <1>10, <1>11, <1>12 DEF Next, Ending

\* The queues stay parallel, the database thread has the connection of its
\* request and the cache is the table, whatever the threads do.
THEOREM Invariance == Spec => []IInv
  BY InitIInv, NextIInv, PTL DEF Spec

\* A valid cache is the table, and an invalid one is empty (SetInvalid before
\* every change of the table), for any number of clients, rows and values.
THEOREM CacheSafe == Spec => []CacheCoherent
<1>1. IInv => CacheCoherent
  BY DEF IInv
<1> QED
  BY <1>1, Invariance, PTL

-----------------------------------------------------------------------------
(* The server implements the store.                                        *)

\* Executing the request in hand serves its connection.
LEMMA ExecuteServes ==
    ASSUME IInv, Execute, NEW c \in Conn, co = {c}, phase[c] = "served", Matches(request, req[c])
    PROVE  Store!Serve(c)
<1> DEFINE q == req[c]
           i == request.id
<1>1. /\ table \in Store!Tables /\ m_isValid \in BOOLEAN /\ m_kind \in Store!Kinds
      /\ m_cached_values = (IF m_isValid THEN table ELSE NoRows)
      /\ reply = [d \in Conn |-> reply[d]]
      /\ reply[c] = Store!NoReply /\ q # Store!NoRequest /\ q \in Asks
  BY DEF IInv, Types, CacheCoherent, PhaseFits
<1>2. /\ q.method \in {"GET", "POST", "DELETE", "other"}
      /\ q.id \in Id \cup {0, -1} /\ q.body \in Value \cup {"none", "bad"}
      /\ \A j \in Id : j \in Nat /\ j > 0
      /\ NoRow \notin Value /\ "none" \notin Value /\ "bad" \notin Value
  BY <1>1, ServerAssumption DEF Store!Requests, NoRow
<1>3. /\ request \in DBRequests /\ i \in Id \cup {0} /\ request.value \in Value \cup {NoRow}
  BY DEF Matches, DBRequests
<1>4. UNCHANGED <<req, stage>>
  BY DEF Execute
<1>5. ASSUME NEW kind, NEW records, Posts(kind, records)
      PROVE  Store!Gives(c, kind, records)
  BY <1>1, <1>5 DEF Posts, Store!Gives
<1>6. NoRows = Store!NoRows /\ NoRow = Store!NoRow
  BY DEF NoRows, NoRow
<1>7. SUFFICES \/ \E kind \in Store!Kinds : Store!ServeAll(c, kind)
               \/ Store!ServeOne(c)
               \/ Store!ServeUpdate(c)
               \/ \E j \in Id : Store!ServeInsert(c, j)
               \/ Store!ServeDelete(c)
               \/ Store!Refuse(c)
  BY <1>1 DEF Store!Serve
<1>8. CASE request.type = "GET" /\ DoGetRequest
  <2>1. q.method = "GET" /\ q.id = i /\ q.id >= 0
    BY <1>2, <1>8 DEF Matches, HandleGetRequest, HandleDeleteRequest, HandlePostRequest,
       DBRequest, Invalid
  <2>2. table' = table
    BY <1>8 DEF DoGetRequest
  <2>3. CASE i = 0
    <3>1. Posts(m_kind, table)
      BY <1>1, <1>8, <2>3 DEF DoGetRequest
    <3> QED
      BY <1>1, <1>4, <1>5, <2>1, <2>2, <2>3, <3>1 DEF Store!ServeAll
  <2>4. CASE i \in Id
    <3>1. IF table[i] # NoRow THEN Posts("OK", Store!Only(i, table)) ELSE Posts("NOT_FOUND", NoRows)
      BY <1>1, <1>2, <1>8, <2>4 DEF DoGetRequest
    <3> QED
      BY <1>4, <1>5, <1>6, <2>1, <2>2, <2>4, <3>1 DEF Store!ServeOne
  <2> QED
    BY <1>3, <2>3, <2>4
<1>9. CASE request.type = "POST" /\ DoPostRequest
  <2>1. /\ q.method = "POST" /\ q.id = i
        /\ request.value = (IF q.body \in Value THEN q.body ELSE NoRow) \/ request.value = NoRow
    BY <1>2, <1>9 DEF Matches, HandleGetRequest, HandleDeleteRequest, HandlePostRequest,
       WaitsForBody, DBRequest, Invalid
  <2>2. CASE request.value = NoRow
    <3>1. Posts("BAD_REQUEST", NoRows) /\ table' = table
      BY <1>9, <2>2 DEF DoPostRequest
    <3> QED
      BY <1>4, <1>5, <1>6, <2>1, <3>1 DEF Store!Refuse
  <2>3. CASE request.value # NoRow /\ i > 0
    <3>1. i \in Id /\ q.body \in Value /\ request.value = q.body
      BY <1>3, <2>1, <2>3
    <3>2. IF table[i] # NoRow
          THEN table' = [table EXCEPT ![i] = q.body] /\ Posts("OK", NoRows)
          ELSE table' = table /\ Posts("NOT_FOUND", NoRows)
      BY <1>9, <2>3, <3>1 DEF DoPostRequest
    <3> QED
      BY <1>4, <1>5, <1>6, <2>1, <3>1, <3>2 DEF Store!ServeUpdate
  <2>4. CASE request.value # NoRow /\ i = 0
    <3>1. q.body \in Value /\ request.value = q.body
      BY <2>1, <2>4
    <3>2. PICK j \in Id : table[j] = NoRow /\ table' = [table EXCEPT ![j] = q.body]
      BY <1>9, <2>4, <3>1 DEF DoPostRequest
    <3>3. Posts("OK", NoRows)
      BY <1>9, <2>4 DEF DoPostRequest
    <3> QED
      BY <1>4, <1>5, <1>6, <2>1, <2>4, <3>1, <3>2, <3>3 DEF Store!ServeInsert
  <2> QED
    BY <1>2, <1>3, <2>2, <2>3, <2>4
<1>10. CASE request.type = "DELETE" /\ DoDeleteRequest
  <2>1. q.method = "DELETE" /\ q.id = i /\ i \in Id
    BY <1>2, <1>10 DEF Matches, HandleGetRequest, HandleDeleteRequest, HandlePostRequest,
       DBRequest, Invalid
  <2>2. /\ table' = [table EXCEPT ![i] = NoRow]
        /\ IF table[i] # NoRow THEN Posts("OK", NoRows) ELSE Posts("NOT_FOUND", NoRows)
    BY <1>10 DEF DoDeleteRequest
  <2> QED
    BY <1>4, <1>5, <1>6, <2>1, <2>2 DEF Store!ServeDelete
<1>11. CASE /\ request.type = "INVALID" /\ Posts("BAD_REQUEST", NoRows)
            /\ UNCHANGED <<table, m_isValid, m_cached_values>>
  <2>1. \/ q.method \in {"POST", "other"} \/ q.id = -1 \/ (q.method = "DELETE" /\ q.id = 0)
    BY <1>2, <1>11 DEF Matches, HandleGetRequest, HandleDeleteRequest, HandlePostRequest,
       DBRequest, Invalid
  <2> QED
    BY <1>4, <1>5, <1>6, <1>11, <2>1 DEF Store!Refuse
<1> QED
  BY <1>8, <1>9, <1>10, <1>11 DEF Execute

\* What happens in the pool is a request, the going of a client, or no step of the store.
LEMMA HandlersServe ==
    ASSUME IInv, NEW c \in Conn,
           \/ \E q \in Asks : Accept(c, q)
           \/ Handle(c) \/ ConnectionReadCallback(c) \/ BodyIncomplete(c)
           \/ ServerSendReply(c)
    PROVE  [Store!StoreNext]_(Store!svars)
<1>1. ASSUME NEW q \in Asks, Accept(c, q)
      PROVE  Store!Ask(c, q)
  <2>1. phase[c] = "none" /\ req[c] = Store!NoRequest
    BY <1>1 DEF Accept, IInv, PhaseFits
  <2> QED
    BY <1>1, <2>1 DEF Accept, data, Store!Ask
<1>2. CASE \E q \in Asks : Accept(c, q)
  BY <1>1, <1>2, ServerAssumption DEF Store!StoreNext
<1>3. CASE Handle(c) \/ ConnectionReadCallback(c) \/ BodyIncomplete(c)
  BY <1>3 DEF Handle, ConnectionReadCallback, BodyIncomplete, data, Store!svars
<1>4. CASE ServerSendReply(c)
  <2>1. /\ reply[c] # Store!NoReply
        /\ req = [d \in Conn |-> req[d]] /\ reply = [d \in Conn |-> reply[d]]
    BY <1>4 DEF ServerSendReply, IInv, Types, PhaseFits
  <2>2. Store!Leave({c})
    BY <1>4, <2>1 DEF ServerSendReply, data, Store!Leave
  <2> QED
    BY <2>2 DEF Store!StoreNext
<1> QED
  BY <1>2, <1>3, <1>4

\* Every step of the server is a step of the store, or none.
LEMMA NextServes ==
    ASSUME IInv, [Next]_vars
    PROVE  [Store!StoreNext]_(Store!svars)
<1>1. CASE \E c \in Conn :
              \/ \E q \in Asks : Accept(c, q)
              \/ Handle(c) \/ ConnectionReadCallback(c) \/ BodyIncomplete(c)
              \/ ServerSendReply(c)
  BY <1>1, HandlersServe
<1>2. CASE TakeRequest \/ DisconnectInterrupts \/ ThreadEnds \/ UNCHANGED vars
  BY <1>2 DEF TakeRequest, DisconnectInterrupts, ThreadEnds, vars, pool, data, Store!svars
<1>3. CASE Execute
  <2>1. PICK c \in Conn : co = {c} /\ phase[c] = "served" /\ Matches(request, req[c])
    BY <1>3 DEF Execute, IInv, InHand
  <2>2. Store!Serve(c)
    BY <1>3, <2>1, ExecuteServes
  <2> QED
    BY <2>2 DEF Store!StoreNext
<1>4. CASE RequestFails \/ Signal_INT_TERM_handler
  <2>1. Store!GoDown
    BY <1>4 DEF RequestFails, Signal_INT_TERM_handler, pool, data, Store!GoDown
  <2> QED
    BY <2>1 DEF Store!StoreNext
<1>5. CASE RunServerReturns
  <2> DEFINE Lost == {c \in Conn : phase[c] \in {"posted", "body", "stuck", "reply"}}
  <2>1. Store!Leave(Lost)
    BY <1>5 DEF RunServerReturns, data, Store!Leave
  <2> QED
    BY <2>1 DEF Store!StoreNext
<1>6. CASE DisconnectJoins
  <2>1. Store!Leave(Conn)
    BY <1>6 DEF DisconnectJoins, data, Store!Leave
  <2> QED
    BY <2>1 DEF Store!StoreNext
<1> QED
  BY <1>1, <1>2, <1>3, <1>4, <1>5, <1>6 DEF Next, Ending

\* The server implements the store, for every number of connections, rows and
\* threads: the reply given to a connection is the one to its own request
\* (QueueRequest and DoRequest keep the two queues parallel), and is what the table
\* says when the request is executed (DoGetRequest from the cache, DoPostRequest and
\* DoDeleteRequest having emptied it); no client goes without one while the server
\* is up.
THEOREM Refinement == Spec => ServesUsers
<1>1. Init => Store!StoreInit
  BY DEF Init, Store!StoreInit
<1>2. IInv /\ [Next]_vars => [Store!StoreNext]_(Store!svars)
  BY NextServes
<1> QED
  BY <1>1, <1>2, Invariance, PTL DEF Spec, ServesUsers, Store!StoreSpec
=============================================================================
