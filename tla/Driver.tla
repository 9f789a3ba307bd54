------------------------------- MODULE Driver -------------------------------
(***************************************************************************)
(* supertel/task2, the driver: its core (driver-core.c) on the server of   *)
(* UNIX sockets (unix-socket-server.c) and its payload                     *)
(* (driver-payloads.c).  A client is greeted with the driver's commands;   *)
(* then it sends commands, which arrive cut anywhere, and each is called   *)
(* and answered.  Clients are those of shell.c: they send commands that    *)
(* the greeting lists, with no more arguments than it allows, and may go   *)
(* away at any moment, also in the middle of a command or of an answer.    *)
(*                                                                         *)
(* Handlers run one at a time in the loop of the io service; a job that is *)
(* posted runs while its descriptor is ready.  The trees are sets of their *)
(* keys: AvlTree is about the trees themselves.                            *)
(***************************************************************************)
EXTENDS Integers, Sequences, FiniteSetsExt

CONSTANTS
    Fds,        \* the descriptors accept may return
    Arity,      \* the payload: max_arity of each command, a sequence
    Scripts     \* what a client may send, sequences of commands

\* A command of a client, with arguments of bytes.
Commands == [cmd_idx : 0 .. Len(Arity) - 1, argv : Seq(Seq(0 .. 255))]

ASSUME DriverAssumption ==
    /\ IsFiniteSet(Fds)
    /\ Arity \in Seq(0 .. 255) /\ Len(Arity) <= 255
    /\ \A s \in Scripts :
          /\ s \in Seq(Commands)
          /\ \A i \in DOMAIN s :
                /\ Len(s[i].argv) <= Arity[s[i].cmd_idx + 1]
                /\ \A j \in DOMAIN s[i].argv : Len(s[i].argv[j]) <= 255

VARIABLES
    running,            \* io_service_run has not returned
    connections,        \* the connections of the server
    connection_state,   \* the connection states of the core
    conn,               \* descriptor -> connection and connection state
    peer,               \* descriptor -> the client there: "none", "open", "closed"
    script,             \* descriptor -> the commands of the client
    unsent,             \* descriptor -> its bytes that have not been sent
    inbox,              \* descriptor -> the bytes in the socket
    got,                \* descriptor -> what has been sent to the client
    calls               \* descriptor -> the calls of handlers for the client

server == <<connections, connection_state, conn>>
client == <<peer, script, unsent, inbox, got>>
vars == <<running, server, client, calls>>

-----------------------------------------------------------------------------
(* The protocol (protocol.h).                                              *)

PR_DRV_COMMAND == 1

SignatureLen == 1       \* sizeof(pr_signature_t)
CommandLen   == 3       \* sizeof(pr_driver_command_t)
ArgumentLen  == 1       \* sizeof(pr_driver_command_argument_t)

\* The sequences ss, one behind the other.
Joined(ss) ==
    LET joined[i \in 0 .. Len(ss)] == IF i = 0 THEN <<>> ELSE joined[i - 1] \o ss[i]
    IN  joined[Len(ss)]

\* A command as the client sends it.
Encoded(c) ==
    <<PR_DRV_COMMAND, c.cmd_idx, Len(c.argv)>>
        \o Joined([i \in DOMAIN c.argv |-> <<Len(c.argv[i])>> \o c.argv[i]])

\* What the driver sends, in pieces: a header, and for each command its arity;
\* a header, and the text the handler chooses by the number of arguments.
greeting ==
    <<[piece |-> "PR_DRV_INFO", of |-> <<Len(Arity)>>]>>
        \o [i \in DOMAIN Arity |-> [piece |-> "command", of |-> <<Arity[i]>>]]

handler(cmd_idx, argc) == <<[piece |-> "text", of |-> <<cmd_idx, argc>>]>>

Response(cmd_idx, argc) ==
    LET text == handler(cmd_idx, argc)
    IN  <<[piece |-> "PR_DRV_RESPONSE", of |-> <<Len(text)>>]>> \o text

-----------------------------------------------------------------------------
(* The server's tasks.  data holds what has been read, offset +            *)
(* currently_read bytes of the user_size ones asked for.                   *)

NoConnection ==
    [data |-> <<>>, user_size |-> 0, offset |-> 0, currently_read |-> 0,
     out |-> <<>>, currently_wrote |-> 0, jobs |-> {},
     argc |-> 0, args_received |-> 0, last_argument_offset |-> 0]

\* Faulty variant: the answer is sent from where the last one ended.
send_from_the_middle(c, d) == [c EXCEPT !.out = d, !.jobs = @ \cup {"WRITE"}]

unix_socket_server_send(c, d) ==
    [c EXCEPT !.out = d, !.currently_wrote = 0, !.jobs = @ \cup {"WRITE"}]

\* Faulty variant: what the last task read counts for this one.
recv_without_reset(c, sz) ==
    [c EXCEPT !.offset = c.user_size, !.user_size = @ + sz, !.jobs = @ \cup {"READ"}]

unix_socket_server_recv(c, sz) ==
    [c EXCEPT !.currently_read = 0, !.offset = c.user_size, !.user_size = @ + sz,
              !.jobs = @ \cup {"READ"}]

\* buffer_realloc to size 0.
Emptied(c) == [c EXCEPT !.data = <<>>, !.user_size = 0]

-----------------------------------------------------------------------------
(* The core's callbacks: the connection afterwards, whether it is dropped, *)
(* and the call made.                                                      *)

Kept(c) == [conn |-> c, dropped |-> FALSE, call |-> <<>>]
Dropped == [conn |-> NoConnection, dropped |-> TRUE, call |-> <<>>]

\* The handler is called, and its response sent.
Called(c, cmd_idx, argv, response) ==
    [conn |-> unix_socket_server_send(c, response), dropped |-> FALSE,
     call |-> <<[cmd_idx |-> cmd_idx, argv |-> argv]>>]

\* What lies in memory behind the buffer: no argument anybody sent.
Garbage == <<-1>>

\* argv, filled from the argument at offset o on, whatever follows it.
Argv(c, o) ==
    LET size == Len(c.data)
        at[i \in 1 .. c.argc] ==
            IF i = 1 THEN o
            ELSE IF at[i - 1] < size THEN at[i - 1] + ArgumentLen + c.data[at[i - 1] + 1] ELSE size
        end(i) == at[i] + ArgumentLen + c.data[at[i] + 1]
    IN  [i \in 1 .. c.argc |->
            IF at[i] < size /\ end(i) <= size THEN SubSeq(c.data, at[i] + ArgumentLen + 1, end(i))
            ELSE Garbage]

\* The arguments of a command: first the length of the next one, then its value.
\* argv is filled from the last argument on.
receive_arguments(c) ==
    LET o    == IF c.last_argument_offset = 0 THEN CommandLen ELSE c.last_argument_offset
        end  == o + ArgumentLen + c.data[o + 1]
        want == IF c.user_size < o + ArgumentLen THEN o + ArgumentLen ELSE end
        next == c.args_received + 1
    IN  IF c.user_size < want
        THEN Kept(unix_socket_server_recv([c EXCEPT !.last_argument_offset = o], want - c.user_size))
        ELSE IF next < c.argc
        THEN Kept(unix_socket_server_recv(
                 [c EXCEPT !.args_received = next, !.last_argument_offset = end],
                 end + ArgumentLen - c.user_size))
        ELSE Called([c EXCEPT !.args_received = next, !.last_argument_offset = end],
                    c.data[2], Argv(c, o), Response(c.data[2], c.argc))

reader(c, failed) ==
    IF failed \/ c.data[1] # PR_DRV_COMMAND THEN Dropped
    ELSE IF c.user_size < CommandLen
    THEN Kept(unix_socket_server_recv(c, CommandLen - c.user_size))
    ELSE LET d == [c EXCEPT !.argc = c.data[3]]
         IN  IF d.argc > Arity[d.data[2] + 1] THEN Dropped
             ELSE IF d.argc = 0 THEN Called(d, d.data[2], <<>>, Response(d.data[2], 0))
             ELSE IF d.argc = d.args_received
             THEN Called(d, d.data[2], Argv(d, CommandLen), handler(d.data[2], d.argc))
             ELSE receive_arguments(d)

\* Faulty variant: the state of the last command is kept.
writer_without_reset(c, failed) ==
    IF failed THEN Dropped ELSE Kept(unix_socket_server_recv(Emptied(c), SignatureLen))

writer(c, failed) ==
    IF failed THEN Dropped
    ELSE Kept(unix_socket_server_recv(
             [Emptied(c) EXCEPT !.argc = 0, !.args_received = 0, !.last_argument_offset = 0],
             SignatureLen))

-----------------------------------------------------------------------------
(* Clients.                                                                *)

Forgotten(fd) ==
    /\ peer' = [peer EXCEPT ![fd] = "none"]
    /\ script' = [script EXCEPT ![fd] = <<>>]
    /\ unsent' = [unsent EXCEPT ![fd] = <<>>]
    /\ inbox' = [inbox EXCEPT ![fd] = <<>>]
    /\ got' = [got EXCEPT ![fd] = <<>>]
    /\ calls' = [calls EXCEPT ![fd] = <<>>]

\* A client connects; accept will return fd for it.
Connect(fd) ==
    /\ running
    /\ peer[fd] = "none"
    /\ \E s \in Scripts :
          /\ script' = [script EXCEPT ![fd] = s]
          /\ unsent' = [unsent EXCEPT ![fd] = Joined([i \in DOMAIN s |-> Encoded(s[i])])]
    /\ peer' = [peer EXCEPT ![fd] = "open"]
    /\ UNCHANGED <<running, server, inbox, got, calls>>

\* Some bytes of its commands arrive; it has read the greeting.
ClientSends(fd) ==
    /\ peer[fd] = "open"
    /\ Len(got[fd]) >= Len(greeting)
    /\ \E n \in 1 .. Len(unsent[fd]) :
          /\ inbox' = [inbox EXCEPT ![fd] = @ \o SubSeq(unsent[fd], 1, n)]
          /\ unsent' = [unsent EXCEPT ![fd] = SubSeq(@, n + 1, Len(@))]
    /\ UNCHANGED <<running, server, peer, script, got, calls>>

ClientCloses(fd) ==
    /\ peer[fd] = "open"
    /\ peer' = [peer EXCEPT ![fd] = "closed"]
    /\ UNCHANGED <<running, server, script, unsent, inbox, got, calls>>

-----------------------------------------------------------------------------
(* The driver.                                                             *)

Init ==
    /\ running = TRUE
    /\ connections = {} /\ connection_state = {}
    /\ conn = [fd \in Fds |-> NoConnection]
    /\ peer = [fd \in Fds |-> "none"]
    /\ script = [fd \in Fds |-> <<>>]
    /\ unsent = [fd \in Fds |-> <<>>]
    /\ inbox = [fd \in Fds |-> <<>>]
    /\ got = [fd \in Fds |-> <<>>]
    /\ calls = [fd \in Fds |-> <<>>]

\* The server accepts a connection and the core greets the client.
acceptor(fd) ==
    /\ running
    /\ peer[fd] # "none" /\ fd \notin connections
    /\ connections' = connections \cup {fd}
    /\ connection_state' = connection_state \cup {fd}
    /\ conn' = [conn EXCEPT ![fd] = unix_socket_server_send(NoConnection, greeting)]
    /\ UNCHANGED <<running, client, calls>>

\* Faulty variant: the core forgets to remove its state.
drop_connection_only(fd) ==
    /\ connections' = connections \ {fd}
    /\ conn' = [conn EXCEPT ![fd] = NoConnection]
    /\ Forgotten(fd)
    /\ UNCHANGED connection_state

\* The core removes its state; the server removes the connection and its jobs
\* and closes the descriptor, which accept may return again.
close_connection(fd) ==
    /\ connections' = connections \ {fd}
    /\ connection_state' = connection_state \ {fd}
    /\ conn' = [conn EXCEPT ![fd] = NoConnection]
    /\ Forgotten(fd)

\* A callback has ended with result, when in was left in the socket and out sent.
Apply(fd, result, in, out) ==
    \E res \in {result} :
        \/ /\ res.dropped
           /\ close_connection(fd)
        \/ /\ ~ res.dropped
           /\ conn' = [conn EXCEPT ![fd] = res.conn]
           /\ inbox' = [inbox EXCEPT ![fd] = in]
           /\ got' = [got EXCEPT ![fd] = @ \o out]
           /\ calls' = [calls EXCEPT ![fd] = @ \o res.call]
           /\ UNCHANGED <<connections, connection_state, peer, script, unsent>>

Without(c, op) == [c EXCEPT !.jobs = @ \ {op}]

\* Faulty variant: what was sent before the socket was full is not recorded.
sent_unrecorded(fd) ==
    LET c    == conn[fd]
        left == Len(c.out) - c.currently_wrote
    IN  /\ running
        /\ "WRITE" \in c.jobs
        /\ peer[fd] = "open"
        /\ \E n \in 1 .. left :
              Apply(fd, IF n < left THEN Kept(c) ELSE writer(Without(c, "WRITE"), FALSE),
                    inbox[fd], SubSeq(c.out, 1, n))
        /\ UNCHANGED running

\* Sending goes on until the socket is full or all is sent; to a client that is
\* gone it fails.
data_may_be_sent(fd) ==
    LET c    == conn[fd]
        left == Len(c.out) - c.currently_wrote
    IN  /\ running
        /\ "WRITE" \in c.jobs
        /\ \/ /\ peer[fd] = "closed"
              /\ Apply(fd, writer(Without(c, "WRITE"), TRUE), inbox[fd], <<>>)
           \/ /\ peer[fd] = "open"
              /\ \E n \in 1 .. left : \E d \in {[c EXCEPT !.currently_wrote = @ + n]} :
                    Apply(fd, IF n < left THEN Kept(d) ELSE writer(Without(d, "WRITE"), FALSE),
                          inbox[fd], SubSeq(c.out, c.currently_wrote + 1, c.currently_wrote + n))
        /\ UNCHANGED running

\* What a read task lacks, and the part of it that is in the socket.
Lacks(c) == c.user_size - c.offset - c.currently_read
Filled(c, n, bytes) ==
    [c EXCEPT !.data = SubSeq(@, 1, c.offset + c.currently_read) \o SubSeq(bytes, 1, n),
              !.currently_read = @ + n]

\* Faulty variant: a task that got less than it asked for is taken for the end.
read_hastily(fd) ==
    \E n \in {Min({Lacks(conn[fd]), Len(inbox[fd])})} :
    \E d \in {Filled(conn[fd], n, inbox[fd])} :
        /\ running
        /\ "READ" \in d.jobs
        /\ inbox[fd] # <<>> \/ peer[fd] = "closed"
        /\ Apply(fd, reader(Without(d, "READ"), Lacks(d) > 0),
                 SubSeq(inbox[fd], n + 1, Len(inbox[fd])), <<>>)
        /\ UNCHANGED running

\* Reading goes on until the task has all it asked for, the socket is empty, or
\* the client is gone and has left nothing more.
data_may_be_read(fd) ==
    \E n \in {Min({Lacks(conn[fd]), Len(inbox[fd])})} :
    \E d \in {Filled(conn[fd], n, inbox[fd])} :
        /\ running
        /\ "READ" \in d.jobs
        /\ inbox[fd] # <<>> \/ peer[fd] = "closed"
        /\ Apply(fd, IF Lacks(d) > 0 /\ peer[fd] = "open" THEN Kept(d)
                     ELSE reader(Without(d, "READ"), Lacks(d) > 0),
                 SubSeq(inbox[fd], n + 1, Len(inbox[fd])), <<>>)
        /\ UNCHANGED running

\* SIGTERM or SIGINT: io_service_run returns, and driver_core_deinit closes all.
driver_core_deinit ==
    /\ running
    /\ running' = FALSE
    /\ connections' = {} /\ connection_state' = {}
    /\ conn' = [fd \in Fds |-> NoConnection]
    /\ peer' = [fd \in Fds |-> "none"]
    /\ script' = [fd \in Fds |-> <<>>]
    /\ unsent' = [fd \in Fds |-> <<>>]
    /\ inbox' = [fd \in Fds |-> <<>>]
    /\ got' = [fd \in Fds |-> <<>>]
    /\ calls' = [fd \in Fds |-> <<>>]

Handle(fd) == acceptor(fd) \/ data_may_be_sent(fd) \/ data_may_be_read(fd)

Next ==
    \/ \E fd \in Fds :
          \/ acceptor(fd)
          \/ data_may_be_sent(fd)
          \/ data_may_be_read(fd)
          \/ Connect(fd)
          \/ ClientSends(fd)
          \/ ClientCloses(fd)
    \/ driver_core_deinit

Spec == Init /\ [][Next]_vars

\* The loop serves every descriptor that is ready and has a job.
FairSpec == Spec /\ \A fd \in Fds : WF_vars(Handle(fd))

-----------------------------------------------------------------------------
(* Properties.                                                             *)

\* Reading stays inside the buffer, and what has been read is all there: the
\* tasks' counters (offset, currently_read, currently_wrote) fit the buffers.
BuffersFit ==
    /\ running \in BOOLEAN
    /\ connections \subseteq Fds /\ connection_state \subseteq Fds
    /\ peer \in [Fds -> {"none", "open", "closed"}]
    /\ \A fd \in Fds :
          LET c == conn[fd]
          IN  /\ c.jobs \subseteq {"READ", "WRITE"}
              /\ Len(c.data) = c.offset + c.currently_read
              /\ Len(c.data) <= c.user_size
              /\ c.currently_wrote \in 0 .. Len(c.out)
              /\ c.args_received \in 0 .. c.argc

\* A connection is always either read from or written to, never both and never
\* neither (data_may_be_sent and data_may_be_read remove their job before the
\* callback posts the next): with neither it would be stuck, with both an answer
\* could be overwritten while it is sent.  The trees of the server and of the
\* core have the same keys, so that a descriptor that is used again finds no
\* state of its last connection.
OneTaskEach ==
    /\ connections = connection_state
    /\ \A fd \in Fds :
          conn[fd].jobs \in IF fd \in connections THEN {{"READ"}, {"WRITE"}} ELSE {{}}

\* All that a client is to get.
Answers(fd) ==
    greeting \o Joined([i \in DOMAIN script[fd] |->
                    Response(script[fd][i].cmd_idx, Len(script[fd][i].argv))])

\* The client gets the greeting and then the answers to its commands, each
\* once, whole and in the order of the commands (task2/README: an answer is
\* obligatory), however commands and answers were cut.
AnswersInOrder ==
    \A fd \in Fds :
        /\ Len(got[fd]) <= Len(Answers(fd))
        /\ got[fd] = SubSeq(Answers(fd), 1, Len(got[fd]))

\* Handlers are called for the commands sent, in their order, with the number of
\* arguments sent and, where that is one, with the argument sent: no byte of a
\* command is taken for a part of the next, also when an argument is empty.
CallsAsSent ==
    \A fd \in Fds :
        /\ Len(calls[fd]) <= Len(script[fd])
        /\ \A i \in DOMAIN calls[fd] :
              LET call == calls[fd][i]
                  sent == script[fd][i]
              IN  /\ call.cmd_idx = sent.cmd_idx
                  /\ Len(call.argv) = Len(sent.argv)
                  /\ Len(sent.argv) = 1 => call.argv = sent.argv

\* A client that keeps to the protocol is never dropped: while the driver runs,
\* only the connection of a client that has gone is closed.
KeepsClients ==
    [][\A fd \in Fds : fd \in connections \ connections' => ~ running' \/ peer[fd] = "closed"]_vars

\* A client that has sent all its commands gets all its answers, unless it goes
\* or the driver is stopped.
Answered ==
    \A fd \in Fds : []<>(peer[fd] # "open" \/ unsent[fd] # <<>> \/ got[fd] = Answers(fd))
=============================================================================
