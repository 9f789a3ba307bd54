------------------------------- MODULE Shell -------------------------------
(***************************************************************************)
(* supertel/task2, the shell: shell.c on the client of UNIX sockets        *)
(* (unix-socket-client.c).  It watches the directory where drivers create  *)
(* their sockets, connects to each, reads its greeting, and passes on the  *)
(* commands that are typed.  Drivers come and go at any moment, and are    *)
(* otherwise as Driver shows them to be: a greeting first, then an answer  *)
(* to each command.  Nobody makes the user wait for an answer.             *)
(*                                                                         *)
(* Messages are sequences of parts, of which the first byte counts when    *)
(* one is taken for another.  The job table is that of io-service.c: a     *)
(* slot that is taken keeps its job, a closed descriptor leaves the epoll  *)
(* set and not the table, and the set follows the table when the loop is   *)
(* notified.                                                               *)
(***************************************************************************)
EXTENDS Integers, FiniteSets, SequencesExt

CONSTANTS
    Drivers,    \* pairs of a name and a slot
    Commands,   \* what the greetings list: names and arities
    Scripts,    \* what may be typed, sequences of words and newlines
    MaxStarts,  \* how often a driver is started
    MaxFd,      \* descriptors are 1 .. MaxFd
    Numbers,    \* the words that are numbers
    Pieces      \* in how many words at once the input arrives

ASSUME ShellAssumption ==
    /\ MaxStarts \in Nat /\ MaxFd \in Nat /\ Pieces \subseteq Nat \ {0}
    /\ \A i \in DOMAIN Commands : Commands[i].arity \in 0 .. 255

NL == "newline"

VARIABLES
    driver,         \* driver -> "absent", "bound", "listening", "gone"
    starts,         \* driver -> how often it has been started
    early,          \* drivers started between the watch and the scan
    inotify,        \* the events in the inotify descriptor
    link,           \* descriptor -> the connection: peer, what is due, what has come
    typed,          \* the input that has not been read
    script,         \* the whole input
    pc,             \* where the shell is
    todo,           \* the events base_dir_event, or the scan, has yet to handle
    input_buffer,   \* words that have been read
    offset,         \* input_buffer.offset
    ran,            \* the lines that have been run
    clients,        \* the clients, in the order of their lists
    job,            \* the io service's jobs, by descriptor and operation: a client or 0
    polled,         \* descriptors in the epoll set
    fault           \* a failed assertion, or memory used that holds nothing

world == <<driver, starts, early>>
user  == <<typed, script>>
lines == <<input_buffer, offset, ran>>
table == <<clients, job, polled, link, fault>>
vars == <<world, inotify, user, pc, todo, lines, table>>

Fds == 1 .. MaxFd

-----------------------------------------------------------------------------
(* The protocol (protocol.h).                                              *)

PR_DRV_INFO     == 0
PR_DRV_RESPONSE == 2

Part(kind, first) == [kind |-> kind, first |-> first]

Letter == 100   \* the first byte of a name or a text, none of the signatures

Greeting ==
    <<Part("signature", PR_DRV_INFO), Part("number", Len(Commands))>>
        \o [i \in DOMAIN Commands |-> Part("command", Letter + i)]

Text(cmd_idx) == <<Part("text", Letter + cmd_idx), Part("more", Letter)>>

Response(cmd_idx) ==
    <<Part("signature", PR_DRV_RESPONSE), Part("number", Len(Text(cmd_idx)))>> \o Text(cmd_idx)

Garbage == Part("garbage", Letter)

NoLink == [peer |-> "none", due |-> <<>>, inbox |-> <<>>]
NewLink == [peer |-> "open", due |-> Greeting, inbox |-> <<>>]

-----------------------------------------------------------------------------
(* The io service, and the client of UNIX sockets.  The operators change a *)
(* record of the clients, the jobs, the connections, whether the loop is   *)
(* to be notified and whether something went wrong; i is a place among the *)
(* clients.                                                                *)

Table == [clients |-> clients, job |-> job, link |-> link, note |-> FALSE, fault |-> FALSE]

io_service_post_job(t, fd, op, id) ==
    IF t.job[fd][op] # 0 THEN t ELSE [t EXCEPT !.job[fd][op] = id, !.note = TRUE]

io_service_remove_job(t, fd, op) ==
    [t EXCEPT !.job[fd][op] = 0, !.note = @ \/ t.job[fd][op] # 0]

InUse(t) == {t.clients[i].fd : i \in DOMAIN t.clients}

\* socket returns the lowest free descriptor.
Lowest(used) == Min(Fds \ used)

\* The handlers of a step have returned; a notification brings the epoll set up
\* to date.
Apply(t) ==
    /\ clients' = t.clients
    /\ job' = t.job
    /\ link' = t.link
    /\ fault' = t.fault
    /\ polled' = IF t.note
                 THEN {fd \in InUse(t) : t.job[fd] # [READ |-> 0, WRITE |-> 0]}
                 ELSE polled \cap InUse(t)

unix_socket_client_recv(t, i, sz, reader) ==
    LET c == t.clients[i]
    IN  io_service_post_job(
            [t EXCEPT !.clients[i].user_size = @ + sz, !.clients[i].reader = reader],
            c.fd, "READ", c.id)

\* A command is sent before the last exchange is over.
Hasty(t, i) == t.job[t.clients[i].fd] # [READ |-> 0, WRITE |-> 0]

unix_socket_client_send(t, i, cmd_idx) ==
    LET c == t.clients[i]
    IN  io_service_post_job(
            [t EXCEPT !.clients[i].out = <<cmd_idx>>, !.clients[i].hasty = @ \/ Hasty(t, i)],
            c.fd, "WRITE", c.id)

\* Faulty variant: the buffer still holds the last message.
AwaitSignature_after_last(t, i) ==
    unix_socket_client_recv([t EXCEPT !.clients[i].out = <<>>], i, 1, "signature")

\* Both buffers are emptied, and the signature of what comes next is read.
AwaitSignature(t, i) ==
    unix_socket_client_recv(
        [t EXCEPT !.clients[i].data = <<>>, !.clients[i].user_size = 0, !.clients[i].out = <<>>],
        i, 1, "signature")

\* connect: refused while nobody listens.  connector follows at once.
unix_socket_client_connect(t, i) ==
    LET c == t.clients[i]
    IN  IF driver[c.drv] # "listening" THEN t
        ELSE AwaitSignature([t EXCEPT !.clients[i].connected = TRUE, !.link[c.fd] = NewLink], i)

\* The jobs of the descriptor stay.
unix_socket_client_disconnect(t, i) ==
    [t EXCEPT !.link[t.clients[i].fd] = NoLink, !.clients[i].connected = FALSE]

unix_socket_client_reconnect(t, i) ==
    IF ~ t.clients[i].connected THEN [t EXCEPT !.fault = TRUE]
    ELSE LET others == InUse([t EXCEPT !.clients = RemoveAt(t.clients, i)])
             closed == unix_socket_client_disconnect(t, i)
         IN  unix_socket_client_connect(
                 [closed EXCEPT !.clients[i].fd = Lowest(others),
                                !.clients[i].asked = <<>>, !.clients[i].shown = <<>>,
                                !.clients[i].hasty = @ \/ Hasty(t, i)], i)

\* data_may_be_sent and the writer of shell.c.  A command is written at once.
data_may_be_sent(fd, i) ==
    LET c    == clients[i]
        sent == io_service_remove_job(Table, fd, "WRITE")
        fine == c.out = <<>> \/ link[c.fd].peer = "open"
    IN  IF ~ fine
        THEN unix_socket_client_reconnect(
                 [sent EXCEPT !.clients[i].data = <<>>, !.clients[i].user_size = 0,
                              !.clients[i].out = <<>>], i)
        ELSE AwaitSignature(
                 [sent EXCEPT !.clients[i].asked = @ \o c.out,
                              !.link[c.fd].due = @ \o FlattenSeq([k \in DOMAIN c.out |-> Response(c.out[k])])],
                 i)

Required(t, i) == 2 + t.clients[i].data[2].first

Body(t, i) == SubSeq(t.clients[i].data, 3, Required(t, i))

\* A header has been read, and maybe a body: read on, or have it used.
ReadBody(t, i, reader, used) ==
    LET size == t.clients[i].user_size
    IN  IF size < Required(t, i)
        THEN unix_socket_client_recv(t, i, Required(t, i) - size, reader)
        ELSE used

reader_info(t, i) ==
    ReadBody(t, i, "info",
        [t EXCEPT !.clients[i].commands = Body(t, i), !.clients[i].known = TRUE])

\* Faulty variant: the text is taken to start at the response, not after it.
reader_response_from_start(t, i) ==
    ReadBody(t, i, "response",
        [t EXCEPT !.clients[i].shown =
            Append(@, SubSeq(t.clients[i].data, 1, Len(Body(t, i))))])

reader_response(t, i) ==
    ReadBody(t, i, "response", [t EXCEPT !.clients[i].shown = Append(@, Body(t, i))])

reader_signature(t, i) ==
    LET s == t.clients[i].data[1].first
    IN  CASE s = PR_DRV_INFO     -> unix_socket_client_recv(t, i, 1, "info")
          [] s = PR_DRV_RESPONSE -> unix_socket_client_recv(t, i, 1, "response")
          [] OTHER               -> unix_socket_client_reconnect(t, i)

\* One read of what is there, however little of what was asked for: the rest
\* of the buffer holds anything.  Nothing there is the end of the stream, and
\* the readers leave it at that.
data_may_be_read(fd, i) ==
    LET c      == clients[i]
        wanted == c.user_size - Len(c.data)
        n      == Min({wanted, Len(link[fd].inbox)})
        read   == io_service_remove_job(
                      [Table EXCEPT !.clients[i].data = @ \o SubSeq(link[fd].inbox, 1, n)
                                                          \o [k \in 1 .. wanted - n |-> Garbage],
                                    !.clients[i].short = @ \/ n < wanted,
                                    !.link[fd].inbox = SubSeq(@, n + 1, Len(@))],
                      fd, "READ")
    IN  IF link[fd].inbox = <<>> THEN io_service_remove_job(Table, fd, "READ")
        ELSE CASE c.reader = "signature" -> reader_signature(read, i)
               [] c.reader = "info"      -> reader_info(read, i)
               [] c.reader = "response"  -> reader_response(read, i)

\* The loop runs the jobs of a descriptor that is ready.  A context that has
\* been freed, or whose descriptor is no longer this one, is the end of what
\* can be said.
ReadyFor(fd, op) ==
    /\ fd \in polled /\ job[fd][op] # 0
    /\ op = "READ" => link[fd].inbox # <<>> \/ link[fd].peer = "closed"

Alive == ~ fault /\ pc # "stopped"
Loop  == ~ fault /\ pc = "loop"

Handle(fd, op) ==
    /\ Loop /\ ReadyFor(fd, op)
    /\ LET i == SelectInSeq(clients, LAMBDA c : c.id = job[fd][op] /\ c.fd = fd)
       IN  Apply(CASE i = 0       -> [Table EXCEPT !.fault = TRUE]
                   [] op = "READ" -> data_may_be_read(fd, i)
                   [] OTHER       -> data_may_be_sent(fd, i))
    /\ UNCHANGED <<world, inotify, user, pc, todo, lines>>

-----------------------------------------------------------------------------
(* Drivers come and go.                                                    *)

\* malloc: an address that nothing refers to, or one that a job still does.
Addresses ==
    LET live == {clients[i].id : i \in DOMAIN clients}
        jobs == UNION {{job[fd].READ, job[fd].WRITE} : fd \in Fds} \ {0}
    IN  {Min((1 .. 3 * MaxFd) \ (live \cup jobs))} \cup (jobs \ live)

NewClient(id, d) ==
    [id |-> id, drv |-> d, fd |-> Lowest(InUse(Table)), connected |-> FALSE,
     data |-> <<>>, user_size |-> 0, reader |-> "signature", out |-> <<>>,
     known |-> FALSE, commands |-> <<>>,
     asked |-> <<>>, shown |-> <<>>, hasty |-> FALSE, short |-> FALSE]

base_dir_smth_created(id, d) ==
    IF driver[d] = "absent" THEN Table
    ELSE unix_socket_client_connect(
             [Table EXCEPT !.clients = Append(clients, NewClient(id, d))], Len(clients) + 1)

\* Faulty variant: a client that is not connected has nothing to close.
deleted_if_connected(d) ==
    LET i == SelectInSeq(clients, LAMBDA c : c.drv = d)
    IN  IF i = 0 \/ ~ clients[i].connected THEN Table
        ELSE [unix_socket_client_disconnect(Table, i) EXCEPT !.clients = RemoveAt(clients, i)]

base_dir_smth_deleted(d) ==
    LET i == SelectInSeq(clients, LAMBDA c : c.drv = d)
    IN  IF i = 0 THEN Table
        ELSE [unix_socket_client_disconnect(Table, i) EXCEPT !.clients = RemoveAt(clients, i)]

inotify_add_watch ==
    /\ Alive /\ pc = "start"
    /\ pc' = "watched"
    /\ UNCHANGED <<world, inotify, user, todo, lines, table>>

\* scandir; its entries are then treated as created.
connect_to_all_existing_sockets ==
    /\ Alive /\ pc = "watched"
    /\ pc' = "events"
    /\ todo' = SetToSeq({[mask |-> "CREATE", drv |-> d] :
                             d \in {d \in Drivers : driver[d] # "absent"}})
    /\ UNCHANGED <<world, inotify, user, lines, table>>

base_dir_event ==
    /\ Loop /\ inotify # <<>>
    /\ pc' = "events"
    /\ todo' = inotify
    /\ inotify' = <<>>
    /\ UNCHANGED <<world, user, lines, table>>

shell_deinit ==
    /\ pc' = "stopped"
    /\ todo' = <<>>
    /\ Apply([Table EXCEPT !.clients = <<>>, !.link = [fd \in Fds |-> NoLink]])

base_dir_single_event ==
    /\ Alive /\ pc = "events" /\ todo # <<>>
    /\ LET e == Head(todo)
       IN  \/ /\ e.mask = "CREATE"
              /\ \E id \in Addresses : Apply(base_dir_smth_created(id, e.drv))
              /\ todo' = Tail(todo) /\ pc' = pc
           \/ /\ e.mask = "DELETE"
              /\ Apply(base_dir_smth_deleted(e.drv))
              /\ todo' = Tail(todo) /\ pc' = pc
           \/ /\ e.mask = "DELETE_SELF"
              /\ shell_deinit
    /\ UNCHANGED <<world, inotify, user, lines>>

EventsDone ==
    /\ Alive /\ pc = "events" /\ todo = <<>>
    /\ pc' = "loop"
    /\ UNCHANGED <<world, inotify, user, todo, lines, table>>

-----------------------------------------------------------------------------
(* The input.  A command outcome is a set of tables: the list of commands  *)
(* of a client is not initialised before its greeting has been read.       *)

Unharmed == {Table}
Undefined == {Table, [Table EXCEPT !.fault = TRUE]}

cmd_list == IF \A i \in DOMAIN clients : clients[i].known THEN Unharmed ELSE Undefined

cmd_cmd(drv, cmd, argc) ==
    LET i == SelectInSeq(clients, LAMBDA c : c.drv = drv)
        commands == clients[i].commands
        idx == SelectInSeq(commands, LAMBDA p :
                   p.kind = "command" /\ Commands[p.first - Letter].name = cmd)
    IN  CASE i = 0                  -> Unharmed
          [] ~ clients[i].known     -> Undefined
          [] idx = 0                -> Unharmed
          [] Commands[commands[idx].first - Letter].arity < argc -> Unharmed
          [] OTHER                  -> {unix_socket_client_send(Table, i, idx)}

TooLong == "an argument of more than 255 bytes"

\* Anything that is not sent to a driver ends in a prompt at once.
run_command_from_input(line) ==
    CASE line = <<>>                    -> Unharmed
      [] line[1] = "list"               -> cmd_list
      [] line[1] # "cmd"                -> Unharmed
      [] Len(line) < 4                  -> Unharmed
      [] line[3] \notin Numbers         -> Unharmed
      [] \E k \in 5 .. Len(line) : line[k] = TooLong -> Unharmed
      [] OTHER                          -> cmd_cmd(<<line[2], line[3]>>, line[4], Len(line) - 4)

\* The place of the first newline at or after offset, or Len + 1.
detect_newline_on_input ==
    Min({Len(input_buffer) + 1} \cup
        {k \in offset + 1 .. Len(input_buffer) : input_buffer[k] = NL})

on_input(n) ==
    /\ Loop /\ n \in 1 .. Len(typed)
    /\ input_buffer' = input_buffer \o SubSeq(typed, 1, n)
    /\ typed' = SubSeq(typed, n + 1, Len(typed))
    /\ pc' = "input"
    /\ UNCHANGED <<world, inotify, script, todo, offset, ran, table>>

\* Faulty variant: the search for the next newline goes on where it was.
shift_keeps_offset(k) ==
    /\ input_buffer' = SubSeq(input_buffer, k + 1, Len(input_buffer))
    /\ offset' = k

\* What is left of the input when a line ends at the newline k.
shift_input(k) ==
    /\ input_buffer' = SubSeq(input_buffer, k + 1, Len(input_buffer))
    /\ offset' = 0

RunLine ==
    /\ Alive /\ pc = "input"
    /\ LET k    == detect_newline_on_input
           line == SubSeq(input_buffer, 1, k - 1)
       IN  /\ k <= Len(input_buffer)
           /\ \E t \in run_command_from_input(line) : Apply(t)
           /\ ran' = Append(ran, line)
           /\ shift_input(k)
    /\ UNCHANGED <<world, inotify, user, pc, todo>>

LinesDone ==
    /\ Alive /\ pc = "input"
    /\ detect_newline_on_input > Len(input_buffer)
    /\ offset' = Len(input_buffer)
    /\ pc' = "loop"
    /\ UNCHANGED <<world, inotify, user, todo, input_buffer, ran, table>>

\* The end of the input, or a signal.
io_service_stop ==
    /\ Loop
    /\ shell_deinit
    /\ UNCHANGED <<world, inotify, user, lines>>

-----------------------------------------------------------------------------
(* The drivers.  The socket is bound before it is listened to; a driver    *)
(* that ends closes its sockets and then removes the file, and one that is *)
(* killed leaves that to somebody else.                                    *)

Notify(mask, d) ==
    inotify' = IF pc = "start" THEN inotify ELSE Append(inotify, [mask |-> mask, drv |-> d])

DriverBinds(d) ==
    /\ Alive /\ driver[d] = "absent" /\ starts[d] < MaxStarts
    /\ driver' = [driver EXCEPT ![d] = "bound"]
    /\ starts' = [starts EXCEPT ![d] = @ + 1]
    /\ early' = IF pc = "watched" THEN early \cup {d} ELSE early
    /\ Notify("CREATE", d)
    /\ UNCHANGED <<user, pc, todo, lines, table>>

DriverListens(d) ==
    /\ Alive /\ driver[d] = "bound"
    /\ driver' = [driver EXCEPT ![d] = "listening"]
    /\ UNCHANGED <<starts, early, inotify, user, pc, todo, lines, table>>

DriverCloses(d) ==
    /\ Alive /\ driver[d] = "listening"
    /\ driver' = [driver EXCEPT ![d] = "gone"]
    /\ link' = [fd \in Fds |->
           IF \E i \in DOMAIN clients : clients[i].fd = fd /\ clients[i].drv = d
                                        /\ link[fd].peer = "open"
           THEN [link[fd] EXCEPT !.peer = "closed", !.due = <<>>] ELSE link[fd]]
    /\ UNCHANGED <<starts, early, inotify, user, pc, todo, lines, clients, job, polled, fault>>

DriverUnlinks(d) ==
    /\ Alive /\ driver[d] = "gone"
    /\ driver' = [driver EXCEPT ![d] = "absent"]
    /\ Notify("DELETE", d)
    /\ UNCHANGED <<starts, early, user, pc, todo, lines, table>>

DriverSends(fd, n) ==
    /\ Alive /\ n \in 1 .. Len(link[fd].due)
    /\ link' = [link EXCEPT ![fd].inbox = @ \o SubSeq(link[fd].due, 1, n),
                            ![fd].due = SubSeq(@, n + 1, Len(@))]
    /\ UNCHANGED <<world, inotify, user, pc, todo, lines, clients, job, polled, fault>>

\* The directory is removed: no driver can be started any more.
DirectoryRemoved ==
    /\ Alive /\ pc # "start" /\ \A d \in Drivers : driver[d] = "absent"
    /\ \E d \in Drivers : starts[d] < MaxStarts
    /\ starts' = [d \in Drivers |-> MaxStarts]
    /\ inotify' = Append(inotify, [mask |-> "DELETE_SELF", drv |-> "none"])
    /\ UNCHANGED <<driver, early, user, pc, todo, lines, table>>

-----------------------------------------------------------------------------
Init ==
    /\ driver \in [Drivers -> {"absent", "listening"}]
    /\ starts = [d \in Drivers |-> IF driver[d] = "absent" THEN 0 ELSE 1]
    /\ early = {} /\ inotify = <<>>
    /\ link = [fd \in Fds |-> NoLink]
    /\ script \in Scripts /\ typed = script
    /\ pc = "start" /\ todo = <<>>
    /\ input_buffer = <<>> /\ offset = 0 /\ ran = <<>>
    /\ clients = <<>>
    /\ job = [fd \in Fds |-> [READ |-> 0, WRITE |-> 0]]
    /\ polled = {} /\ fault = FALSE

\* The steps the shell takes by itself inside a handler, or before the loop.
Inner ==
    \/ inotify_add_watch
    \/ connect_to_all_existing_sockets
    \/ base_dir_single_event
    \/ EventsDone
    \/ RunLine
    \/ LinesDone

\* What is done without anybody's wish: handlers return, the loop serves what is
\* ready, and a driver that lives sends what it owes.
Serve ==
    \/ Inner
    \/ base_dir_event
    \/ \E fd \in Fds, op \in {"READ", "WRITE"} : Handle(fd, op)
    \/ \E fd \in Fds : \E n \in 1 .. Len(link[fd].due) : DriverSends(fd, n)

Next ==
    \/ Serve
    \/ io_service_stop
    \/ \E n \in Pieces : on_input(n)
    \/ \E d \in Drivers : \/ DriverBinds(d) \/ DriverListens(d)
                          \/ DriverCloses(d) \/ DriverUnlinks(d)
    \/ DirectoryRemoved

Spec == Init /\ [][Next]_vars

\* When Serve is enabled.
Pending ==
    /\ Alive
    /\ \/ pc # "loop" \/ inotify # <<>>
       \/ \E fd \in Fds : link[fd].due # <<>> \/ ReadyFor(fd, "READ") \/ ReadyFor(fd, "WRITE")

\* Weak fairness of Serve.  Its steps are those that leave the user's and the
\* drivers' choices alone.
FairSpec ==
    /\ Spec
    /\ []<> ~ Pending \/ []<><<UNCHANGED <<driver, starts, typed>> >>_vars

-----------------------------------------------------------------------------
\* The complete lines of a text.
Lines(text) ==
    LET ends == {k \in 1 .. Len(text) : text[k] = NL}
        at   == SetToSortSeq(ends, <)
    IN  [l \in 1 .. Len(at) |->
           SubSeq(text, (IF l = 1 THEN 0 ELSE at[l - 1]) + 1, at[l] - 1)]

\* However the input is cut into pieces, on_input runs each line that has been
\* read to its end, once, whole and in order, before it returns to the loop.
LinesInOrder ==
    Loop => ran = Lines(SubSeq(script, 1, Len(script) - Len(typed)))

\* A client whose last exchange was over whenever a command was sent to its
\* driver, and none of whose reads fell short, shows the answers to the
\* commands it has sent on its connection, in order, none twice and none of
\* another command; also when the driver went and the client reconnected.
AnswersPaired ==
    ~ fault => \A i \in DOMAIN clients :
        LET c == clients[i]
        IN  ~ c.hasty /\ ~ c.short =>
                IsPrefix(c.shown, [k \in DOMAIN c.asked |-> Text(c.asked[k])])

\* Once its events have been handled, the shell has one client for each socket
\* in the directory and none for others, in whatever order sockets came and
\* went, unless the driver was started between the watch and the scan.
TracksDrivers ==
    Loop /\ inotify = <<>> =>
        \A d \in Drivers \ early :
            Cardinality({i \in DOMAIN clients : clients[i].drv = d})
                = IF driver[d] = "absent" THEN 0 ELSE 1

\* A client that has asked and has not been answered, with its driver alive.
Waits(fd) ==
    /\ Alive
    /\ \E i \in DOMAIN clients :
          LET c == clients[i]
          IN  /\ c.fd = fd /\ ~ c.hasty /\ ~ c.short
              /\ c.out # <<>> \/ Len(c.shown) < Len(c.asked)
              /\ link[fd].peer = "open"

\* The user gets the answer to a command, or the driver or the shell ends: no
\* client waits forever on a job that nothing polls.
CommandsAnswered == []<>(\A fd \in Fds : ~ Waits(fd))
=============================================================================
