# Models and proofs of the `interview` programs

TLA+ modules for the programs of this repository, TLC configurations that check
them on small instances, and TLAPS proofs for all instances. Every definition
is translated from the source; `PROJECT.json` maps definitions to lines.

## The system

The repository holds independent programs.

| part | what it is | module |
|---|---|---|
| `supertel/lib/io-service.c` | event loop on epoll with a table of jobs | `IoService`, abstractly `JobRegistry` |
| `supertel/lib/timer.c` | timers on that loop | `Timer` |
| `supertel/task1/src/slave.c` | slaves that answer a master and elect one when it is gone | `Slave` |
| `supertel/task1/src/master*.c` | requests and running averages of the slaves' sensors | `Averages`, and `master_*` of the elections |
| slaves, master and the network | | `LossyElection`, `TimedElection` |
| `supertel/lib/avl-tree.c` | balanced tree: the master's slaves, a driver's connections | `AvlTree` |
| `supertel/lib/hash-map.c`, list of `containers.c` | that tree with a list in each node | `HashMap` |
| `iss/receiver.cpp` | binary and text packets from a stream cut into chunks | `Receiver` |
| `satellite-soft-labs` | HTTP server for a table of users, with a cache and a database thread | `UserServer`, abstractly `UserStore` |
| `supertel/task2`: `driver-core.c`, `unix-socket-server.c`, `driver-payloads.c` | drivers that serve commands over UNIX sockets | `Driver` |
| `supertel/task2`: `shell.c`, `unix-socket-client.c` | the shell that uses them | `Shell` |
| `cqg` | checker of parentheses in the lines of a text | `Parentheses` |

## The modules

**IoService.** The lookup table (`job`, `oneshot`, `events`), the epoll set
(`added`, `mask`), the event counter that wakes the loop, and the loop with its
place (`pc`), its fetched events and the job it is in. `io_service_post_job`,
`io_service_remove_job` and `io_service_stop` may be called outside `run` and
from within any job; `Notified`, `Fetch`, `Dispatch` and `JobReturns` are the
loop. Descriptors are opened and closed by clients and become ready by the
kernel. `JobRegistry` is the promise: a job is called only while registered,
once if one-shot, and none is registered after a stop.

**Timer and Slave** are values and functions: a handler maps the record of a slave
and an input to the new record and the packets it broadcasts. `Slave` also declares
the records of all slaves (`node`), which the two elections share; they differ in
what surrounds the handlers. Where both have an action for the same code, that of
`LossyElection` says so in its name (`lossy_data_received`, `LossyPollTimer`).
`LossyElection` keeps every packet ever sent: any of them may arrive at any
time, any number of times, at anybody including its sender, and any armed timer
may fire at any time. `TimedElection` has the datagrams in flight, equal ones
numbered, and a clock that advances when nothing is due; it assumes that recvfrom reports the sender, so
that a node drops its own packets.

**Averages** keeps the numbers `TimedElection` abstracts to "changed or not",
with the C integer types as parameters `Byte`, `Word`, `Size`.

**AvlTree** is the heap of nodes with stored heights and parent pointers.
**HashMap** extends it by the lists: elements with `next` and `prev`, and
`front`, `back` and `count` for each node. Beside the map's own operations its
clients may use every way `containers.c` has to add to a list. An element that
is freed is handed out again. `hash_map_remove` purges a list from memory that
was freed before (avl-tree.c:246-251); its elements are freed or leaked there.

**Receiver** is the buffer with its read offset and reserved size.

**UserServer** has the handlers on the pool and on the main thread, the two
parallel queues, the database thread, the cache, the reply object that lives
from request to request, and shutdown. A failed transaction terminates the
process, because `commit` throws in a thread where nothing catches. `UserStore`
is what clients see: each request gets its own reply, from the table at one
moment between request and reply. The kind of a reply with all users is left
open in `UserStore`, because the code does not set it (below).

**Driver** is the core of a driver on the server of UNIX sockets. For each
descriptor it has the two trees' entries, the read and the write task with their
buffers and counters, the jobs posted, and the counters of the command being
received; `acceptor`, `data_may_be_sent`, `data_may_be_read` and
`driver_core_deinit` are the handlers, with the callbacks `reader` and `writer`
inside them. Sockets pass bytes from the client in any cuts; what the driver
sends is in pieces (headers, descriptions, texts) and is cut between pieces.
Clients send what `cmd_cmd` of the shell lets through (`DriverAssumption`: commands
of the payload, no more arguments than it allows, of at most 255 bytes), and go at
any moment. The
trees are sets here, and a failing `accept` or `malloc` is left out. A connection
is used after it was freed when it is closed (unix-socket-server.c:247-249); the
model takes it that its contents are still there.

**Shell** is `shell.c` on `unix-socket-client.c`. It has the directory with its
inotify events, one record per client (descriptor, buffer, reader, what was asked
and shown), the job table and epoll set of the loop, and the input with its
offset. `base_dir_event`, `on_input` and `Handle` are the jobs; a handler that
goes over several events or lines does so in inner steps, between which drivers
may move. Messages are sequences of parts. Input is read in words.

- `fault` is a failed assertion, or a job whose context was freed or whose
  descriptor is no longer its client's. Nothing is claimed afterwards.
- The commands of a client are uninitialised until its greeting was read: using
  them before that either does nothing or is a fault.
- A command is written at once, and a notification of the loop is served at once;
  `IoService` has these in steps.
- `hasty` (a command was sent before the last exchange was over), `short` (a read
  returned less than was asked for) and `early` (a driver was started between the
  watch and the scan) record what the code does not handle. `AnswersPaired` and
  `CommandsAnswered` except the first two and `TracksDrivers` the third; without
  these exceptions TLC finds them violated.

**Parentheses** is `main`'s loop on `Input` and `ParenthesisChecker`. A block is
any part of the rest of the text, a read may fail, and a line that failed is
skipped to its end. The reference it is checked against counts parentheses in
whole lines, as `test/creator.c` does.

## Runs

| run | shows |
|---|---|
| `io_service` | no lost registration, epoll and table agree, refinement of `JobRegistry`; ready jobs are called, a stop that does not wait returns |
| `lossy_election` | timers fit states, a polling slave is ahead of the votes it heard, mastery only by a won poll |
| `timed_election` | no slave polls or acts as the master while the regular master runs; a master is heard before anyone gives it up; after a kill the system settles on one master |
| `two_masters` | violation, below |
| `hash_map` | search, balance and iteration of trees of up to 11 hashes, removal at up to 6; lists kept in both directions |
| `avl_remove` | violation, below |
| `averages` | exact sums, averages within the values averaged (with one exception, below), messages up to date |
| `receiver` | packets whole and in order for every cut of every stream of three packets |
| `user_server` | refinement of `UserStore`, coherent cache, requests answered, shutdown ends |
| `driver` | commands called and answered in order however they are cut; connections neither stuck nor mixed up nor dropped; all answered |
| `shell` | lines run once and in order, answers with their commands, a client for each socket, commands answered |
| `parentheses` | the report and the exit code are those of the lines as a whole, however they are read; the program ends |

### Where code and documents disagree

- `two_masters`: task1/README:3 says there is always one master. Two slaves draw
  the same vote. The first hears the tie and draws a lower one. The second hears
  the lower vote before the equal one, and takes it in silence (slave.c:245); then
  it hears the tie, forgets the highest vote (slave.c:249) and draws one that is
  lower still, which the first takes in silence. Both polls time out and both
  slaves become masters. No node is killed, and no packet is lost: one overtakes
  another. With three votes to draw from this takes one tie. With votes that never
  collide two masters come about when the regular master is killed during a poll;
  `Settles` in `timed_election` shows that this heals.
- `avl_remove`: `node_remove_min` (avl-tree.c:207) leaves the parent pointer of
  the child it moves. With seven keys a parent is wrong; with more keys,
  iteration (8) and balance (10) fail too. This is why `hash_map` bounds removal.

Seen while modelling, without a run of their own.

task1:
- A negative sum of temperatures is divided as an unsigned number
  (master-private.c:121, against "средняя температура (знаковая)", task1/README:74).
  `AveragesAreMeans` excepts these sums, unless the count divides 2^64.
- `master_act` decodes a response one byte too far (master-private.c:160 against
  task1/README:66-69); responses are broadcast where task1/README:43 says they
  are addressed.
- The length of the address is not initialised before recvfrom (slave.c:411).
  `LossyElection` lets a node hear itself, `TimedElection` does not.
- `signal_caught` closes its descriptor and leaves its job (common.c:24); a stop
  that waits for jobs never returns while such a job is there (io-service.c:169).

satellite-soft-labs:
- A request for all users gets the kind of the previous reply (Database.cpp:244),
  where client.cpp:337-339 expects 200.
- A POST whose body comes in two reads never completes (Server.cpp:44-50).

iss: at most one packet is delivered per chunk, where iss/task.txt wants each as
soon as it ends (`OnePacketPerChunk` states what the code does).

task2:
- A command with two arguments or more gets the last one as the first and garbage
  for the others (driver-core.c:199-209; `CallsAsSent` compares single arguments).
- The test for a duplicate driver never matches (shell.c:804), so that a driver
  created between the watch and the scan gets two clients.
- A driver that goes while its client waits to read leaves a job with a freed
  context (shell.c:889).
- The client reads once and takes a short read for a complete one
  (unix-socket-client.c:105-152).
- A command typed before the last one is answered overwrites its state. After a
  failed reconnection the next one fails `assert(usc->connected)`
  (unix-socket-client.c:325).
- task2/README:12-13 says that a driver's end is signalled by the end of its
  stream; the code waits for the removal of its file.

containers and trees:
- `hash_map_remove` of a hash that is not there dereferences NULL, and
  `hash_map_purge` leaks the lists.
- `list_purge` reads `next` of a freed element. `list_remove_and_advance` of NULL
  lowers the count.
- `vector_insert`, which nobody calls, takes pointers before it reallocates
  (containers.c:199-211).

cqg: an unterminated last line that lacks a closing parenthesis is not reported
and the program exits with success, where item 5 of analyzer_of_parenthesis.txt
says "The app shall report state of last sequence to output and exit if EOF is
detected". `ParenthesisChecker::reset` does not return a value on success.

## Bounds

- `io_service`: one descriptor with both operations, at most 3 pending
  notifications. The safety properties are proved for every set of descriptors.
  The two liveness properties are checked for this descriptor only.
- `lossy_election`: two slaves, three votes, so that votes collide and exceed.
  Timer lengths do not matter there and are 0.
- `timed_election`: two slaves and the regular master; the lengths keep the
  order of the code's (poll < request < gone = 2 requests). A behaviour has one of
  two settings: colliding votes, changing averages, nobody killed and 5
  datagrams in flight; or one node killed, votes that differ between slaves,
  averages that stay and 12 datagrams in flight. `Settles` is about the second:
  votes that collide for ever never settle.
- `two_masters`: the same nodes with three votes each, nobody killed and 6
  datagrams in flight.
- `hash_map`: 11 hashes reach all rotations. Three elements give a list a front, a
  middle and a back; lists are filled in maps of at most two nodes, so that
  elements go from one list to another.
- `averages`: three addresses, so that the count need not be a power of two;
  bytes of 2 bits, words wide enough that sums do not wrap, as in the code. All
  three properties are proved for every number of slaves whose sums fit.
- `receiver`: size fields in base 2, so that small sizes use several bytes. The
  properties are proved for every stream.
- `driver`: two descriptors that are used again and again, two commands per
  client, with no, one empty, one and two arguments. Safety is proved for all
  payloads and all commands.
- `shell`: one driver, there at the start or not, started at most twice, so that it
  goes and comes back; two scripts, with commands of both arities, a local command
  and an empty line, in pieces of four or seven words, which cut lines and join
  them; two descriptors, so that numbers are used again. With one driver, clients
  of different drivers do not meet.
- `parentheses`: texts of up to six characters (opening, closing, another, the
  delimiter) and blocks of up to three: a line may span several blocks, and a block
  may hold several lines. Safety is proved for all texts and blocks.
- `user_server`: two connections, two ids, a pool of one thread besides the main
  one, so that bodies can block every thread.

## Fairness

`IoService` is weakly fair to dispatch, to jobs returning and to leaving `run`.
It is strongly fair to the fetching of each ready descriptor and to
notifications: one event is fetched at a time and the kernel's ready list is a
queue. Nobody has to post or stop. `TimedElection` is weakly fair to everything nodes and the clock do by
themselves, and not to starting and killing. `UserServer` is fair to handlers,
replies, the database thread and shutdown, which are threads that run when they
can; clients, signals and bodies need not come. `Driver` is fair to the handlers
of each descriptor, as the loop of `IoService` is; a socket with a job to write
takes at least a piece, so clients are assumed to read. Clients need not send.
`Shell` is fair to `Serve` as a whole: the loop serves what is ready, handlers
return, and a driver that lives sends what it owes. It is written with `Pending`,
which says when `Serve` is enabled. Users need not type, and drivers need not come
or go. `Parentheses` is weakly fair to the program: its input comes or ends.

## Proofs

`IoServiceProofs`: `IInv` (in `IoService`) is inductive. The three invariants
alone are not: a descriptor that is closed and reopened could inherit interest,
which `OnlyOpen` excludes, and a second call of `run` could find the epoll set
out of date, which `Phases` excludes. From `Invariance` follow
`RegistrationSafe`, `InterestSafe`, `EventsSafe` and, with one case per action,
`Refinement` of `JobRegistry`.

`ElectionProofs` has two parts. Each handler of `Slave` has a lemma that its result
is good, and one on what it may come to (`Outcome`: the slave stays as it is, listens
anew, quits, polls, wins or queries).

For `LossyElection`, `IInv` joins the timers and the votes, since a handler's effect
on timers depends on which branch the votes select. `LossyInvariance` combines the
lemmas, and `TimersSafe`, `PollSafe` and `MasterOnlyByPoll` follow, for every set of
slaves and of votes that are positive; `VotesAssumption` and that timers have lengths
are all this part cites.

For `TimedElection`, `TimedInv` says how far the clocks of two slaves can be apart.
While a vote is on its way to a slave every gone timer is fresh (`VotesFresh`): just
armed, due, or of an idle slave that is about to hear a vote. No gone timer is ahead
of one of a slave that waits (`WaitersFirst`). A poll ends, and a slave that became
the master queries, before any gone timer runs out (`PollersAhead`, `MastersAhead`).
None of these is inductive alone: a slave that quits a poll arms its gone timer at a
time that only the vote it heard ties to the others' timers. `PollersReset` says that
while the regular master runs, a slave that polls or is the master has a reset on its
way or a vote on the way to the regular master. Every step is one of four kinds
(`TimedSteps`), and each keeps `TimedInv`. `HeardSafe` and `RegularMasterSafe` follow,
for every set of slaves, every setting and all lengths of timers for which
`SlavePolling + MasterRequest < MasterGone`.

`UserServerProofs`: `IInv` adds to `CacheCoherent` that the two queues are
parallel and hold each connection once (`Parallel`), that the database thread has
the connection of the request it executes (`InHand`), and how far each request has
come (`PhaseFits`). Without these a reply could go to another connection. Each
handler and thread step has a lemma. `CacheSafe` follows at once. For `Refinement`
of `UserStore`, executing a request is the step that serves it, shown case by case
in `ExecuteServes`; arrivals and departures of clients map to their own steps and
the rest to stutters. Assumed is only `ServerAssumption` on the constants.

`Foundations` has what the next four need of induction and of sequences: a least
element, induction over the natural numbers stated with a set, definition by
recursion (`RecursionExists`), slices of slices, and sequences that are joined:
each lies in the whole behind the ones before it (`FlatLaid`), and pieces of a
whole can be cut and put together (`Part`). Stated with sets and functions, not
with operators, these can be cited.

`ReceiverProofs`: a packet that is at the front of the stream is found in the
buffer at the same place, whatever part of the stream the buffer holds
(`SamePacket`), and `memmem` finds the first terminator. `IInv` says that the
buffer holds the stream from the end of the last packet delivered to what has been
fed, and that the text before the read offset holds no terminator. `BufferSafe`,
`PacketsDelivered`, `RestKept` and the action property `ChunkDelivers` follow, for
every stream of bytes and every cut.

`ParenthesesProofs`: the place in the text (`At`) ties the block, the rest of the
text and the line in work together. A lemma for each function: `memchr` and
`readAndDetectNewline` hand out the parts of a line in order; `validate` brings the
checker from one place of a line to a later one (`CheckerIs`: it counts what is
open, or has stopped at the first superfluous parenthesis); what it then reports
is what is expected of the whole line (`FailedVerdict`, `LineVerdict`). `IInv` adds
to these that everything before `At` has been reported. `LinesReported` and
`ExitCodeTells` follow, for all texts, all sizes of blocks and all cuts.

`AveragesProofs` begins with sums over finite sets: the recursion behind
`SumFunctionOnSet` has exactly one solution, any number may be taken out of a sum,
and a sum divided by its size lies between two of its numbers. `IInv` is `SumsExact`
and `ToldIsCurrent`, with the types of the table and the averages as those of the
sums. `SumsStayExact`, `ToldStaysCurrent` and `AveragesStayMeans` follow for every
set of slaves. `SumsFit` is assumed: at most 2^24 slaves, with which 32 bits hold
every sum; so is what follows from `Size` and `Byte` being powers of two, that
`Size` is a multiple of `n * Byte` where it is one of a number `n` of slaves.

`DriverProofs`: `IInv` says of each client where the driver is in what the client
sends. The bytes of a command (`Encoding`), the commands of a client (`Wired`) and
the answers to them (`Answering`) are laid one behind the other. `Session` then
says: as many commands have been handled as calls are recorded, each as it was sent;
the client has got the answers before the last of them and as much of the last one
as has been written; the buffer, the socket and what is not yet sent are, in this
order, the rest of the client's bytes; and the reader's counters name one of the
places in a command where it stops (`Phase`: before the signature, the numbers, the
length of an argument, its value). `ReaderReads` is the lemma about `reader` and
`receive_arguments`: at each of these places, with the bytes it asked for, it goes on
to the next place or calls the handler of the command that was sent. It never drops
the connection; so a client is dropped only when it has gone. Without the places the
counters could be anything, and without the order of the bytes a command could begin
in the middle of another. `TasksSafe`, `BuffersStayFit`, `AnswersStayInOrder`,
`CallsStayAsSent` and the action property `ClientsKept` follow, for every payload and
every number of descriptors, commands and arguments. Assumed is `DriverAssumption`:
what the types of `protocol.h` hold, and what `cmd_cmd` of the shell refuses to send.
`Joined` is written out in `Driver`, and not taken from a library of sequences, since
the prover's time grows with all that a module extends.

Only model-checked: liveness (`Settles` and its like), which is outside the prover's
reach; `AvlTree` and `HashMap`, whose definitions are recursive operators; and
`Shell`, whose invariants (`LinesInOrder`, `AnswersPaired`, `TracksDrivers`) relate
the scripts, the sockets and the drivers' answers over several processes and have
not been made inductive.

## Not modelled

- The vector of `containers.c` and the policies of the buffer nobody uses: plain
  sequential code on memory, no part of it shared or interrupted.
- `hash-functions.c`: a table lookup per byte. `timer_set_absolute`: unused.
- `common.c` of task1 and the signals of that of task2, the `main` programs, `satellite-soft-labs/src/main.cpp`
  and `iss/main.cpp`: opening of sockets, arguments, construction.
- `client.cpp` of satellite-soft-labs and `cqg/test/creator.c`: test programs. The
  reference of `Parentheses` is what the second expects.
- Rendering and parsing of JSON and HTTP, and the texts drivers and shell print.
- `access-softek`, `lizardfs`: documents.

Still open: several drivers at one shell, and proofs about it.
