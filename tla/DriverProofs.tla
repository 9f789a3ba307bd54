---------------------------- MODULE DriverProofs ----------------------------
(***************************************************************************)
(* For every payload, all scripts of the clients and any number of         *)
(* descriptors: every connection of a driver has one task at a time, the   *)
(* counters of a connection fit its buffers, a command is handled as it    *)
(* was sent, in whatever pieces its bytes arrive, its answer follows the   *)
(* ones before it, and no client that is still there is dropped.           *)
(*                                                                         *)
(* The invariant, IInv, says of each client where the driver is in what    *)
(* the client sends: the bytes of its commands are laid one behind         *)
(* the other, the driver has taken those of the commands it has handled    *)
(* and the part of the next one that is in its buffer, and the counters    *)
(* of the reader name one of the places in that command where it stops.    *)
(***************************************************************************)
EXTENDS Driver, Foundations

\* Zenon is asked first; a leaf with arithmetic, records or sequences cites SMT.
USE Zenon

Fields == DOMAIN NoConnection

\* The fields of a connection.
LEMMA FieldsAre ==
    Fields = {"data", "user_size", "offset", "currently_read", "out", "currently_wrote",
              "jobs", "argc", "args_received", "last_argument_offset"}
BY DEF Fields, NoConnection

\* The bytes of a command and what a client sends are laid out as Foundations says.
LEMMA JoinedIsFlat == ASSUME NEW ss PROVE Joined(ss) = Flat(ss)
BY DEF Joined, Flat, JoinedIs

\* The sequences that are joined lie one behind the other.
LEMMA JoinedLaid ==
    ASSUME NEW X, NEW ss \in Seq(Seq(X))
    PROVE  /\ Joined(ss) \in Seq(X)
           /\ Laid(ss, Joined(ss), Marks(ss))
BY FlatLaid, JoinedIsFlat

\* A sequence of bytes is one of numbers.
LEMMA BytesAreNumbers == ASSUME NEW s \in Seq(0 .. 255) PROVE s \in Seq(Nat)
<1> DEFINE Bytes == 0 .. 255
<1>1. s \in Seq(Bytes) /\ \A x \in Bytes : x \in Nat
  BY SMT
<1> HIDE DEF Bytes
<1>2. QED
  BY <1>1, WiderSeq

-----------------------------------------------------------------------------
(* The bytes of a command.                                                 *)

Args(c) == [i \in DOMAIN c.argv |-> <<Len(c.argv[i])>> \o c.argv[i]]

\* Where the argument after the first j of the command c begins.
At(c, j) == 3 + Marks(Args(c))[j]

\* The bytes of a command: the signature, the number of the command and that of the
\* arguments, and before each argument its length.
EncodedIs(c) ==
    LET e == Encoded(c)
        n == Len(c.argv)
    IN  /\ e \in Seq(Nat) /\ n \in Nat
        /\ Len(e) = At(c, n) /\ At(c, 0) = 3 /\ 3 <= Len(e)
        /\ e[1] = 1 /\ e[2] = c.cmd_idx /\ e[3] = n
        /\ \A j \in 0 .. n - 1 :
              /\ At(c, j) \in Nat /\ 3 <= At(c, j)
              /\ Len(c.argv[j + 1]) \in Nat
              /\ At(c, j + 1) = At(c, j) + 1 + Len(c.argv[j + 1])
              /\ At(c, j + 1) <= Len(e)
              /\ e[At(c, j) + 1] = Len(c.argv[j + 1])
              /\ \A i \in 1 .. Len(c.argv[j + 1]) : e[At(c, j) + 1 + i] = c.argv[j + 1][i]

\* The bytes of any command of a client are laid out so.
LEMMA Encoding ==
    ASSUME NEW c \in Commands
    PROVE  EncodedIs(c)
<1> DEFINE v == c.argv
           n == Len(v)
           A == Args(c)
           h == <<PR_DRV_COMMAND, c.cmd_idx, n>>
           f == Joined(A)
           m == Marks(A)
           l(j) == Len(v[j + 1])
<1>1. v \in Seq(Seq(Nat)) /\ c.cmd_idx \in Nat
  <2>1. \A x \in Seq(0 .. 255) : x \in Seq(Nat)
    BY BytesAreNumbers
  <2>2. QED
    BY <2>1, SMT DEF Commands
<1>2. n \in Nat /\ DOMAIN v = 1 .. n
  BY SMT
<1>3. \A i \in 1 .. n : v[i] \in Seq(Nat) /\ Len(v[i]) \in Nat
  BY <1>1, SMT
<1>4. DOMAIN A = 1 .. n /\ \A i \in 1 .. n : A[i] = <<Len(v[i])>> \o v[i]
  BY <1>2 DEF Args
<1> HIDE DEF A
<1>5. ASSUME NEW i \in 1 .. n
      PROVE  /\ A[i] \in Seq(Nat) /\ Len(A[i]) = 1 + Len(v[i])
             /\ A[i][1] = Len(v[i])
             /\ \A k \in 1 .. Len(v[i]) : A[i][1 + k] = v[i][k]
  <2> DEFINE x == v[i]
             y == <<Len(x)>>
  <2>1. x \in Seq(Nat) /\ Len(x) \in Nat /\ A[i] = y \o x
    BY <1>3, <1>4
  <2> HIDE DEF x
  <2>2. y \in Seq(Nat) /\ Len(y) = 1 /\ y[1] = Len(x)
    BY SMT
  <2> HIDE DEF y
  <2>3. /\ y \o x \in Seq(Nat)
        /\ Len(y \o x) = Len(y) + Len(x)
        /\ \A k \in 1 .. Len(y) + Len(x) :
              (y \o x)[k] = IF k <= Len(y) THEN y[k] ELSE x[k - Len(y)]
    BY <2>1, <2>2, ConcatProperties
  <2>4. (y \o x)[1] = y[1]
    <3>1. 1 \in 1 .. Len(y) + Len(x) /\ 1 <= Len(y)
      BY <2>2, SMT
    <3>2. QED
      BY <3>1, SMT
  <2>5. ASSUME NEW k \in 1 .. Len(x) PROVE (y \o x)[1 + k] = x[k]
    <3>1. 1 + k \in 1 .. Len(y) + Len(x) /\ ~ (1 + k <= Len(y)) /\ (1 + k) - Len(y) = k
      BY <2>2, SMT
    <3>2. QED
      BY <3>1, SMT
  <2>6. QED
    BY <2>1, <2>2, <2>3, <2>4, <2>5 DEF x
<1>6. A \in Seq(Seq(Nat)) /\ Len(A) = n
  <2>1. A \in [1 .. n -> Seq(Nat)]
    BY <1>5, <1>4 DEF Args, A
  <2>2. QED
    BY <2>1, <1>4, SMT
<1>7. f \in Seq(Nat) /\ Laid(A, f, m)
  BY <1>6, JoinedLaid
<1> HIDE DEF f, m, n, v, l
<1>8. /\ m \in [0 .. n -> Nat] /\ m[0] = 0 /\ m[n] = Len(f)
      /\ \A k \in 0 .. n - 1 :
            /\ m[k + 1] = m[k] + Len(A[k + 1])
            /\ m[k + 1] <= Len(f)
            /\ \A i \in 1 .. Len(A[k + 1]) : f[m[k] + i] = A[k + 1][i]
  BY <1>6, <1>7 DEF Laid
<1>9. h \in Seq(Nat) /\ Len(h) = 3 /\ h[1] = 1 /\ h[2] = c.cmd_idx /\ h[3] = n
  BY <1>1, <1>2, SMT DEF PR_DRV_COMMAND
<1> HIDE DEF h
<1>10. /\ h \o f \in Seq(Nat)
       /\ Len(h \o f) = 3 + Len(f)
       /\ \A i \in 1 .. 3 + Len(f) : (h \o f)[i] = IF i <= 3 THEN h[i] ELSE f[i - 3]
  <2>1. /\ h \o f \in Seq(Nat)
        /\ Len(h \o f) = Len(h) + Len(f)
        /\ \A i \in 1 .. Len(h) + Len(f) :
              (h \o f)[i] = IF i <= Len(h) THEN h[i] ELSE f[i - Len(h)]
    BY <1>7, <1>9, ConcatProperties
  <2>2. QED
    BY <1>9, <2>1
<1> DEFINE e == h \o f
<1>11. e[1] = 1 /\ e[2] = c.cmd_idx /\ e[3] = n
  BY <1>9, <1>10, SMT
<1>12. \A i \in 1 .. Len(f) : e[3 + i] = f[i]
  BY <1>10, SMT
<1>13. \A j : At(c, j) = 3 + m[j]
  BY DEF At, m, A
<1> HIDE DEF e
<1>14. ASSUME NEW j \in 0 .. n - 1
       PROVE  /\ At(c, j) \in Nat /\ 3 <= At(c, j)
              /\ l(j) \in Nat
              /\ At(c, j + 1) = At(c, j) + 1 + l(j)
              /\ At(c, j + 1) <= 3 + Len(f)
              /\ e[At(c, j) + 1] = l(j)
              /\ \A i \in 1 .. l(j) : e[At(c, j) + 1 + i] = v[j + 1][i]
  <2>1. j \in 0 .. n /\ j + 1 \in 1 .. n
    BY <1>2, SMT
  <2>2. l(j) \in Nat /\ Len(A[j + 1]) = 1 + l(j) /\ A[j + 1][1] = l(j)
        /\ \A k \in 1 .. l(j) : A[j + 1][1 + k] = v[j + 1][k]
    BY <1>5, <2>1, SMT DEF l
  <2>3. m[j] \in Nat /\ m[j + 1] = m[j] + (1 + l(j)) /\ m[j + 1] <= Len(f)
    BY <1>8, <2>1, <2>2
  <2>4. At(c, j) = 3 + m[j] /\ At(c, j + 1) = 3 + m[j + 1] /\ m[j + 1] \in Nat
    BY <1>8, <1>13, <2>1, SMT
  <2>5. /\ At(c, j) \in Nat /\ 3 <= At(c, j)
         /\ At(c, j + 1) = At(c, j) + 1 + l(j)
         /\ At(c, j + 1) <= 3 + Len(f)
         /\ \A i \in 1 .. 1 + l(j) : m[j] + i \in 1 .. Len(f) /\ 3 + (m[j] + i) = At(c, j) + i
    <3> DEFINE x == l(j)
               y == m[j]
               z == m[j + 1]
               a == At(c, j)
               b == At(c, j + 1)
               w == Len(f)
    <3>1. /\ x \in Nat /\ y \in Nat /\ z \in Nat /\ w \in Nat
          /\ z = y + (1 + x) /\ z <= w /\ a = 3 + y /\ b = 3 + z
      BY <2>2, <2>3, <2>4, SMT
    <3> HIDE DEF x, y, z, a, b, w
    <3>2. /\ a \in Nat /\ 3 <= a /\ b = a + 1 + x /\ b <= 3 + w
          /\ \A i \in 1 .. 1 + x : y + i \in 1 .. w /\ 3 + (y + i) = a + i
      BY <3>1, SMT
    <3>3. QED
      BY <3>2 DEF x, y, z, a, b, w
  <2>6. \A i \in 1 .. 1 + l(j) : f[m[j] + i] = A[j + 1][i]
    BY <1>8, <2>2
  <2>7. \A i \in 1 .. 1 + l(j) : e[At(c, j) + i] = A[j + 1][i]
    BY <1>12, <2>6, <2>5
  <2>8. e[At(c, j) + 1] = l(j)
    BY <2>2, <2>7, SMT
  <2>9. ASSUME NEW i \in 1 .. l(j) PROVE e[At(c, j) + 1 + i] = v[j + 1][i]
    <3>1. At(c, j) + 1 + i = At(c, j) + (1 + i)
      BY <2>3, <2>4, SMT
    <3>2. QED
      BY <2>2, <2>7, <3>1, SMT
  <2>10. QED
    BY <2>2, <2>8, <2>9, <2>5
<1>15. At(c, n) = 3 + Len(f) /\ At(c, 0) = 3 /\ 3 <= 3 + Len(f)
  BY <1>8, <1>13, SMT
<1>16. e = Encoded(c)
  BY DEF e, Encoded, f, h, A, Args, n, v
<1>17. QED
  BY <1>11, <1>14, <1>15, <1>16, <1>10, SMT DEF EncodedIs, n, v, l, e

-----------------------------------------------------------------------------
(* Sessions.                                                               *)

\* What a client sends, and is to get: each command and each answer has its place.
Coded(s) == [i \in DOMAIN s |-> Encoded(s[i])]
Wire(s) == Joined(Coded(s))
Off(s, k) == Marks(Coded(s))[k]
Replies(s) == [i \in DOMAIN s |-> Response(s[i].cmd_idx, Len(s[i].argv))]
All(s) == greeting \o Joined(Replies(s))
Turn(s, k) == IF k = 0 THEN greeting ELSE Replies(s)[k]
Start(s, k) == IF k = 0 THEN 0 ELSE Len(greeting) + Marks(Replies(s))[k - 1]

Pieces == [piece : {"PR_DRV_INFO", "command", "PR_DRV_RESPONSE", "text"}, of : Seq(Nat)]

\* The reader waits for the signature of a command; for its numbers; for the length of
\* an argument; for the value of an argument.
Fresh(c) ==
    /\ c.user_size = 1 /\ c.offset = 0
    /\ c.argc = 0 /\ c.args_received = 0 /\ c.last_argument_offset = 0

Numbers(c) ==
    /\ c.user_size = 3 /\ c.offset = 1
    /\ c.argc = 0 /\ c.args_received = 0 /\ c.last_argument_offset = 0

Argument(c, cmd, j) ==
    /\ c.argc = Len(cmd.argv) /\ c.args_received = j /\ c.last_argument_offset = At(cmd, j)
    /\ \/ c.user_size = At(cmd, j) + 1 /\ c.offset = At(cmd, j)
       \/ c.user_size = At(cmd, j + 1) /\ c.offset = At(cmd, j) + 1

Phase(c, cmd) ==
    Fresh(c) \/ Numbers(c) \/ \E j \in 0 .. Len(cmd.argv) - 1 : Argument(c, cmd, j)

Awaits(c, s, k) == IF k < Len(s) THEN Phase(c, s[k + 1]) ELSE Fresh(c)

\* The counters of a connection fit its buffers.
Fit(c) ==
    /\ DOMAIN c = Fields
    /\ c.data \in Seq(Nat)
    /\ c.user_size \in Nat /\ c.offset \in Nat /\ c.currently_read \in Nat
    /\ Len(c.data) = c.offset + c.currently_read
    /\ Len(c.data) <= c.user_size
    /\ c.argc \in Nat /\ c.args_received \in 0 .. c.argc

CallIs(call, sent) ==
    /\ call.cmd_idx = sent.cmd_idx
    /\ Len(call.argv) = Len(sent.argv)
    /\ Len(sent.argv) = 1 => call.argv = sent.argv

CallsOf(cl, s) ==
    /\ \E S : cl \in Seq(S)
    /\ Len(cl) <= Len(s)
    /\ \A i \in 1 .. Len(cl) : CallIs(cl[i], s[i])

\* The session of a client that sends s: cl are the calls made for it, g what it has got.
Writing(c, s, k, u, in) ==
    /\ c.jobs = {"WRITE"}
    /\ Stream(Wire(s), Off(s, k), in, u)

Reading(c, s, k, u, in) ==
    /\ c.jobs = {"READ"}
    /\ c.currently_wrote = Len(c.out)
    /\ Part(c.data, Nat, Wire(s), Off(s, k))
    /\ Stream(Wire(s), Off(s, k) + Len(c.data), in, u)
    /\ Awaits(c, s, k)

Session(c, s, u, in, g, cl) ==
    /\ Fit(c)
    /\ c.out = Turn(s, Len(cl))
    /\ c.currently_wrote \in 0 .. Len(c.out)
    /\ CallsOf(cl, s)
    /\ Part(g, Pieces, All(s), 0)
    /\ Len(g) = Start(s, Len(cl)) + c.currently_wrote
    /\ Writing(c, s, Len(cl), u, in) \/ Reading(c, s, Len(cl), u, in)

Idle(c, s, u, in, g, cl) ==
    c = NoConnection /\ u = Wire(s) /\ in = <<>> /\ g = <<>> /\ cl = <<>>

GoodScript(s) ==
    s \in Seq(Commands) /\ \A i \in 1 .. Len(s) : Len(s[i].argv) <= Arity[s[i].cmd_idx + 1]

Client(on, p, c, s, u, in, g, cl) ==
    /\ p \in {"none", "open", "closed"}
    /\ GoodScript(s)
    /\ p = "none" => s = <<>> /\ ~ on
    /\ IF on THEN Session(c, s, u, in, g, cl) ELSE Idle(c, s, u, in, g, cl)

\* The functions of the descriptors.
Shape ==
    /\ running \in BOOLEAN
    /\ connections \subseteq Fds /\ connections = connection_state
    /\ DOMAIN conn = Fds /\ DOMAIN peer = Fds /\ DOMAIN script = Fds /\ DOMAIN unsent = Fds
    /\ DOMAIN inbox = Fds /\ DOMAIN got = Fds /\ DOMAIN calls = Fds
    /\ peer = [fd \in Fds |-> peer[fd]]

ClientOf(fd) ==
    Client(fd \in connections, peer[fd], conn[fd], script[fd], unsent[fd], inbox[fd], got[fd],
           calls[fd])

IInv == Shape /\ \A fd \in Fds : ClientOf(fd)

-----------------------------------------------------------------------------

-----------------------------------------------------------------------------
(* What a client sends, and what it is to get.                             *)

WireIs(s) ==
    /\ Wire(s) \in Seq(Nat) /\ Len(Wire(s)) \in Nat
    /\ Off(s, 0) = 0 /\ Off(s, Len(s)) = Len(Wire(s))
    /\ \A k \in 0 .. Len(s) : Off(s, k) \in Nat /\ Off(s, k) <= Len(Wire(s))
    /\ \A k \in 0 .. Len(s) - 1 :
          /\ Off(s, k + 1) = Off(s, k) + Len(Encoded(s[k + 1]))
          /\ \A i \in 1 .. Len(Encoded(s[k + 1])) : Wire(s)[Off(s, k) + i] = Encoded(s[k + 1])[i]

\* The commands of a script lie in what the client sends one behind the other.
LEMMA Wired ==
    ASSUME NEW s \in Seq(Commands)
    PROVE  WireIs(s)
<1> DEFINE n == Len(s)
           C == Coded(s)
           W == Wire(s)
           m == Marks(C)
<1>1. n \in Nat /\ DOMAIN s = 1 .. n /\ \A i \in 1 .. n : s[i] \in Commands
  BY SMT
<1>2. C = [i \in 1 .. n |-> Encoded(s[i])]
  BY SMT DEF Coded
<1>3. \A i \in 1 .. n : Encoded(s[i]) \in Seq(Nat)
  BY Encoding, SMT DEF EncodedIs
<1> HIDE DEF C
<1>4. C \in [1 .. n -> Seq(Nat)]
  BY <1>2, <1>3
<1>5. C \in Seq(Seq(Nat))
  BY <1>4, SMT
<1>6. Len(C) = n
  BY <1>4, SMT
<1>7. W \in Seq(Nat) /\ Laid(C, W, m)
  BY <1>5, JoinedLaid DEF Wire, W, C
<1> HIDE DEF W, m, n
<1>8. /\ m \in [0 .. n -> Nat] /\ m[0] = 0 /\ m[n] = Len(W)
       /\ \A k \in 0 .. n - 1 :
             /\ m[k + 1] = m[k] + Len(C[k + 1])
             /\ m[k + 1] <= Len(W)
             /\ \A i \in 1 .. Len(C[k + 1]) : W[m[k] + i] = C[k + 1][i]
  BY <1>6, <1>7 DEF Laid
<1>9. \A k : Off(s, k) = m[k]
  BY DEF Off, m, C
<1>10. ASSUME NEW k \in 0 .. n PROVE m[k] \in Nat /\ m[k] <= Len(W)
  <2>1. CASE k = 0
    BY <1>8, <2>1, SMT
  <2>2. CASE k # 0
    <3>1. k - 1 \in 0 .. n - 1 /\ (k - 1) + 1 = k
      BY <1>1, <2>2, SMT
    <3>2. QED
      BY <1>8, <3>1
  <2>3. QED
    BY <2>1, <2>2
<1>11. ASSUME NEW k \in 0 .. n - 1 PROVE C[k + 1] = Encoded(s[k + 1])
  BY <1>2, <1>1, SMT
<1>12. ASSUME NEW k \in 0 .. n - 1
       PROVE  /\ Off(s, k + 1) = Off(s, k) + Len(Encoded(s[k + 1]))
              /\ \A i \in 1 .. Len(Encoded(s[k + 1])) : W[Off(s, k) + i] = Encoded(s[k + 1])[i]
  <2>1. /\ m[k + 1] = m[k] + Len(C[k + 1])
        /\ \A i \in 1 .. Len(C[k + 1]) : W[m[k] + i] = C[k + 1][i]
    BY <1>8
  <2>2. QED
    BY <1>9, <1>11, <2>1
<1>13. Off(s, 0) = 0 /\ Off(s, n) = Len(W)
  BY <1>8, <1>9
<1>14. QED
  BY <1>12, <1>9, <1>10, <1>13, <1>7, SMT DEF WireIs, n, W

-----------------------------------------------------------------------------
\* The number of arguments a command takes is a byte.
LEMMA ArityTyped == Arity \in Seq(Nat)
BY BytesAreNumbers, DriverAssumption

\* The greeting is made of pieces, and is not empty.
LEMMA GreetingTyped == greeting \in Seq(Pieces) /\ Len(greeting) \in Nat /\ Len(greeting) >= 1
<1> DEFINE h == <<[piece |-> "PR_DRV_INFO", of |-> <<Len(Arity)>>]>>
           t == [i \in DOMAIN Arity |-> [piece |-> "command", of |-> <<Arity[i]>>]]
           n == Len(Arity)
<1>1. n \in Nat /\ DOMAIN Arity = 1 .. n /\ \A i \in 1 .. n : Arity[i] \in Nat
  BY ArityTyped, LenProperties
<1>2. t = [i \in 1 .. n |-> [piece |-> "command", of |-> <<Arity[i]>>]]
  BY <1>1
<1>3. ASSUME NEW i \in 1 .. n PROVE [piece |-> "command", of |-> <<Arity[i]>>] \in Pieces
  <2>1. <<Arity[i]>> \in Seq(Nat)
    BY <1>1, SMT
  <2>2. QED
    BY <2>1 DEF Pieces
<1>4. h \in Seq(Pieces) /\ Len(h) = 1
  <2>1. <<Len(Arity)>> \in Seq(Nat)
    BY <1>1, SMT
  <2>2. [piece |-> "PR_DRV_INFO", of |-> <<Len(Arity)>>] \in Pieces
    BY <2>1 DEF Pieces
  <2>3. QED
    BY <2>2, SMT
<1>5. greeting = h \o t
  BY DEF greeting
<1> HIDE DEF h, n
<1>6. t \in [1 .. n -> Pieces]
  BY <1>2, <1>3
<1> HIDE DEF t
<1>7. t \in Seq(Pieces)
  BY <1>1, <1>6, SeqDef, SMT
<1>8. h \o t \in Seq(Pieces) /\ Len(h \o t) = Len(h) + Len(t) /\ Len(t) \in Nat
  BY <1>4, <1>7, ConcatProperties, LenProperties
<1>9. QED
  BY <1>4, <1>5, <1>8, SMT

\* The answer to a command is made of pieces.
LEMMA ResponseTyped ==
    ASSUME NEW cmd_idx \in Nat, NEW argc \in Nat
    PROVE  Response(cmd_idx, argc) \in Seq(Pieces)
<1> DEFINE a == [piece |-> "text", of |-> <<cmd_idx, argc>>]
           b == [piece |-> "PR_DRV_RESPONSE", of |-> <<Len(<<a>>)>>]
<1>1. a \in Pieces
  BY SMT DEF Pieces
<1>2. Response(cmd_idx, argc) = <<b>> \o <<a>>
  BY DEF Response, handler
<1> HIDE DEF a
<1>3. b \in Pieces
  BY SMT DEF Pieces
<1> HIDE DEF b
<1>4. QED
  BY <1>1, <1>2, <1>3, SMT

AllIs(s) ==
    /\ All(s) \in Seq(Pieces) /\ Len(All(s)) \in Nat
    /\ Start(s, 0) = 0
    /\ \A k \in 0 .. Len(s) :
          /\ Turn(s, k) \in Seq(Pieces)
          /\ Part(Turn(s, k), Pieces, All(s), Start(s, k))
    /\ \A k \in 0 .. Len(s) - 1 : Start(s, k + 1) = Start(s, k) + Len(Turn(s, k))

\* The greeting and the answers lie in what the client is to get one behind the other.
LEMMA Answering ==
    ASSUME NEW s \in Seq(Commands)
    PROVE  AllIs(s)
<1> DEFINE n == Len(s)
           C == Replies(s)
           W == Joined(C)
           A == All(s)
           m == Marks(C)
           g == greeting
<1>1. n \in Nat /\ DOMAIN s = 1 .. n /\ \A i \in 1 .. n : s[i] \in Commands
  BY SMT
<1>2. C = [i \in 1 .. n |-> Response(s[i].cmd_idx, Len(s[i].argv))]
  BY SMT DEF Replies
<1>3. \A i \in 1 .. n : Response(s[i].cmd_idx, Len(s[i].argv)) \in Seq(Pieces)
  <2>1. ASSUME NEW i \in 1 .. n PROVE s[i].cmd_idx \in Nat /\ Len(s[i].argv) \in Nat
    BY <1>1, SMT DEF Commands
  <2>2. QED
    BY <2>1, ResponseTyped
<1> HIDE DEF C
<1>4. C \in [1 .. n -> Seq(Pieces)]
  BY <1>2, <1>3
<1>5. C \in Seq(Seq(Pieces))
  BY <1>4, SMT
<1>6. Len(C) = n
  BY <1>4, SMT
<1>7. A = g \o W
  BY DEF All, A, C
<1>8. W \in Seq(Pieces) /\ Laid(C, W, m)
  BY <1>5, JoinedLaid
<1>9. g \in Seq(Pieces) /\ Len(g) \in Nat
  BY GreetingTyped
<1> HIDE DEF W, m, n, A, g
<1>10. /\ m \in [0 .. n -> Nat] /\ m[0] = 0 /\ m[n] = Len(W)
       /\ \A k \in 0 .. n - 1 :
             /\ m[k + 1] = m[k] + Len(C[k + 1])
             /\ m[k + 1] <= Len(W)
             /\ \A i \in 1 .. Len(C[k + 1]) : W[m[k] + i] = C[k + 1][i]
  BY <1>6, <1>8 DEF Laid
<1>11. /\ A \in Seq(Pieces)
       /\ Len(A) = Len(g) + Len(W)
       /\ \A i \in 1 .. Len(g) + Len(W) : A[i] = IF i <= Len(g) THEN g[i] ELSE W[i - Len(g)]
  BY <1>7, <1>8, <1>9, SMT
<1>12. Turn(s, 0) = g /\ Start(s, 0) = 0
  BY DEF Turn, Start, g
<1>13. \A k \in 1 .. n : Turn(s, k) = C[k] /\ Start(s, k) = Len(g) + m[k - 1]
  BY SMT DEF Turn, Start, C, m, g
<1>14. Part(g, Pieces, A, 0)
  <2>1. ASSUME NEW i \in 1 .. Len(g) PROVE g[i] = A[0 + i]
    BY <1>11, SMT
  <2>2. QED
    BY <1>9, <1>11, <2>1, SMT DEF Part
<1>15. ASSUME NEW k \in 1 .. n
       PROVE  C[k] \in Seq(Pieces) /\ Part(C[k], Pieces, A, Len(g) + m[k - 1])
  <2> DEFINE x == C[k]
             a == m[k - 1]
  <2>1. x \in Seq(Pieces) /\ Len(x) \in Nat
    BY <1>4, SMT
  <2>2. k - 1 \in 0 .. n - 1 /\ k - 1 \in 0 .. n /\ (k - 1) + 1 = k
    BY <1>1, SMT
  <2>3. a \in Nat /\ m[k] \in Nat /\ m[k] = a + Len(x) /\ m[k] <= Len(W)
    BY <1>10, <2>2, SMT
  <2>4. \A i \in 1 .. Len(x) : W[a + i] = x[i]
    BY <1>10, <2>2
  <2> HIDE DEF x, a
  <2>5. ASSUME NEW i \in 1 .. Len(x) PROVE x[i] = A[(Len(g) + a) + i]
    <3> DEFINE p == (Len(g) + a) + i
    <3>1. p \in 1 .. Len(g) + Len(W) /\ ~ (p <= Len(g)) /\ p - Len(g) = a + i
      BY <2>3, SMT
    <3> HIDE DEF p
    <3>2. QED
      BY <2>4, <1>11, <3>1 DEF p
  <2>6. Part(x, Pieces, A, Len(g) + a)
    BY <2>1, <1>11, <2>3, <2>5, SMT DEF Part
  <2>7. QED
    BY <2>1, <2>6 DEF x, a
<1>16. ASSUME NEW k \in 0 .. n
       PROVE  Turn(s, k) \in Seq(Pieces) /\ Part(Turn(s, k), Pieces, A, Start(s, k))
  <2>1. CASE k = 0
    BY <1>9, <1>12, <1>14, <2>1
  <2>2. CASE k # 0
    BY <1>13, <1>15, <2>2, SMT
  <2>3. QED
    BY <2>1, <2>2
<1>17. ASSUME NEW k \in 0 .. n - 1 PROVE Start(s, k + 1) = Start(s, k) + Len(Turn(s, k))
  <2>1. Start(s, k + 1) = Len(g) + m[k]
    BY <1>13, <1>1, SMT
  <2>2. CASE k = 0
    BY <1>10, <1>12, <2>1, <2>2, SMT
  <2>3. CASE k # 0
    <3>1. k \in 1 .. n /\ k - 1 \in 0 .. n - 1 /\ k - 1 \in 0 .. n /\ (k - 1) + 1 = k
      BY <1>1, <2>3, SMT
    <3>2. m[k] = m[k - 1] + Len(C[k]) /\ m[k - 1] \in Nat /\ C[k] \in Seq(Pieces)
      BY <1>4, <1>10, <3>1
    <3>3. QED
      BY <2>1, <1>13, <3>1, <3>2, SMT
  <2>4. QED
    BY <2>2, <2>3
<1>18. QED
  BY <1>11, <1>12, <1>16, <1>17, SMT DEF AllIs, n, A

-----------------------------------------------------------------------------
(* The fields of a connection.                                             *)

\* What the calls of the server and the counters of the core leave in a connection.
Same(c, d) ==
    /\ DOMAIN d = Fields
    /\ d.data = c.data /\ d.out = c.out /\ d.currently_wrote = c.currently_wrote

\* unix_socket_server_recv asks for sz more bytes.
LEMMA RecvFields ==
    ASSUME NEW c, NEW sz, DOMAIN c = Fields
    PROVE  LET r == unix_socket_server_recv(c, sz)
           IN  /\ Same(c, r)
               /\ r.user_size = c.user_size + sz /\ r.offset = c.user_size
               /\ r.currently_read = 0 /\ r.jobs = c.jobs \cup {"READ"}
               /\ r.argc = c.argc /\ r.args_received = c.args_received
               /\ r.last_argument_offset = c.last_argument_offset
BY SMT DEF unix_socket_server_recv, Same

\* unix_socket_server_send has x to be written.
LEMMA SendFields ==
    ASSUME NEW c, NEW x, DOMAIN c = Fields
    PROVE  LET r == unix_socket_server_send(c, x)
           IN  /\ DOMAIN r = Fields
               /\ r.out = x /\ r.currently_wrote = 0 /\ r.jobs = c.jobs \cup {"WRITE"}
               /\ r.data = c.data /\ r.user_size = c.user_size /\ r.offset = c.offset
               /\ r.currently_read = c.currently_read
               /\ r.argc = c.argc /\ r.args_received = c.args_received
BY SMT DEF unix_socket_server_send

\* The reader's own assignments.
SameTask(c, d) ==
    /\ Same(c, d)
    /\ d.user_size = c.user_size /\ d.offset = c.offset
    /\ d.currently_read = c.currently_read /\ d.jobs = c.jobs

\* The number of the arguments is stored.
LEMMA ArgcFields ==
    ASSUME NEW c, NEW x, DOMAIN c = Fields
    PROVE  LET d == [c EXCEPT !.argc = x]
           IN  /\ SameTask(c, d)
               /\ d.argc = x /\ d.args_received = c.args_received
               /\ d.last_argument_offset = c.last_argument_offset
BY SMT DEF SameTask, Same

\* The offset of the next argument is stored.
LEMMA OffsetFields ==
    ASSUME NEW c, NEW x, DOMAIN c = Fields
    PROVE  LET d == [c EXCEPT !.last_argument_offset = x]
           IN  /\ SameTask(c, d)
               /\ d.argc = c.argc /\ d.args_received = c.args_received
               /\ d.last_argument_offset = x
BY SMT DEF SameTask, Same

-----------------------------------------------------------------------------
\* The offsets that Argv computes, and an argument taken there.
AtIs(c, o, f) ==
    f = [i \in 1 .. c.argc |->
            IF i = 1 THEN o
            ELSE IF f[i - 1] < Len(c.data)
            THEN f[i - 1] + ArgumentLen + c.data[f[i - 1] + 1] ELSE Len(c.data)]

Taken(D, a) ==
    IF a < Len(D) /\ a + ArgumentLen + D[a + 1] <= Len(D)
    THEN SubSeq(D, a + ArgumentLen + 1, a + ArgumentLen + D[a + 1])
    ELSE Garbage

\* The arguments that a handler gets are taken at these offsets.
LEMMA ArgvTaken ==
    ASSUME NEW c, NEW o
    PROVE  Argv(c, o) = [i \in 1 .. c.argc |-> Taken(c.data, (CHOOSE f : AtIs(c, o, f))[i])]
BY DEF Argv, AtIs, Taken

\* A handler gets as many arguments as the client announced.
LEMMA ArgvLen ==
    ASSUME NEW c, NEW o, c.argc \in Nat
    PROVE  Len(Argv(c, o)) = c.argc
<1> DEFINE g == CHOOSE f : AtIs(c, o, f)
           t(i) == Taken(c.data, g[i])
           n == c.argc
           v == [i \in 1 .. n |-> t(i)]
           S == {t(i) : i \in 1 .. n}
<1> HIDE DEF g, t
<1>1. v \in [1 .. n -> S] /\ DOMAIN v = 1 .. n
  OBVIOUS
<1> HIDE DEF S, v
<1>2. QED
  BY ArgvTaken, <1>1, SMT

\* Behind o lies the argument v, and nothing more.
LastIs(D, o, v) ==
    /\ D \in Seq(Nat) /\ v \in Seq(Nat) /\ o \in Nat
    /\ Len(D) = o + 1 + Len(v) /\ D[o + 1] = Len(v)
    /\ \A i \in 1 .. Len(v) : D[o + 1 + i] = v[i]

\* An argument that ends the data is taken whole.
LEMMA TakenLast ==
    ASSUME NEW D, NEW o, NEW v, LastIs(D, o, v)
    PROVE  Taken(D, o) = v
<1> DEFINE a == o + 2
           b == o + 1 + Len(v)
           q == SubSeq(D, a, b)
<1>1. D \in Seq(Nat) /\ v \in Seq(Nat) /\ o \in Nat
  BY DEF LastIs
<1>2. Len(D) = o + 1 + Len(v) /\ D[o + 1] = Len(v)
  BY DEF LastIs
<1>3. \A i \in 1 .. Len(v) : D[o + 1 + i] = v[i]
  BY DEF LastIs
<1>4. Len(v) \in Nat /\ Len(D) \in Nat
  BY <1>1, LenProperties
<1>5. \A i \in 1 .. Len(D) : D[i] \in Nat
  BY <1>1, LenProperties
<1>6. a \in Int /\ b \in Int /\ b - a + 1 = Len(v) /\ b = Len(D) /\ 1 <= a
  BY <1>1, <1>2, <1>4, SMT
<1>7. \A i \in 1 .. Len(v) : a + i - 1 = o + 1 + i
  BY <1>1, SMT
<1>8. Taken(D, o) = q
  <2>1. o < Len(D) /\ o + 1 + Len(v) <= Len(D) /\ o + 1 + 1 = o + 2
    BY <1>1, <1>2, <1>4, SMT
  <2>2. QED
    BY <1>2, <2>1 DEF Taken, ArgumentLen
<1> HIDE DEF a, b, q
<1>9. \A i \in a .. b : D[i] \in Nat
  <2>1. \A i \in a .. b : i \in 1 .. Len(D)
    BY <1>6, SMT
  <2>2. QED
    BY <1>5, <2>1
<1>10. /\ q \in Seq(Nat)
       /\ Len(q) = IF a <= b THEN b - a + 1 ELSE 0
       /\ \A i \in 1 .. b - a + 1 : q[i] = D[a + i - 1]
  BY <1>6, <1>9, SubSeqProperties, SMT DEF q
<1>11. Len(q) = Len(v)
  BY <1>4, <1>6, <1>10, SMT
<1>12. ASSUME NEW i \in 1 .. Len(v) PROVE q[i] = v[i]
  BY <1>3, <1>6, <1>7, <1>10
<1>13. q = v
  BY <1>1, <1>10, <1>11, <1>12, SeqEqual
<1>14. QED
  BY <1>8, <1>13

\* A handler with one argument gets the one that was sent.
LEMMA ArgvOne ==
    ASSUME NEW c, c.argc = 1, NEW o, NEW v, LastIs(c.data, o, v)
    PROVE  Argv(c, o) = <<v>>
<1> DEFINE g == CHOOSE f : AtIs(c, o, f)
           h == [i \in 1 .. 1 |-> o]
<1>1. AtIs(c, o, g)
  <2> HIDE DEF h
  <2>1. QED
    BY SMT DEF AtIs
<1>2. Argv(c, o) = [i \in 1 .. 1 |-> Taken(c.data, g[i])]
  BY ArgvTaken
<1> HIDE DEF g, h
<1>3. QED
  BY <1>2, <1>1, TakenLast, SMT DEF AtIs

-----------------------------------------------------------------------------
(* The reader.                                                             *)

\* The callback keeps the connection, which reads on, or has called the handler of cmd.
ReadOn(r, c, cmd) ==
    /\ r.dropped = FALSE /\ r.call = <<>>
    /\ Fit(r.conn) /\ r.conn.jobs = {"READ"}
    /\ Same(c, r.conn)
    /\ Phase(r.conn, cmd)

CalledOn(r, c, cmd) ==
    /\ r.dropped = FALSE /\ c.user_size = Len(Encoded(cmd))
    /\ Fit(r.conn) /\ r.conn.jobs = {"WRITE"}
    /\ r.conn.out = Response(cmd.cmd_idx, Len(cmd.argv)) /\ r.conn.currently_wrote = 0
    /\ \E x : r.call = <<x>> /\ CallIs(x, cmd)

\* All that was asked for has been read, and the command is cmd.
Full(c, cmd) ==
    /\ Fit(c) /\ c.jobs = {}
    /\ Len(c.data) = c.user_size
    /\ \A i \in 1 .. c.user_size : c.data[i] = Encoded(cmd)[i]

\* The reader may change its counters of arguments.
LEMMA SameTaskFull ==
    ASSUME NEW c, NEW d, NEW cmd, Full(c, cmd), SameTask(c, d),
           d.argc \in Nat, d.args_received \in 0 .. d.argc
    PROVE  Full(d, cmd)
BY DEF Full, Fit, SameTask, Same

\* Reading on: all of the new task is still to be read.
LEMMA RecvReadsOn ==
    ASSUME NEW c, NEW d, NEW cmd, NEW sz \in Nat, Full(c, cmd), Full(d, cmd), SameTask(c, d),
           Phase(unix_socket_server_recv(d, sz), cmd)
    PROVE  ReadOn(Kept(unix_socket_server_recv(d, sz)), c, cmd)
<1> DEFINE r == unix_socket_server_recv(d, sz)
<1>1. DOMAIN d = Fields /\ d.jobs = {} /\ d.user_size \in Nat /\ Len(d.data) = d.user_size
  BY DEF Full, Fit
<1>2. d.data \in Seq(Nat) /\ d.argc \in Nat /\ d.args_received \in 0 .. d.argc
  BY DEF Full, Fit
<1>3. /\ Same(d, r)
      /\ r.user_size = d.user_size + sz /\ r.offset = d.user_size
      /\ r.currently_read = 0 /\ r.jobs = d.jobs \cup {"READ"}
      /\ r.argc = d.argc /\ r.args_received = d.args_received
  BY <1>1, RecvFields
<1> HIDE DEF r
<1>4. Fit(r)
  BY <1>1, <1>2, <1>3, SMT DEF Fit, Same
<1>5. QED
  BY <1>1, <1>3, <1>4 DEF r, ReadOn, SameTask, Same, Kept

\* A command that has been read to its end is handled as it was sent.
LEMMA CalledCalls ==
    ASSUME NEW c, NEW d, NEW cmd, NEW argv, Full(c, cmd), Full(d, cmd), SameTask(c, d),
           c.user_size = Len(Encoded(cmd)), CallIs([cmd_idx |-> cmd.cmd_idx, argv |-> argv], cmd)
    PROVE  CalledOn(Called(d, cmd.cmd_idx, argv, Response(cmd.cmd_idx, Len(cmd.argv))), c, cmd)
<1> DEFINE x == Response(cmd.cmd_idx, Len(cmd.argv))
           y == [cmd_idx |-> cmd.cmd_idx, argv |-> argv]
           r == unix_socket_server_send(d, x)
           z == Called(d, cmd.cmd_idx, argv, x)
<1> HIDE DEF x
<1>1. z.dropped = FALSE /\ z.conn = r /\ z.call = <<y>>
  BY DEF Called
<1>2. DOMAIN d = Fields /\ d.jobs = {}
  BY DEF Full, Fit
<1>3. /\ DOMAIN r = Fields
      /\ r.out = x /\ r.currently_wrote = 0 /\ r.jobs = d.jobs \cup {"WRITE"}
      /\ r.data = d.data /\ r.user_size = d.user_size /\ r.offset = d.offset
      /\ r.currently_read = d.currently_read
      /\ r.argc = d.argc /\ r.args_received = d.args_received
  BY <1>2, SendFields
<1> HIDE DEF r, z
<1>4. Fit(r)
  BY <1>3 DEF Fit, Full
<1>5. CallIs(y, cmd)
  OBVIOUS
<1> HIDE DEF y
<1>6. QED
  BY <1>1, <1>3, <1>4, <1>2, <1>5 DEF z, x, CalledOn

-----------------------------------------------------------------------------
(* receive_arguments.                                                      *)

\* The bytes of a command that have been read, where the reader looks at them.
LEMMA FullData ==
    ASSUME NEW cmd \in Commands, NEW c, Full(c, cmd), NEW i \in Nat, 1 <= i, i <= c.user_size
    PROVE  c.data[i] = Encoded(cmd)[i]
<1>1. QED
  BY SMT DEF Full

\* An argument that has been read to its end, and is the last one of the command.
LEMMA LastArgument ==
    ASSUME NEW cmd \in Commands, NEW c, Full(c, cmd),
           NEW j \in 0 .. Len(cmd.argv) - 1, c.user_size = At(cmd, j + 1)
    PROVE  LastIs(c.data, At(cmd, j), cmd.argv[j + 1])
<1> DEFINE v == cmd.argv[j + 1]
           D == c.data
           o == At(cmd, j)
           e == Encoded(cmd)
<1>1. /\ o \in Nat /\ Len(v) \in Nat /\ At(cmd, j + 1) = o + 1 + Len(v)
      /\ e[o + 1] = Len(v)
      /\ \A i \in 1 .. Len(v) : e[o + 1 + i] = v[i]
  BY Encoding DEF EncodedIs
<1>2. v \in Seq(Nat)
  <2>1. cmd.argv \in Seq(Seq(0 .. 255))
    BY DEF Commands
  <2>2. Len(cmd.argv) \in Nat /\ \A i \in 1 .. Len(cmd.argv) : cmd.argv[i] \in Seq(0 .. 255)
    BY <2>1, LenProperties, SMT
  <2>3. j + 1 \in 1 .. Len(cmd.argv)
    BY <2>2, SMT
  <2>4. v \in Seq(0 .. 255)
    BY <2>2, <2>3
  <2> HIDE DEF v
  <2>5. QED
    BY <2>4, BytesAreNumbers
<1>3. D \in Seq(Nat) /\ Len(D) = c.user_size
  BY DEF Full, Fit
<1> HIDE DEF v, o, e, D
<1>4. c.user_size = o + 1 + Len(v)
  BY <1>1
<1>5. o + 1 \in Nat /\ 1 <= o + 1 /\ o + 1 <= c.user_size
  BY <1>1, <1>4, SMT
<1>6. \A i \in 1 .. Len(v) : o + 1 + i \in Nat /\ 1 <= o + 1 + i /\ o + 1 + i <= c.user_size
  BY <1>1, <1>4, SMT
<1>7. D[o + 1] = e[o + 1]
  BY <1>5, FullData DEF D, e
<1>8. \A i \in 1 .. Len(v) : D[o + 1 + i] = e[o + 1 + i]
  BY <1>6, FullData DEF D, e
<1>9. LastIs(D, o, v)
  BY <1>1, <1>2, <1>3, <1>4, <1>7, <1>8 DEF LastIs
<1>10. QED
  BY <1>9 DEF D, o, v

\* receive_arguments, when the length of an argument has been read, or its value.
LEMMA ArgumentsRead ==
    ASSUME NEW cmd \in Commands, NEW c, Full(c, cmd),
           NEW j \in 0 .. Len(cmd.argv) - 1, Argument(c, cmd, j)
    PROVE  LET r == receive_arguments(c) IN ReadOn(r, c, cmd) \/ CalledOn(r, c, cmd)
<1> DEFINE n == Len(cmd.argv)
           v == cmd.argv[j + 1]
           o == At(cmd, j)
           end == At(cmd, j + 1)
           e == Encoded(cmd)
           at == [c EXCEPT !.last_argument_offset = o]
           past == [c EXCEPT !.args_received = j + 1, !.last_argument_offset = end]
           r == receive_arguments(c)
           more == unix_socket_server_recv(at, end - c.user_size)
           then == unix_socket_server_recv(past, end + 1 - c.user_size)
           argv == Argv(c, o)
           call == Called(past, cmd.cmd_idx, argv, Response(cmd.cmd_idx, n))
<1>1. /\ o \in Nat /\ 3 <= o /\ Len(v) \in Nat /\ end = o + 1 + Len(v)
      /\ e[o + 1] = Len(v) /\ end <= Len(e)
  BY Encoding DEF EncodedIs
<1>2. n \in Nat /\ Len(e) = At(cmd, n) /\ e[2] = cmd.cmd_idx
  BY Encoding DEF EncodedIs
<1>3. c.argc = n /\ c.args_received = j /\ c.last_argument_offset = o
  BY DEF Argument
<1>4. c.user_size = o + 1 \/ c.user_size = end
  BY DEF Argument
<1>5. DOMAIN c = Fields /\ c.user_size \in Nat
  BY DEF Full, Fit
<1> HIDE DEF n, v, o, end, e
<1>6. o + 1 <= c.user_size /\ c.user_size <= end
  BY <1>1, <1>4, SMT
<1>7. c.data[o + 1] = Len(v) /\ c.data[2] = cmd.cmd_idx
  <2>1. c.data[2] = e[2]
    BY <1>1, <1>5, <1>6, FullData, SMT DEF e
  <2>2. QED
    BY <1>1, <1>2, <1>6, FullData, <2>1, SMT DEF e
<1>8. r = IF c.user_size < end THEN Kept(more)
          ELSE IF j + 1 < n THEN Kept(then)
          ELSE call
  <2>1. c.args_received + 1 = j + 1 /\ end + ArgumentLen - c.user_size = end + 1 - c.user_size
    BY <1>3 DEF ArgumentLen
  <2> DEFINE O == IF c.last_argument_offset = 0 THEN CommandLen ELSE c.last_argument_offset
             E == O + ArgumentLen + c.data[O + 1]
             M == IF c.user_size < O + ArgumentLen THEN O + ArgumentLen ELSE E
             N == c.args_received + 1
  <2>2. r = IF c.user_size < M
            THEN Kept(unix_socket_server_recv([c EXCEPT !.last_argument_offset = O],
                                              M - c.user_size))
            ELSE IF N < c.argc
            THEN Kept(unix_socket_server_recv(
                     [c EXCEPT !.args_received = N, !.last_argument_offset = E],
                     E + ArgumentLen - c.user_size))
            ELSE Called([c EXCEPT !.args_received = N, !.last_argument_offset = E],
                        c.data[2], Argv(c, O), Response(c.data[2], c.argc))
    BY DEF receive_arguments
  <2>3. O = o
    BY <1>1, <1>3, SMT
  <2>4. E = end
    BY <1>1, <1>7, <2>3 DEF ArgumentLen
  <2>5. M = end
    BY <1>1, <1>5, <1>6, <2>3, <2>4, SMT DEF ArgumentLen
  <2>6. N = j + 1
    BY <2>1
  <2> HIDE DEF O, E, M, N, r
  <2>7. QED
    BY <1>3, <1>7, <2>1, <2>2, <2>3, <2>4, <2>5, <2>6
<1> HIDE DEF r
<1>9. j \in Nat /\ j + 1 <= n
  BY SMT DEF n
<1>10. /\ SameTask(c, at)
       /\ at.argc = n /\ at.args_received = j /\ at.last_argument_offset = o
  BY <1>3, <1>5, OffsetFields, SMT
<1>11. /\ SameTask(c, past)
       /\ past.argc = n /\ past.args_received = j + 1 /\ past.last_argument_offset = end
  <2>1. /\ SameTask(c, past)
        /\ past.argc = c.argc /\ past.args_received = j + 1 /\ past.last_argument_offset = end
    BY <1>5, SMT DEF SameTask, Same
  <2> HIDE DEF past
  <2>2. QED
    BY <1>3, <2>1
<1> HIDE DEF at, past
<1>12. Full(at, cmd)
  BY <1>10, <1>2, <1>9, SameTaskFull, SMT
<1>13. Full(past, cmd)
  BY <1>11, <1>2, <1>9, SameTaskFull, SMT
<1>14. DOMAIN at = Fields /\ at.user_size = c.user_size
  BY <1>10 DEF SameTask, Same
<1>15. DOMAIN past = Fields /\ past.user_size = c.user_size
  BY <1>11 DEF SameTask, Same
<1>16. CASE c.user_size < end
  <2>1. c.user_size = o + 1 /\ end - c.user_size \in Nat
    BY <1>1, <1>4, <1>16, SMT
  <2>2. /\ more.user_size = at.user_size + (end - c.user_size) /\ more.offset = at.user_size
        /\ more.argc = at.argc /\ more.args_received = at.args_received
        /\ more.last_argument_offset = at.last_argument_offset
    BY <1>14, RecvFields, SMT
  <2> HIDE DEF more
  <2>3. Phase(more, cmd)
    <3>1. more.argc = n /\ more.args_received = j /\ more.last_argument_offset = o
      BY <1>10, <2>2
    <3>2. more.user_size = (o + 1) + (end - (o + 1)) /\ more.offset = o + 1
      BY <1>14, <2>1, <2>2
    <3>3. (o + 1) + (end - (o + 1)) = end
      BY <1>1, SMT
    <3>4. QED
      BY <3>1, <3>2, <3>3 DEF Phase, Argument, n, o, end
  <2>4. QED
    BY <1>8, <1>16, <1>10, <1>12, <2>1, <2>3, RecvReadsOn DEF r, more
<1>17. CASE ~ (c.user_size < end) /\ j + 1 < n
  <2>1. c.user_size = end /\ end + 1 - c.user_size = 1 /\ end + 1 - c.user_size \in Nat
    BY <1>1, <1>4, <1>6, <1>17, SMT
  <2>2. /\ then.user_size = past.user_size + (end + 1 - c.user_size) /\ then.offset = past.user_size
        /\ then.argc = past.argc /\ then.args_received = past.args_received
        /\ then.last_argument_offset = past.last_argument_offset
    BY <1>15, RecvFields, SMT
  <2> HIDE DEF then
  <2>3. Phase(then, cmd)
    <3>1. /\ then.argc = n /\ then.args_received = j + 1 /\ then.last_argument_offset = end
          /\ then.user_size = end + 1 /\ then.offset = end
      BY <1>11, <1>15, <2>1, <2>2
    <3>2. j + 1 \in 0 .. n - 1
      BY <1>9, <1>17, <1>2, SMT
    <3>3. QED
      BY <3>1, <3>2 DEF Phase, Argument, n, end
  <2>4. QED
    BY <1>8, <1>17, <1>11, <1>13, <2>1, <2>3, RecvReadsOn DEF r, then
<1>18. CASE ~ (c.user_size < end) /\ ~ (j + 1 < n)
  <2>1. j + 1 = n /\ c.user_size = end
    BY <1>1, <1>2, <1>4, <1>9, <1>18, SMT
  <2>2. Len(argv) = n
    BY <1>2, <1>3, ArgvLen
  <2>3. LastIs(c.data, o, v)
    BY <2>1, LastArgument DEF end, o, v
  <2>4. ASSUME n = 1 PROVE argv = cmd.argv
    <3>1. v = cmd.argv[1]
      BY <2>1, <2>4 DEF v
    <3>2. cmd.argv = <<cmd.argv[1]>>
      BY <2>4, SMT DEF Commands, n
    <3>3. QED
      BY <1>3, <2>3, <2>4, ArgvOne, <3>1, <3>2
  <2> HIDE DEF argv
  <2>5. QED
    BY <1>8, <1>18, <1>11, <1>13, <1>2, <2>1, <2>2, <2>4, CalledCalls DEF r, n, e, end,
       CallIs
<1>19. QED
  BY <1>16, <1>17, <1>18

-----------------------------------------------------------------------------
(* What the reader makes of a command.                                     *)

\* A read task of a command asks for no more than the command has.
LEMMA PhaseFits ==
    ASSUME NEW cmd \in Commands, NEW c, Phase(c, cmd)
    PROVE  /\ c.user_size \in Nat /\ 1 <= c.user_size
           /\ c.user_size <= Len(Encoded(cmd))
           /\ c.offset \in Nat /\ c.offset <= c.user_size
<1> DEFINE l == Len(Encoded(cmd))
<1>1. 3 <= l /\ l \in Nat
  BY Encoding, SMT DEF EncodedIs
<1>2. CASE Fresh(c)
  BY <1>1, <1>2, SMT DEF Fresh
<1>3. CASE Numbers(c)
  BY <1>1, <1>3, SMT DEF Numbers
<1>4. ASSUME NEW j \in 0 .. Len(cmd.argv) - 1, Argument(c, cmd, j)
      PROVE  /\ c.user_size \in Nat /\ 1 <= c.user_size /\ c.user_size <= l
             /\ c.offset \in Nat /\ c.offset <= c.user_size
  <2> DEFINE a == At(cmd, j)
             b == At(cmd, j + 1)
             x == Len(cmd.argv[j + 1])
  <2>1. a \in Nat /\ 3 <= a /\ x \in Nat /\ b = a + 1 + x /\ b <= l
    BY Encoding DEF EncodedIs
  <2>2. (c.user_size = a + 1 /\ c.offset = a) \/ (c.user_size = b /\ c.offset = a + 1)
    BY <1>4 DEF Argument
  <2> HIDE DEF a, b, x, l
  <2>3. QED
    BY <1>1, <2>1, <2>2, SMT
<1>5. QED
  BY <1>2, <1>3, <1>4 DEF Phase

\* reader: what it makes of the bytes of a command, at any of its stops.
LEMMA ReaderReads ==
    ASSUME NEW cmd \in Commands, Len(cmd.argv) <= Arity[cmd.cmd_idx + 1],
           NEW c, Full(c, cmd), Phase(c, cmd)
    PROVE  LET r == reader(c, FALSE) IN ReadOn(r, c, cmd) \/ CalledOn(r, c, cmd)
<1> DEFINE n == Len(cmd.argv)
           e == Encoded(cmd)
           d == [c EXCEPT !.argc = n]
           r == reader(c, FALSE)
           more == unix_socket_server_recv(c, 3 - c.user_size)
           call == Called(d, cmd.cmd_idx, <<>>, Response(cmd.cmd_idx, 0))
<1>1. /\ n \in Nat /\ Len(e) = At(cmd, n) /\ At(cmd, 0) = 3 /\ 3 <= Len(e)
      /\ e[1] = 1 /\ e[2] = cmd.cmd_idx /\ e[3] = n
  BY Encoding DEF EncodedIs
<1>2. c.user_size \in Nat /\ 1 <= c.user_size
  BY PhaseFits
<1>3. c.data[1] = PR_DRV_COMMAND
  BY <1>1, <1>2, FullData, SMT DEF PR_DRV_COMMAND
<1>4. DOMAIN c = Fields
  BY DEF Full, Fit
<1>5. CASE Fresh(c)
  <2>1. c.user_size = 1 /\ c.offset = 0 /\ c.argc = 0 /\ c.args_received = 0
        /\ c.last_argument_offset = 0
    BY <1>5 DEF Fresh
  <2>2. r = Kept(more)
    BY <1>3, <2>1, SMT DEF reader, CommandLen
  <2>3. /\ more.user_size = c.user_size + (3 - c.user_size) /\ more.offset = c.user_size
        /\ more.argc = c.argc /\ more.args_received = c.args_received
        /\ more.last_argument_offset = c.last_argument_offset
    BY <1>4, RecvFields, SMT
  <2> HIDE DEF more, r
  <2>4. ReadOn(Kept(more), c, cmd)
    BY <2>3, <1>4, <2>1, RecvReadsOn, SMT DEF more, SameTask, Same, Phase, Numbers
  <2>5. QED
    BY <2>2, <2>4 DEF r
<1>6. CASE 3 <= c.user_size
  <2>1. c.data[2] = cmd.cmd_idx /\ c.data[3] = n
    <3>1. c.data[2] = e[2]
      BY <1>2, <1>6, FullData, SMT
    <3>2. QED
      BY <1>1, <3>1, <1>6, FullData, SMT
  <2>2. /\ SameTask(c, d)
        /\ d.argc = n /\ d.args_received = c.args_received
        /\ d.last_argument_offset = c.last_argument_offset
    BY <1>4, ArgcFields
  <2>3. d.data = c.data /\ d.user_size = c.user_size
    BY SMT DEF SameTask, Same
  <2>4. r = IF n = 0 THEN call
            ELSE IF n = d.args_received
            THEN Called(d, d.data[2], Argv(d, CommandLen), handler(d.data[2], d.argc))
            ELSE receive_arguments(d)
    <3> DEFINE D == [c EXCEPT !.argc = c.data[3]]
    <3>1. r = IF D.argc > Arity[D.data[2] + 1] THEN Dropped
              ELSE IF D.argc = 0 THEN Called(D, D.data[2], <<>>, Response(D.data[2], 0))
              ELSE IF D.argc = D.args_received
              THEN Called(D, D.data[2], Argv(D, CommandLen), handler(D.data[2], D.argc))
              ELSE receive_arguments(D)
      BY <1>3, <1>2, <1>6, SMT DEF reader, CommandLen
    <3>2. D = d
      BY <2>1
    <3> HIDE DEF D, d, r
    <3>3. d.data[2] = cmd.cmd_idx
      BY <2>1, <2>3
    <3>4. ~ (d.argc > Arity[d.data[2] + 1])
      <4>1. Arity \in Seq(Nat)
        BY ArityTyped
      <4> DEFINE w == Arity[cmd.cmd_idx + 1]
      <4>2. n <= w
        OBVIOUS
      <4> HIDE DEF w, n
      <4>3. QED
        BY <2>2, <3>3, <1>1, <4>1, <4>2, SMT DEF w, Commands
    <3>5. QED
      BY <2>2, <3>1, <3>2, <3>3, <3>4
  <2> HIDE DEF r, d
  <2>5. CASE n = 0
    <3>1. c.args_received = 0 /\ c.user_size = 3
      BY <1>6, <2>5, SMT DEF Phase, Numbers, Fresh
    <3>2. Full(d, cmd)
      BY <2>2, <3>1, SameTaskFull, SMT
    <3>3. CalledOn(call, c, cmd)
      BY <2>2, <2>5, <3>2, <1>1, <3>1, CalledCalls, SMT DEF CallIs
    <3>4. QED
      BY <2>4, <2>5, <3>3 DEF r
  <2>6. CASE n # 0 /\ Numbers(c)
    <3> DEFINE s == [d EXCEPT !.last_argument_offset = 3]
               one == unix_socket_server_recv(s, 1)
    <3>1. c.user_size = 3 /\ c.args_received = 0 /\ c.last_argument_offset = 0
      BY <2>6 DEF Numbers
    <3>2. receive_arguments(d) = Kept(one)
      <4>1. d.user_size = 3 /\ d.last_argument_offset = 0
        BY <2>2, <2>3, <3>1
      <4> DEFINE O == IF d.last_argument_offset = 0 THEN CommandLen ELSE d.last_argument_offset
                 E == O + ArgumentLen + d.data[O + 1]
                 M == IF d.user_size < O + ArgumentLen THEN O + ArgumentLen ELSE E
      <4>2. O = 3
        BY <4>1 DEF CommandLen
      <4>3. d.user_size < M /\ M - d.user_size = 1
        BY <4>1, <4>2, SMT DEF ArgumentLen
      <4>4. d.user_size < M =>
              receive_arguments(d) =
                Kept(unix_socket_server_recv([d EXCEPT !.last_argument_offset = O],
                                              M - d.user_size))
        BY DEF receive_arguments
      <4> HIDE DEF O, M, E
      <4>5. QED
        BY <4>2, <4>3, <4>4
    <3>3. /\ SameTask(d, s)
          /\ s.argc = d.argc /\ s.args_received = d.args_received
          /\ s.last_argument_offset = 3
      BY <2>2, OffsetFields, SMT DEF SameTask, Same
    <3> HIDE DEF s
    <3>4. SameTask(c, s) /\ DOMAIN s = Fields
      BY <2>2, <3>3 DEF SameTask, Same
    <3>5. s.argc = n /\ s.args_received = 0 /\ s.user_size = 3
      BY <2>2, <3>1, <3>3 DEF SameTask
    <3>6. Full(s, cmd)
      BY <3>4, <3>5, SameTaskFull, SMT
    <3>7. /\ one.user_size = s.user_size + 1 /\ one.offset = s.user_size
          /\ one.argc = s.argc /\ one.args_received = s.args_received
          /\ one.last_argument_offset = s.last_argument_offset
      BY <3>4, RecvFields, SMT
    <3> HIDE DEF one
    <3>8. ReadOn(Kept(one), c, cmd)
      <4>1. Argument(one, cmd, 0)
        BY <3>3, <3>5, <3>7, <1>1, <2>6, SMT DEF Argument
      <4>2. Phase(one, cmd)
        BY <4>1, <1>1, <2>6, SMT DEF Phase
      <4>3. 1 \in Nat
        BY SMT
      <4>4. QED
        BY <3>4, <3>6, <4>2, <4>3, RecvReadsOn DEF one
    <3>9. QED
      BY <2>2, <2>4, <2>6, <3>1, <3>2, <3>8 DEF r
  <2>7. ASSUME NEW j \in 0 .. n - 1, Argument(c, cmd, j)
        PROVE  ReadOn(r, c, cmd) \/ CalledOn(r, c, cmd)
    <3>1. c.args_received = j /\ c.argc = n
      BY <2>7 DEF Argument
    <3>2. Full(d, cmd)
      <4>1. d.argc \in Nat /\ d.args_received \in 0 .. d.argc
        BY <2>2, <3>1, SMT
      <4>2. QED
        BY <2>2, <4>1, SameTaskFull
    <3>3. ReadOn(r, d, cmd) => ReadOn(r, c, cmd)
      BY <2>2 DEF ReadOn, SameTask, Same
    <3>4. CalledOn(r, d, cmd) => CalledOn(r, c, cmd)
      BY <2>3 DEF CalledOn
    <3>5. QED
      BY <2>2, <2>4, <3>1, <3>2, <2>3, <2>7, ArgumentsRead, <3>3, <3>4, SMT DEF Argument,
         SameTask
  <2>8. QED
    <3>1. ~ Fresh(c)
      BY <1>6, SMT DEF Fresh
    <3>2. QED
      BY <2>5, <2>6, <2>7, <3>1 DEF Phase, r
<1>7. QED
  <2>1. ASSUME ~ Fresh(c) PROVE 3 <= c.user_size
    <3>1. ASSUME NEW j \in 0 .. Len(cmd.argv) - 1, Argument(c, cmd, j)
          PROVE  3 <= c.user_size
      <4> DEFINE a == At(cmd, j)
                 b == At(cmd, j + 1)
                 x == Len(cmd.argv[j + 1])
      <4>1. a \in Nat /\ 3 <= a /\ x \in Nat /\ b = a + 1 + x
        BY Encoding DEF EncodedIs
      <4>2. c.user_size = a + 1 \/ c.user_size = b
        BY <3>1 DEF Argument
      <4> HIDE DEF a, b, x
      <4>3. QED
        BY <4>1, <4>2, SMT
    <3>2. QED
      BY <2>1, <3>1, SMT DEF Phase, Numbers
  <2>2. QED
    BY <1>5, <1>6, <2>1

-----------------------------------------------------------------------------
(* Writing.                                                                *)

\* A callback keeps the connection and its session.
Goes(r, s, u, in, g, cl) ==
    r.dropped = FALSE /\ Session(r.conn, s, u, in, g, cl \o r.call)

\* What a session is made of.
LEMMA SessionTyped ==
    ASSUME NEW c, NEW s, NEW u, NEW in, NEW g, NEW cl, GoodScript(s), Session(c, s, u, in, g, cl)
    PROVE  /\ s \in Seq(Commands) /\ Len(s) \in Nat /\ Len(cl) \in 0 .. Len(s)
           /\ g \in Seq(Pieces) /\ cl \o <<>> = cl /\ g \o <<>> = g
           /\ Off(s, Len(cl)) \in Nat /\ Start(s, Len(cl)) \in Nat
           /\ c.out \in Seq(Pieces) /\ Len(c.out) \in Nat
           /\ Part(c.out, Pieces, All(s), Start(s, Len(cl)))
           /\ DOMAIN c = Fields
<1>1. s \in Seq(Commands) /\ Len(s) \in Nat
  BY SMT DEF GoodScript
<1>2. PICK S : cl \in Seq(S)
  BY DEF Session, CallsOf
<1>3. Len(cl) \in 0 .. Len(s)
  BY SMT DEF Session, CallsOf
<1>4. Turn(s, Len(cl)) \in Seq(Pieces) /\ Part(Turn(s, Len(cl)), Pieces, All(s), Start(s, Len(cl)))
  BY <1>1, <1>3, Answering DEF AllIs
<1>5. /\ g \in Seq(Pieces) /\ Part(g, Pieces, All(s), 0)
      /\ c.out = Turn(s, Len(cl)) /\ DOMAIN c = Fields
  BY DEF Session, Part, Fit
<1>6. cl \o <<>> = cl /\ g \o <<>> = g /\ Len(Turn(s, Len(cl))) \in Nat
  BY <1>2, <1>4, <1>5, SMT
<1>7. Off(s, Len(cl)) \in Nat /\ Start(s, Len(cl)) \in Nat
  BY <1>1, <1>3, <1>4, Wired DEF WireIs, Part
<1>8. QED
  BY <1>1, <1>3, <1>4, <1>5, <1>6, <1>7

\* data_may_be_sent, when some of the answer has been sent.
SentOn(c, n) == [c EXCEPT !.currently_wrote = @ + n]

\* n more pieces have been sent.
LEMMA SentFields ==
    ASSUME NEW c, NEW n, DOMAIN c = Fields
    PROVE  LET d == SentOn(c, n)
           IN  /\ DOMAIN d = Fields
               /\ d.currently_wrote = c.currently_wrote + n
               /\ d.out = c.out /\ d.jobs = c.jobs
               /\ d.data = c.data /\ d.user_size = c.user_size /\ d.offset = c.offset
               /\ d.currently_read = c.currently_read
               /\ d.argc = c.argc /\ d.args_received = c.args_received
BY SMT DEF SentOn

\* The server takes a task out before it calls back.
LEMMA WithoutFields ==
    ASSUME NEW c, NEW op, DOMAIN c = Fields
    PROVE  LET d == Without(c, op)
           IN  /\ Same(c, d) /\ d.jobs = c.jobs \ {op}
               /\ d.user_size = c.user_size /\ d.offset = c.offset
               /\ d.currently_read = c.currently_read
               /\ d.argc = c.argc /\ d.args_received = c.args_received
               /\ d.last_argument_offset = c.last_argument_offset
BY SMT DEF Without, Same

\* The writer empties the buffer and reads the next command.
LEMMA WriterFields ==
    ASSUME NEW c, DOMAIN c = Fields, c.jobs = {}
    PROVE  LET r == writer(c, FALSE)
           IN  /\ r.dropped = FALSE /\ r.call = <<>>
               /\ DOMAIN r.conn = Fields
               /\ r.conn.data = <<>> /\ r.conn.currently_read = 0 /\ Fresh(r.conn)
               /\ r.conn.jobs = {"READ"}
               /\ r.conn.out = c.out /\ r.conn.currently_wrote = c.currently_wrote
<1> DEFINE a == Emptied(c)
           b == [a EXCEPT !.argc = 0, !.args_received = 0, !.last_argument_offset = 0]
           d == unix_socket_server_recv(b, 1)
<1>1. writer(c, FALSE) = Kept(d)
  BY DEF writer, SignatureLen
<1>2. /\ DOMAIN a = Fields
      /\ a.data = <<>> /\ a.user_size = 0 /\ a.out = c.out
      /\ a.currently_wrote = c.currently_wrote /\ a.jobs = {}
  BY SMT DEF Emptied
<1> HIDE DEF a
<1>3. /\ DOMAIN b = Fields
      /\ b.data = a.data /\ b.user_size = a.user_size /\ b.out = a.out
      /\ b.currently_wrote = a.currently_wrote /\ b.jobs = a.jobs
      /\ b.argc = 0 /\ b.args_received = 0 /\ b.last_argument_offset = 0
  BY <1>2, SMT
<1> HIDE DEF b
<1>4. /\ Same(b, d)
      /\ d.user_size = b.user_size + 1 /\ d.offset = b.user_size
      /\ d.currently_read = 0 /\ d.jobs = b.jobs \cup {"READ"}
      /\ d.argc = b.argc /\ d.args_received = b.args_received
      /\ d.last_argument_offset = b.last_argument_offset
  BY <1>3, RecvFields
<1> HIDE DEF d
<1>5. Fresh(d)
  BY <1>2, <1>3, <1>4, SMT DEF Fresh
<1>6. Kept(d).dropped = FALSE /\ Kept(d).call = <<>> /\ Kept(d).conn = d
  BY DEF Kept
<1>7. QED
  BY <1>1, <1>2, <1>3, <1>4, <1>5, <1>6 DEF Same

\* data_may_be_sent: the session goes on.
LEMMA SentGoes ==
    ASSUME NEW c, NEW s, NEW u, NEW in, NEW g, NEW cl, GoodScript(s), Session(c, s, u, in, g, cl),
           "WRITE" \in c.jobs, NEW n \in 1 .. Len(c.out) - c.currently_wrote
    PROVE  LET d == SentOn(c, n)
               out == SubSeq(c.out, c.currently_wrote + 1, c.currently_wrote + n)
           IN  Goes(IF n < Len(c.out) - c.currently_wrote THEN Kept(d)
                    ELSE writer(Without(d, "WRITE"), FALSE),
                    s, u, in, g \o out, cl)
<1> DEFINE k == Len(cl)
           w == c.currently_wrote
           l == Len(c.out)
           d == SentOn(c, n)
           e == Without(d, "WRITE")
           out == SubSeq(c.out, w + 1, w + n)
           G == g \o out
<1>1. /\ s \in Seq(Commands) /\ Len(s) \in Nat /\ k \in 0 .. Len(s)
      /\ cl \o <<>> = cl
      /\ Off(s, k) \in Nat /\ Start(s, k) \in Nat
      /\ l \in Nat /\ Part(c.out, Pieces, All(s), Start(s, k))
      /\ DOMAIN c = Fields
  BY SessionTyped
<1>2. Fit(c) /\ c.out = Turn(s, k) /\ w \in 0 .. l /\ CallsOf(cl, s)
  BY DEF Session
<1>3. Part(g, Pieces, All(s), 0) /\ Len(g) = Start(s, k) + w
  BY DEF Session
<1>4. c.jobs = {"WRITE"} /\ Stream(Wire(s), Off(s, k), in, u)
  BY SMT DEF Writing, Session, Reading
<1>5. /\ DOMAIN d = Fields
      /\ d.currently_wrote = w + n
      /\ d.out = c.out /\ d.jobs = c.jobs
      /\ d.data = c.data /\ d.user_size = c.user_size /\ d.offset = c.offset
      /\ d.currently_read = c.currently_read
      /\ d.argc = c.argc /\ d.args_received = c.args_received
  BY <1>1, SentFields
<1> HIDE DEF d, w, l, k
<1>6. w \in Nat /\ n \in Nat /\ 1 <= n /\ w + n <= l
  BY <1>2, SMT DEF w, l
<1>7. Part(out, Pieces, All(s), Start(s, k) + w) /\ Len(out) = n
  <2>1. w + 1 \in Nat /\ w + n \in Nat /\ 1 <= w + 1 /\ w + 1 <= (w + n) + 1 /\ w + n <= Len(c.out)
    BY <1>6, SMT DEF l
  <2>2. /\ Part(out, Pieces, All(s), Start(s, k) + ((w + 1) - 1))
        /\ Len(out) = (w + n) - (w + 1) + 1
    BY <1>1, <2>1, PartCut, SMT
  <2>3. (w + 1) - 1 = w /\ (w + n) - (w + 1) + 1 = n
    BY <1>6, SMT
  <2>4. QED
    BY <2>2, <2>3
<1> HIDE DEF out
<1>8. Part(G, Pieces, All(s), 0) /\ Len(G) = Start(s, k) + (w + n)
  <2>1. Part(out, Pieces, All(s), 0 + Len(g))
    <3>1. 0 + Len(g) = Start(s, k) + w
      BY <1>1, <1>3, <1>6, SMT
    <3>2. QED
      BY <1>7, <3>1
  <2>2. Part(G, Pieces, All(s), 0) /\ Len(G) = Len(g) + Len(out)
    BY <1>3, <2>1, PartJoin
  <2> HIDE DEF G
  <2>3. QED
    BY <1>1, <1>3, <1>6, <1>7, <2>2, SMT
<1> HIDE DEF G
<1>9. CASE n < l - w
  <2>1. Session(d, s, u, in, G, cl)
    <3>1. Fit(d)
      BY <1>2, <1>5 DEF Fit
    <3>2. Writing(d, s, k, u, in)
      BY <1>4, <1>5 DEF Writing
    <3>3. d.currently_wrote \in 0 .. Len(d.out)
      BY <1>5, <1>6, SMT DEF l
    <3>4. QED
      BY <1>2, <1>5, <1>8, <3>1, <3>2, <3>3 DEF Session, k
  <2>2. QED
    BY <1>9, <2>1, SMT DEF d, G, out, w, l, Goes, Kept
<1>10. CASE ~ (n < l - w)
  <2> DEFINE r == writer(e, FALSE)
  <2>1. DOMAIN e = Fields /\ e.jobs = {} /\ e.out = c.out /\ e.currently_wrote = w + n
    <3>1. Same(d, e) /\ e.jobs = d.jobs \ {"WRITE"}
      BY <1>5, WithoutFields, SMT
    <3> HIDE DEF e
    <3>2. QED
      BY <1>4, <1>5, <3>1 DEF Same
  <2> HIDE DEF e
  <2>2. /\ r.dropped = FALSE /\ r.call = <<>>
        /\ DOMAIN r.conn = Fields
        /\ r.conn.data = <<>> /\ r.conn.currently_read = 0 /\ Fresh(r.conn)
        /\ r.conn.jobs = {"READ"}
        /\ r.conn.out = e.out /\ r.conn.currently_wrote = e.currently_wrote
    BY <2>1, WriterFields
  <2> DEFINE x == r.conn
  <2> HIDE DEF r, x
  <2>3. DOMAIN x = Fields /\ x.data = <<>> /\ x.currently_read = 0 /\ x.jobs = {"READ"}
    BY <2>2 DEF x
  <2>4. x.out = c.out /\ x.currently_wrote = w + n /\ x.currently_wrote = Len(x.out)
    BY <2>1, <2>2, <1>1, <1>6, <1>10, SMT DEF x, l
  <2>5. Fresh(x)
    BY <2>2 DEF x
  <2>6. Fit(x)
    BY <2>3, <2>5, SMT DEF Fit, Fresh
  <2>7. Reading(x, s, k, u, in)
    <3>1. Part(x.data, Nat, Wire(s), Off(s, k))
      <4>1. Off(s, k) \in Nat /\ Len(Wire(s)) \in Nat /\ Off(s, k) <= Len(Wire(s))
        BY <1>1, Wired DEF WireIs
      <4>2. QED
        BY <2>3, <4>1, PartEmpty
    <3>2. QED
      <4>1. Stream(Wire(s), Off(s, k) + Len(x.data), in, u)
        BY <1>1, <1>4, <2>3, SMT
      <4>2. QED
        BY <2>3, <2>4, <2>5, <3>1, <4>1 DEF Reading, Awaits, Phase
  <2>8. Goes(r, s, u, in, G, cl)
    BY <2>2, <1>8, <2>4, <2>6, <2>7, SMT DEF Goes, x, Session, k
  <2>9. QED
    BY <1>10, <2>8 DEF r, e, d, G, out, w, l
<1>11. QED
  BY <1>9, <1>10

-----------------------------------------------------------------------------
(* Reading.                                                                *)

\* The least of two numbers.
LEMMA MinOfTwo ==
    ASSUME NEW a \in Nat, NEW b \in Nat
    PROVE  Min({a, b}) \in Nat /\ Min({a, b}) <= a /\ Min({a, b}) <= b
<1> DEFINE P(x) == \A y \in {a, b} : x <= y
           m == CHOOSE x \in {a, b} : P(x)
<1>1. \E x \in {a, b} : P(x)
  BY SMT
<1> HIDE DEF P
<1> HIDE DEF m
<1>2. QED
  BY <1>1 DEF Min, P

FilledIs(c, n, in, d) ==
    /\ DOMAIN d = Fields
    /\ d.data = SubSeq(c.data, 1, c.offset + c.currently_read) \o SubSeq(in, 1, n)
    /\ d.currently_read = c.currently_read + n
    /\ d.out = c.out /\ d.currently_wrote = c.currently_wrote /\ d.jobs = c.jobs
    /\ d.user_size = c.user_size /\ d.offset = c.offset
    /\ d.argc = c.argc /\ d.args_received = c.args_received
    /\ d.last_argument_offset = c.last_argument_offset

\* data_may_be_read fills in the data and leaves the rest of the connection.
LEMMA FilledFields ==
    ASSUME NEW c, NEW n, NEW in, DOMAIN c = Fields
    PROVE  FilledIs(c, n, in, Filled(c, n, in))
BY FieldsAre DEF Filled, FilledIs

\* What the reader waits for depends on these counters only.
LEMMA SamePhase ==
    ASSUME NEW c, NEW d, NEW s, NEW k, Awaits(c, s, k),
           d.user_size = c.user_size, d.offset = c.offset,
           d.argc = c.argc, d.args_received = c.args_received,
           d.last_argument_offset = c.last_argument_offset
    PROVE  Awaits(d, s, k)
<1>1. QED
  BY DEF Awaits, Phase, Fresh, Numbers, Argument

\* data_may_be_read: what is in the socket goes behind the data, no more than is asked for.
LEMMA FilledSession ==
    ASSUME NEW c, NEW s, NEW u, NEW in, NEW g, NEW cl, GoodScript(s), Session(c, s, u, in, g, cl),
           c.jobs = {"READ"}, NEW n, n = Min({Lacks(c), Len(in)})
    PROVE  /\ Session(Filled(c, n, in), s, u, SubSeq(in, n + 1, Len(in)), g, cl)
           /\ Filled(c, n, in).jobs = {"READ"}
<1> DEFINE k == Len(cl)
           W == Wire(s)
           o == Off(s, k)
           D == c.data
           x == SubSeq(in, 1, n)
           y == SubSeq(in, n + 1, Len(in))
           d == Filled(c, n, in)
           h == SubSeq(D, 1, Len(D))
<1>1. s \in Seq(Commands) /\ k \in 0 .. Len(s) /\ o \in Nat /\ DOMAIN c = Fields
  BY SessionTyped
<1>2. Reading(c, s, k, u, in)
  BY DEF Session, Writing
<1>3. c.currently_wrote = Len(c.out) /\ Part(D, Nat, W, o) /\ Awaits(c, s, k)
  BY <1>2 DEF Reading
<1>4. Part(in, Nat, W, o + Len(D)) /\ Part(u, Nat, W, o + Len(D) + Len(in))
      /\ o + Len(D) + Len(in) + Len(u) = Len(W)
  BY <1>2 DEF Reading, Stream
<1>5. Len(D) \in Nat /\ Len(in) \in Nat /\ Len(u) \in Nat
  BY SMT DEF Part
<1>6. /\ c.user_size \in Nat /\ c.offset \in Nat /\ c.currently_read \in Nat
      /\ Len(D) = c.offset + c.currently_read /\ Len(D) <= c.user_size
      /\ c.argc \in Nat /\ c.args_received \in 0 .. c.argc
  BY DEF Fit, Session
<1>7. Lacks(c) = c.user_size - Len(D) /\ Lacks(c) \in Nat
  BY <1>5, <1>6, SMT DEF Lacks
<1>8. n \in Nat /\ n <= Lacks(c) /\ n <= Len(in)
  BY <1>7, MinOfTwo, SMT
<1>9. FilledIs(c, n, in, d)
  BY <1>1, FilledFields
<1> HIDE DEF d
<1>10. /\ DOMAIN d = Fields
       /\ d.out = c.out /\ d.currently_wrote = c.currently_wrote /\ d.jobs = c.jobs
       /\ d.argc = c.argc /\ d.args_received = c.args_received
       /\ d.last_argument_offset = c.last_argument_offset
  BY <1>9 DEF FilledIs
<1>11. d.currently_read = c.currently_read + n /\ d.user_size = c.user_size /\ d.offset = c.offset
  BY <1>9 DEF FilledIs
<1>12. d.data = h \o x
  BY <1>6, <1>9 DEF FilledIs
<1> HIDE DEF D, W, o, k
<1>13. Part(h, Nat, W, o) /\ Len(h) = Len(D)
  BY <1>3, PartCut, <1>1, SMT
<1>14. Part(x, Nat, W, o + Len(D)) /\ Len(x) = n
  BY <1>4, <1>8, PartCut, <1>1, SMT
<1>15. Part(y, Nat, W, o + Len(D) + n) /\ Len(y) = Len(in) - n
  <2>1. n + 1 \in Nat /\ 1 <= n + 1 /\ n + 1 <= Len(in) + 1 /\ Len(in) <= Len(in)
    BY <1>8, SMT
  <2>2. (o + Len(D)) + ((n + 1) - 1) = o + Len(D) + n /\ Len(in) - (n + 1) + 1 = Len(in) - n
    BY <1>8, SMT
  <2>3. QED
    BY <1>4, <2>1, PartCut, <2>2, SMT
<1> HIDE DEF x, y, h
<1>16. Part(d.data, Nat, W, o) /\ Len(d.data) = Len(D) + n
  <2>1. Part(h \o x, Nat, W, o) /\ Len(h \o x) = Len(h) + Len(x)
    BY <1>13, <1>14, PartJoin, SMT
  <2>2. QED
    BY <1>12, <1>13, <1>14, <2>1
<1>17. Stream(W, o + Len(d.data), y, u)
  <2>1. o + Len(d.data) = o + Len(D) + n
    BY <1>1, <1>8, <1>16, SMT
  <2>2. (o + Len(D) + n) + Len(y) = o + Len(D) + Len(in)
    BY <1>1, <1>8, <1>15, SMT
  <2>3. QED
    BY <1>4, <1>15, <2>1, <2>2 DEF Stream
<1>18. Fit(d)
  <2>1. Len(d.data) = d.offset + d.currently_read /\ Len(d.data) <= d.user_size
    <3> DEFINE z == Len(d.data)
               v == Len(D)
    <3>1. z = v + n /\ v \in Nat /\ v = c.offset + c.currently_read /\ n <= c.user_size - v
      BY <1>6, <1>7, <1>8, <1>16, SMT
    <3> HIDE DEF z, v
    <3>2. c.offset \in Nat /\ c.currently_read \in Nat /\ c.user_size \in Nat /\ n \in Nat
      BY <1>6, <1>8
    <3>3. z = c.offset + (c.currently_read + n) /\ z <= c.user_size
      BY <3>1, <3>2, SMT
    <3>4. QED
      BY <1>11, <3>3 DEF z
  <2>2. d.currently_read \in Nat
    BY <1>6, <1>8, <1>11, SMT
  <2>3. QED
    BY <1>6, <1>10, <1>11, <1>16, <2>1, <2>2 DEF Fit, Part
<1>19. QED
  BY <1>10, <1>18, <1>3, <1>16, <1>17, <1>11, SamePhase
     DEF d, y, Session, k, Reading, W, o

\* The task is done: the reader has what it asked for, and it is of a command.
LEMMA ReadingFull ==
    ASSUME NEW c, NEW s, NEW u, NEW in, NEW g, NEW cl, GoodScript(s), Session(c, s, u, in, g, cl),
           c.jobs = {"READ"}, ~ (Lacks(c) > 0)
    PROVE  /\ Len(cl) < Len(s) /\ Len(cl) + 1 \in 1 .. Len(s)
           /\ Full(Without(c, "READ"), s[Len(cl) + 1])
           /\ Phase(Without(c, "READ"), s[Len(cl) + 1])
<1> DEFINE k == Len(cl)
           W == Wire(s)
           o == Off(s, k)
           D == c.data
           w == Without(c, "READ")
           cmd == s[k + 1]
           e == Encoded(cmd)
<1>1. s \in Seq(Commands) /\ Len(s) \in Nat /\ k \in 0 .. Len(s) /\ o \in Nat /\ DOMAIN c = Fields
  BY SessionTyped
<1>2. Fit(c)
  BY DEF Session
<1>3. Reading(c, s, k, u, in)
  BY DEF Session, Writing
<1>4. Part(D, Nat, W, o) /\ Awaits(c, s, k)
  BY <1>3 DEF Reading
<1>5. Len(D) = c.user_size /\ c.user_size \in Nat
  BY <1>2, SMT DEF Lacks, Fit
<1> HIDE DEF D, W, o, k
<1>6. k < Len(s)
  <2>1. ASSUME ~ (k < Len(s)) PROVE FALSE
    BY <1>5, <1>4, <2>1, <1>1, Wired, SMT DEF Part, Awaits, Fresh, WireIs, o, W
  <2>2. QED
    BY <2>1
<1>7. k \in 0 .. Len(s) - 1 /\ k + 1 \in 1 .. Len(s)
  BY <1>1, <1>6, SMT
<1>8. \A i \in 1 .. Len(e) : W[o + i] = e[i]
  BY <1>1, <1>7, Wired DEF WireIs, W, o
<1>9. c.user_size <= Len(e)
  BY <1>1, <1>7, <1>4, <1>6, PhaseFits, SMT DEF Awaits
<1> HIDE DEF e
<1>10. ASSUME NEW i \in 1 .. c.user_size PROVE D[i] = e[i]
  BY <1>8, <1>5, <1>9, <1>4, SMT DEF Part
<1>11. /\ Same(c, w) /\ w.jobs = c.jobs \ {"READ"}
       /\ w.user_size = c.user_size /\ w.offset = c.offset
       /\ w.currently_read = c.currently_read
       /\ w.argc = c.argc /\ w.args_received = c.args_received
       /\ w.last_argument_offset = c.last_argument_offset
  BY <1>1, WithoutFields
<1> HIDE DEF w, cmd
<1>12. Full(w, cmd)
  BY <1>5, <1>10, <1>11, <1>2 DEF Full, e, Fit, D, Same
<1>13. Phase(w, cmd)
  BY <1>6, <1>4, <1>11, SamePhase DEF Awaits, cmd
<1>14. QED
  BY <1>7, <1>12, <1>13, SMT DEF k, w, cmd

-----------------------------------------------------------------------------
(* The session of a client the driver reads from.                          *)

\* A session that reads.
LEMMA SessionReads ==
    ASSUME NEW c, NEW s, NEW u, NEW in, NEW g, NEW cl, Session(c, s, u, in, g, cl),
           c.jobs = {"READ"}
    PROVE  /\ c.currently_wrote = Len(c.out)
           /\ Part(c.data, Nat, Wire(s), Off(s, Len(cl)))
           /\ Stream(Wire(s), Off(s, Len(cl)) + Len(c.data), in, u)
<1>1. QED
  BY DEF Reading, Session, Writing

\* The reader reads on.
LEMMA ReadOnGoes ==
    ASSUME NEW c, NEW s, NEW u, NEW in, NEW g, NEW cl, GoodScript(s), Session(c, s, u, in, g, cl),
           c.jobs = {"READ"}, Len(cl) < Len(s), NEW w, Same(c, w),
           NEW r, ReadOn(r, w, s[Len(cl) + 1])
    PROVE  Goes(r, s, u, in, g, cl)
<1> DEFINE k == Len(cl)
           x == r.conn
<1>1. /\ c.currently_wrote = Len(c.out)
      /\ Part(c.data, Nat, Wire(s), Off(s, k))
      /\ Stream(Wire(s), Off(s, k) + Len(c.data), in, u)
  BY SessionReads
<1>2. c.out = Turn(s, k) /\ c.currently_wrote \in 0 .. Len(c.out) /\ CallsOf(cl, s)
  BY DEF Session
<1>3. Part(g, Pieces, All(s), 0) /\ Len(g) = Start(s, k) + c.currently_wrote
  BY DEF Session
<1>4. cl \o <<>> = cl
  BY SessionTyped
<1>5. r.dropped = FALSE /\ r.call = <<>>
  BY DEF ReadOn
<1>6. Fit(x) /\ x.jobs = {"READ"} /\ Phase(x, s[k + 1])
  BY DEF ReadOn
<1>7. x.data = c.data /\ x.out = c.out /\ x.currently_wrote = c.currently_wrote
  BY DEF ReadOn, Same
<1> HIDE DEF x, k
<1>8. Awaits(x, s, k)
  BY <1>6 DEF Awaits, k
<1>9. Reading(x, s, k, u, in)
  BY <1>1, <1>6, <1>7, <1>8 DEF Reading
<1>10. Session(x, s, u, in, g, cl)
  BY <1>2, <1>3, <1>6, <1>7, <1>9 DEF Session, k
<1>11. QED
  BY <1>4, <1>5, <1>10 DEF Goes, x

\* One more call.
LEMMA CallsAdded ==
    ASSUME NEW s \in Seq(Commands), NEW cl, CallsOf(cl, s), Len(cl) < Len(s),
           NEW x, CallIs(x, s[Len(cl) + 1])
    PROVE  CallsOf(cl \o <<x>>, s) /\ Len(cl \o <<x>>) = Len(cl) + 1
<1> DEFINE k == Len(cl)
           y == <<x>>
           z == cl \o y
<1>1. PICK S : cl \in Seq(S)
  BY DEF CallsOf
<1> DEFINE T == S \cup {x}
<1>2. cl \in Seq(T)
  <2>1. \A e \in S : e \in T
    OBVIOUS
  <2> HIDE DEF T
  <2>2. QED
    BY <1>1, <2>1, SMT
<1>3. y \in Seq(T) /\ Len(y) = 1 /\ y[1] = x
  BY SMT
<1> HIDE DEF T, y
<1>4. k \in Nat /\ Len(s) \in Nat
  BY SMT
<1>5. /\ z \in Seq(T) /\ Len(z) = k + Len(y)
      /\ \A i \in 1 .. k + Len(y) : z[i] = IF i <= k THEN cl[i] ELSE y[i - k]
  BY <1>2, <1>3, ConcatProperties
<1>6. \A i \in 1 .. k : CallIs(cl[i], s[i])
  BY DEF CallsOf
<1> HIDE DEF z
<1>7. Len(z) = k + 1 /\ Len(z) <= Len(s)
  BY <1>3, <1>5, SMT DEF k
<1> HIDE DEF k
<1>8. ASSUME NEW i \in 1 .. Len(z) PROVE CallIs(z[i], s[i])
  <2>1. CASE i <= k
    BY <1>6, <1>4, <2>1, <1>5, SMT
  <2>2. CASE ~ (i <= k)
    BY <1>4, <1>7, <1>3, <1>5, <2>2, SMT DEF k
  <2>3. QED
    BY <2>1, <2>2
<1>9. QED
  BY <1>5, <1>7, <1>8 DEF z, y, k, CallsOf

\* The handler has been called and the answer is to be sent.
LEMMA CalledGoes ==
    ASSUME NEW c, NEW s, NEW u, NEW in, NEW g, NEW cl, GoodScript(s), Session(c, s, u, in, g, cl),
           c.jobs = {"READ"}, Len(cl) < Len(s), Len(c.data) = c.user_size,
           NEW w, w.user_size = c.user_size, NEW r, CalledOn(r, w, s[Len(cl) + 1])
    PROVE  Goes(r, s, u, in, g, cl)
<1> DEFINE k == Len(cl)
           x == r.conn
           cmd == s[k + 1]
<1>1. /\ c.currently_wrote = Len(c.out)
      /\ Stream(Wire(s), Off(s, k) + Len(c.data), in, u)
  BY SessionReads
<1>2. c.out = Turn(s, k) /\ CallsOf(cl, s)
  BY DEF Session
<1>3. Part(g, Pieces, All(s), 0) /\ Len(g) = Start(s, k) + c.currently_wrote
  BY DEF Session
<1>4. s \in Seq(Commands) /\ Len(s) \in Nat /\ k \in 0 .. Len(s)
  BY SessionTyped
<1>5. PICK y : r.call = <<y>> /\ CallIs(y, cmd)
  BY DEF CalledOn
<1>6. r.dropped = FALSE /\ w.user_size = Len(Encoded(cmd)) /\ Fit(x) /\ x.jobs = {"WRITE"}
  BY DEF CalledOn
<1>7. x.out = Response(cmd.cmd_idx, Len(cmd.argv)) /\ x.currently_wrote = 0
  BY DEF CalledOn
<1> DEFINE z == cl \o <<y>>
<1>8. CallsOf(z, s) /\ Len(z) = k + 1
  BY <1>2, <1>4, <1>5, CallsAdded
<1> HIDE DEF k, x, z
<1>9. k \in 0 .. Len(s) - 1 /\ k + 1 \in 1 .. Len(s) /\ k + 1 \in 0 .. Len(s) /\ k + 1 # 0
  BY SMT DEF k
<1>10. Off(s, k + 1) = Off(s, k) + Len(c.data)
  BY <1>6, <1>4, <1>9, Wired, SMT DEF WireIs
<1>11. Turn(s, k + 1) = x.out
  BY <1>7, <1>9, SMT DEF Turn, Replies
<1>12. Start(s, k + 1) = Len(g)
  BY <1>1, <1>2, <1>3, <1>4, <1>9, Answering DEF AllIs
<1>13. Len(g) = Start(s, k + 1) + 0
  BY <1>12, SMT
<1>14. x.currently_wrote \in 0 .. Len(x.out)
  BY <1>7, SMT
<1>15. QED
  BY <1>6, <1>7, <1>8, <1>11, <1>13, <1>1, <1>10, <1>14, <1>5 DEF Goes, x, Session, Writing, z

\* data_may_be_read: the session goes on, or the client has gone.
LEMMA ReadGoes ==
    ASSUME NEW c, NEW s, NEW u, NEW in, NEW g, NEW cl, GoodScript(s), Session(c, s, u, in, g, cl),
           NEW p \in {"open", "closed"}, NEW n, n = Min({Lacks(c), Len(in)}),
           NEW d, d = Filled(c, n, in), "READ" \in d.jobs, NEW r,
           r = IF Lacks(d) > 0 /\ p = "open" THEN Kept(d)
               ELSE reader(Without(d, "READ"), Lacks(d) > 0)
    PROVE  \/ r.dropped = TRUE /\ p = "closed"
           \/ Goes(r, s, u, SubSeq(in, n + 1, Len(in)), g, cl)
<1> DEFINE y == SubSeq(in, n + 1, Len(in))
           w == Without(d, "READ")
           cmd == s[Len(cl) + 1]
<1>1. DOMAIN c = Fields
  BY SessionTyped
<1>2. d.jobs = c.jobs
  <2>1. FilledIs(c, n, in, d)
    BY <1>1, FilledFields
  <2>2. QED
    BY <2>1 DEF FilledIs
<1>3. c.jobs = {"READ"}
  BY <1>2 DEF Session, Writing, Reading
<1>4. Session(d, s, u, y, g, cl) /\ d.jobs = {"READ"}
  BY <1>3, FilledSession
<1> HIDE DEF y
<1>5. DOMAIN d = Fields /\ cl \o <<>> = cl
  BY <1>4, SessionTyped
<1>6. CASE Lacks(d) > 0 /\ p = "open"
  BY <1>4, <1>5, <1>6 DEF Goes, y, Kept
<1>7. CASE Lacks(d) > 0 /\ p # "open"
  BY <1>7 DEF Dropped, reader
<1>8. CASE ~ (Lacks(d) > 0)
  <2>1. r = reader(w, FALSE)
    <3>1. (Lacks(d) > 0) = FALSE
      BY <1>8, SMT
    <3>2. QED
      BY <3>1
  <2>2. /\ Len(cl) < Len(s) /\ Len(cl) + 1 \in 1 .. Len(s)
        /\ Full(w, cmd) /\ Phase(w, cmd)
    BY <1>4, <1>8, ReadingFull
  <2>3. cmd \in Commands /\ Len(cmd.argv) <= Arity[cmd.cmd_idx + 1]
    BY <2>2, SMT DEF GoodScript
  <2>4. Same(d, w) /\ w.user_size = d.user_size
    BY <1>5, WithoutFields
  <2> HIDE DEF w, cmd
  <2>5. CASE ReadOn(r, w, cmd)
    BY <1>4, <2>2, <2>4, <2>5, ReadOnGoes DEF y, cmd
  <2>6. CASE CalledOn(r, w, cmd)
    BY <1>4, <2>2, <2>4, <2>6, CalledGoes DEF y, cmd, Full, Same
  <2>7. QED
    BY <2>1, <2>2, <2>3, ReaderReads, <2>5, <2>6
<1>9. QED
  BY <1>6, <1>7, <1>8

-----------------------------------------------------------------------------
(* A session begins; bytes arrive.                                         *)

\* Before a connection is accepted, and after it is closed.
LEMMA EmptyWire == Wire(<<>>) = <<>>
<1>1. <<>> \in Seq(Commands) /\ Len(<<>>) = 0
  BY SMT
<1>2. Wire(<<>>) \in Seq(Nat) /\ Len(Wire(<<>>)) = 0
  BY <1>1, Wired DEF WireIs
<1>3. QED
  BY <1>2, SMT

\* A descriptor without a client.
LEMMA NoClient == Client(FALSE, "none", NoConnection, <<>>, <<>>, <<>>, <<>>, <<>>)
<1>1. QED
  BY EmptyWire, SMT DEF Client, Idle, GoodScript

\* The acceptor begins the session: the greeting is to be sent.
LEMMA GreetedSession ==
    ASSUME NEW s, NEW u, GoodScript(s), u = Wire(s)
    PROVE  Session(unix_socket_server_send(NoConnection, greeting), s, u, <<>>, <<>>, <<>>)
<1> DEFINE z == NoConnection
           c == unix_socket_server_send(z, greeting)
<1>1. DOMAIN z = Fields
  BY DEF Fields
<1>2. /\ z.jobs = {} /\ z.data = <<>> /\ z.user_size = 0 /\ z.offset = 0 /\ z.currently_read = 0
      /\ z.argc = 0 /\ z.args_received = 0
  BY DEF NoConnection
<1> HIDE DEF z
<1>3. /\ DOMAIN c = Fields
      /\ c.out = greeting /\ c.currently_wrote = 0 /\ c.jobs = z.jobs \cup {"WRITE"}
      /\ c.data = z.data /\ c.user_size = z.user_size /\ c.offset = z.offset
      /\ c.currently_read = z.currently_read
      /\ c.argc = z.argc /\ c.args_received = z.args_received
  BY <1>1, SendFields
<1> HIDE DEF c
<1>4. Fit(c)
  BY <1>2, <1>3, SMT DEF Fit
<1>5. s \in Seq(Commands) /\ Len(s) \in Nat /\ Len(<<>>) = 0 /\ 0 \in 0 .. Len(s)
  BY SMT DEF GoodScript
<1>6. c.out = Turn(s, 0) /\ c.currently_wrote \in 0 .. Len(c.out)
  BY <1>3, SMT DEF Turn
<1>7. CallsOf(<<>>, s)
  BY SMT DEF CallsOf
<1>8. Part(<<>>, Pieces, All(s), 0) /\ Len(<<>>) = Start(s, 0) + c.currently_wrote
  BY <1>3, <1>5, Answering, PartEmpty, SMT DEF AllIs
<1>9. Writing(c, s, 0, u, <<>>)
  <2> DEFINE W == Wire(s)
  <2>1. W \in Seq(Nat) /\ Len(W) \in Nat /\ Off(s, 0) = 0
    BY <1>5, Wired DEF WireIs
  <2> HIDE DEF W
  <2>2. Part(W, Nat, W, 0)
    BY <2>1, SMT DEF Part
  <2>3. QED
    BY <2>1, PartEmpty, <2>2, <1>2, <1>3, SMT DEF Writing, W, Stream
<1>10. QED
  BY <1>4, <1>6, <1>7, <1>8, <1>9 DEF c, z, Session

\* The session of a client does not mind when its bytes arrive.
LEMMA SendsSession ==
    ASSUME NEW c, NEW s, NEW u, NEW in, NEW g, NEW cl, Session(c, s, u, in, g, cl),
           NEW n \in 1 .. Len(u)
    PROVE  Session(c, s, SubSeq(u, n + 1, Len(u)), in \o SubSeq(u, 1, n), g, cl)
<1> DEFINE y == SubSeq(u, n + 1, Len(u))
           z == in \o SubSeq(u, 1, n)
<1>1. \A m : Stream(Wire(s), m, in, u) => Stream(Wire(s), m, z, y)
  BY StreamSends
<1> HIDE DEF y, z
<1>2. QED
  BY <1>1 DEF y, z, Session, Writing, Reading

-----------------------------------------------------------------------------
(* The steps.                                                              *)

\* A step touches one descriptor: the clients of the others are as before.
Untouched(f) ==
    /\ (f \in connections') = (f \in connections)
    /\ peer'[f] = peer[f] /\ conn'[f] = conn[f] /\ script'[f] = script[f]
    /\ unsent'[f] = unsent[f] /\ inbox'[f] = inbox[f] /\ got'[f] = got[f] /\ calls'[f] = calls[f]

\* So a step keeps the invariant when it keeps it for that descriptor.
LEMMA OneClient ==
    ASSUME IInv, NEW fd \in Fds, Shape', ClientOf(fd)', \A f \in Fds \ {fd} : Untouched(f)
    PROVE  IInv'
<1>1. ASSUME NEW f \in Fds, f # fd PROVE ClientOf(f)'
  BY DEF ClientOf, Untouched, IInv
<1>2. QED
  BY <1>1 DEF IInv

\* No client that is there is dropped.
Keeps == \A fd \in Fds : fd \in connections \ connections' => ~ running' \/ peer[fd] = "closed"

\* What the server makes of a callback: the session goes on, or the connection of a
\* client that has gone is closed.
LEMMA ApplyGoes ==
    ASSUME IInv, NEW fd \in Fds, fd \in connections, UNCHANGED running,
           NEW r, NEW in, NEW out, Apply(fd, r, in, out),
           \/ r.dropped = TRUE /\ peer[fd] = "closed"
           \/ Goes(r, script[fd], unsent[fd], in, got[fd] \o out, calls[fd])
    PROVE  IInv' /\ Keeps
<1>1. Shape
  BY DEF IInv
<1>2. CASE r.dropped /\ close_connection(fd)
  <2>1. connections' = connections \ {fd} /\ connection_state' = connection_state \ {fd}
        /\ conn' = [conn EXCEPT ![fd] = NoConnection]
    BY <1>2 DEF close_connection
  <2>2. /\ peer' = [peer EXCEPT ![fd] = "none"]
        /\ script' = [script EXCEPT ![fd] = <<>>]
        /\ unsent' = [unsent EXCEPT ![fd] = <<>>]
        /\ inbox' = [inbox EXCEPT ![fd] = <<>>]
        /\ got' = [got EXCEPT ![fd] = <<>>]
        /\ calls' = [calls EXCEPT ![fd] = <<>>]
    BY <1>2 DEF close_connection, Forgotten
  <2>3. \A f \in Fds \ {fd} : Untouched(f)
    BY <2>1, <2>2, SMT DEF Shape, Untouched
  <2>4. ClientOf(fd)'
    <3>1. (fd \in connections') = FALSE
      BY <2>1, SMT
    <3>2. QED
      BY <3>1, <1>1, <2>1, <2>2, NoClient DEF ClientOf, Shape
  <2>5. QED
    BY <1>1, <2>1, <2>2, <2>3, <2>4, OneClient, <1>2 DEF Shape, Keeps, Goes
<1>3. CASE /\ ~ r.dropped
           /\ conn' = [conn EXCEPT ![fd] = r.conn]
           /\ inbox' = [inbox EXCEPT ![fd] = in]
           /\ got' = [got EXCEPT ![fd] = @ \o out]
           /\ calls' = [calls EXCEPT ![fd] = @ \o r.call]
           /\ UNCHANGED <<connections, connection_state, peer, script, unsent>>
  <2>1. ClientOf(fd)'
    BY <1>1, <1>3 DEF ClientOf, Shape, Client, Goes, IInv
  <2>2. QED
    BY <1>1, <1>3, <2>1, OneClient DEF Shape, Untouched, Keeps
<1>4. QED
  BY <1>2, <1>3 DEF Apply

\* A descriptor with a job has a client, whose session it serves.
LEMMA JobHasSession ==
    ASSUME IInv, NEW fd \in Fds, NEW op, op \in conn[fd].jobs
    PROVE  /\ fd \in connections /\ peer[fd] \in {"open", "closed"} /\ GoodScript(script[fd])
           /\ Session(conn[fd], script[fd], unsent[fd], inbox[fd], got[fd], calls[fd])
<1>1. Client(fd \in connections, peer[fd], conn[fd], script[fd],
             unsent[fd], inbox[fd], got[fd], calls[fd])
  BY DEF IInv, ClientOf
<1>2. fd \in connections
  <2>1. ASSUME fd \notin connections PROVE FALSE
    BY <1>1, <2>1, SMT DEF NoConnection, Client, Idle
  <2>2. QED
    BY <2>1
<1>3. QED
  BY <1>1, <1>2 DEF Client

\* The server may write.
LEMMA SentIInv ==
    ASSUME IInv, NEW fd \in Fds, data_may_be_sent(fd)
    PROVE  IInv' /\ Keeps
<1> DEFINE c == conn[fd]
           w == c.currently_wrote
           left == Len(c.out) - w
<1>1. "WRITE" \in c.jobs /\ UNCHANGED running
  BY DEF data_may_be_sent
<1>2. /\ fd \in connections /\ peer[fd] \in {"open", "closed"} /\ GoodScript(script[fd])
      /\ Session(c, script[fd], unsent[fd], inbox[fd], got[fd], calls[fd])
  BY <1>1, JobHasSession
<1>3. CASE peer[fd] = "closed" /\ Apply(fd, writer(Without(c, "WRITE"), TRUE), inbox[fd], <<>>)
  BY <1>1, <1>2, <1>3, ApplyGoes DEF writer, Dropped
<1>4. ASSUME NEW n \in 1 .. left, NEW d, d = SentOn(c, n),
             Apply(fd, IF n < left THEN Kept(d)
                    ELSE writer(Without(d, "WRITE"), FALSE),
                   inbox[fd], SubSeq(c.out, w + 1, w + n))
      PROVE  IInv' /\ Keeps
  <2> DEFINE r == IF n < left THEN Kept(d) ELSE writer(Without(d, "WRITE"), FALSE)
             out == SubSeq(c.out, w + 1, w + n)
  <2> HIDE DEF r, out
  <2>1. QED
    BY <1>1, <1>2, <1>4, SentGoes, ApplyGoes
<1>5. QED
  BY <1>3, <1>4 DEF data_may_be_sent, SentOn

\* The server may read.
LEMMA ReadIInv ==
    ASSUME IInv, NEW fd \in Fds, data_may_be_read(fd)
    PROVE  IInv' /\ Keeps
<1> DEFINE c == conn[fd]
           in == inbox[fd]
<1>1. PICK n, d :
          /\ n = Min({Lacks(c), Len(in)})
          /\ d = Filled(c, n, in)
          /\ "READ" \in d.jobs
          /\ Apply(fd, IF Lacks(d) > 0 /\ peer[fd] = "open" THEN Kept(d)
                       ELSE reader(Without(d, "READ"), Lacks(d) > 0),
                   SubSeq(in, n + 1, Len(in)), <<>>)
          /\ UNCHANGED running
  BY DEF data_may_be_read
<1> DEFINE r == IF Lacks(d) > 0 /\ peer[fd] = "open" THEN Kept(d)
                ELSE reader(Without(d, "READ"), Lacks(d) > 0)
           rest == SubSeq(in, n + 1, Len(in))
<1>2. DOMAIN c = Fields
  BY DEF Fit, Fields, Client, Idle, Session, IInv, ClientOf
<1>3. "READ" \in c.jobs
  <2>1. FilledIs(c, n, in, d)
    BY <1>1, <1>2, FilledFields
  <2>2. QED
    BY <1>1, <2>1 DEF FilledIs
<1>4. /\ fd \in connections /\ peer[fd] \in {"open", "closed"} /\ GoodScript(script[fd])
      /\ Session(c, script[fd], unsent[fd], in, got[fd], calls[fd])
  BY <1>3, JobHasSession
<1>5. \/ r.dropped = TRUE /\ peer[fd] = "closed"
      \/ Goes(r, script[fd], unsent[fd], rest, got[fd], calls[fd])
  BY <1>1, <1>4, ReadGoes
<1>6. got[fd] \o <<>> = got[fd]
  BY SMT
<1>7. Apply(fd, r, rest, <<>>)
  BY <1>1
<1> HIDE DEF r, rest
<1>8. QED
  BY <1>1, <1>4, <1>5, <1>6, <1>7, ApplyGoes

\* The acceptor takes a waiting client.
LEMMA AcceptorIInv ==
    ASSUME IInv, NEW fd \in Fds, acceptor(fd)
    PROVE  IInv' /\ Keeps
<1> DEFINE c == unix_socket_server_send(NoConnection, greeting)
<1>1. Shape
  BY DEF IInv
<1>2. /\ peer[fd] # "none" /\ fd \notin connections
      /\ connections' = connections \cup {fd} /\ connection_state' = connection_state \cup {fd}
      /\ conn' = [conn EXCEPT ![fd] = c]
  BY DEF acceptor
<1>3. UNCHANGED <<running, peer, script, unsent, inbox, got, calls>>
  BY DEF acceptor, client
<1>4. Client(FALSE, peer[fd], conn[fd], script[fd], unsent[fd], inbox[fd], got[fd], calls[fd])
  <2>1. ClientOf(fd) /\ (fd \in connections) = FALSE
    BY <1>2, SMT DEF IInv
  <2>2. QED
    BY <2>1 DEF ClientOf
<1>5. /\ peer[fd] \in {"open", "closed"} /\ GoodScript(script[fd]) /\ unsent[fd] = Wire(script[fd])
      /\ inbox[fd] = <<>> /\ got[fd] = <<>> /\ calls[fd] = <<>>
  BY <1>2, <1>4 DEF Client, Idle
<1>6. Session(c, script[fd], unsent[fd], <<>>, <<>>, <<>>)
  BY <1>5, GreetedSession
<1> HIDE DEF c
<1>7. ClientOf(fd)'
  BY <1>3, <1>5, <1>6, <1>1, <1>2 DEF ClientOf, Client, Shape
<1>8. QED
  BY <1>7, <1>1, <1>2, <1>3, OneClient, SMT DEF Shape, Untouched, Keeps

\* A client connects.
LEMMA ConnectIInv ==
    ASSUME IInv, NEW fd \in Fds, Connect(fd)
    PROVE  IInv' /\ Keeps
<1>1. Shape
  BY DEF IInv
<1>2. PICK s \in Scripts :
          /\ script' = [script EXCEPT ![fd] = s]
          /\ unsent' = [unsent EXCEPT ![fd] = Joined([i \in DOMAIN s |-> Encoded(s[i])])]
  BY DEF Connect
<1>3. peer[fd] = "none" /\ peer' = [peer EXCEPT ![fd] = "open"]
  BY DEF Connect
<1>4. UNCHANGED <<running, connections, connection_state, conn, inbox, got, calls>>
  BY DEF Connect, server
<1>5. GoodScript(s)
  BY DriverAssumption, SMT DEF GoodScript
<1>6. /\ fd \notin connections /\ conn[fd] = NoConnection
      /\ inbox[fd] = <<>> /\ got[fd] = <<>> /\ calls[fd] = <<>>
  BY <1>3 DEF Client, Idle, IInv, ClientOf
<1>7. ClientOf(fd)'
  BY <1>4, <1>6, <1>5, <1>1, <1>2, <1>3 DEF ClientOf, Client, Idle, Shape, Wire, Coded
<1>8. QED
  BY <1>7, <1>1, <1>2, <1>3, <1>4, OneClient DEF Shape, Untouched, Keeps

\* A client sends some of its bytes.
LEMMA ClientSendsIInv ==
    ASSUME IInv, NEW fd \in Fds, ClientSends(fd)
    PROVE  IInv' /\ Keeps
<1> DEFINE u == unsent[fd]
           in == inbox[fd]
<1>1. Shape
  BY DEF IInv
<1>2. PICK n \in 1 .. Len(u) :
          /\ inbox' = [inbox EXCEPT ![fd] = in \o SubSeq(u, 1, n)]
          /\ unsent' = [unsent EXCEPT ![fd] = SubSeq(u, n + 1, Len(u))]
  BY DEF ClientSends
<1>3. peer[fd] = "open" /\ Len(got[fd]) >= Len(greeting)
  BY DEF ClientSends
<1>4. UNCHANGED <<running, connections, connection_state, conn, peer, script, got, calls>>
  BY DEF ClientSends, server
<1>5. Client(fd \in connections, peer[fd], conn[fd], script[fd], u, in, got[fd], calls[fd])
  BY DEF IInv, ClientOf
<1>6. fd \in connections
  <2>1. ASSUME fd \notin connections PROVE FALSE
    BY <1>3, <1>5, <2>1, GreetingTyped, SMT DEF Client, Idle
  <2>2. QED
    BY <2>1
<1> DEFINE y == SubSeq(u, n + 1, Len(u))
           z == in \o SubSeq(u, 1, n)
<1>7. GoodScript(script[fd]) /\ Session(conn[fd], script[fd], u, in, got[fd], calls[fd])
  BY <1>5, <1>6 DEF Client
<1>8. Session(conn[fd], script[fd], y, z, got[fd], calls[fd])
  BY <1>7, SendsSession
<1>9. inbox' = [inbox EXCEPT ![fd] = z] /\ unsent' = [unsent EXCEPT ![fd] = y]
  BY <1>2
<1> HIDE DEF y, z
<1>10. ClientOf(fd)'
  BY <1>3, <1>4, <1>7, <1>8, <1>1, <1>6, <1>9 DEF ClientOf, Client, Shape
<1>11. QED
  BY <1>10, <1>1, <1>4, <1>9, OneClient DEF Shape, Untouched, Keeps

\* A client closes its end.
LEMMA ClientClosesIInv ==
    ASSUME IInv, NEW fd \in Fds, ClientCloses(fd)
    PROVE  IInv' /\ Keeps
<1>1. Shape
  BY DEF IInv
<1>2. peer[fd] = "open" /\ peer' = [peer EXCEPT ![fd] = "closed"]
  BY DEF ClientCloses
<1>3. UNCHANGED <<running, connections, connection_state, conn, script, unsent, inbox, got, calls>>
  BY DEF ClientCloses, server
<1>4. ClientOf(fd)'
  BY <1>3, <1>1, <1>2 DEF ClientOf, Client, IInv, Shape
<1>5. QED
  BY <1>4, <1>1, <1>2, <1>3, OneClient DEF Shape, Untouched, Keeps

\* At first there are no clients.
LEMMA InitIInv == Init => IInv
<1> SUFFICES ASSUME Init PROVE IInv
  OBVIOUS
<1>1. ASSUME NEW fd \in Fds PROVE ClientOf(fd)
  <2>1. (fd \in connections) = FALSE
    BY SMT DEF Init
  <2>2. QED
    BY <2>1, NoClient DEF ClientOf, Init
<1>2. QED
  BY <1>1 DEF IInv, Init, Shape

\* The driver ends: all connections are closed.
LEMMA DeinitIInv == driver_core_deinit => IInv' /\ Keeps
<1> SUFFICES ASSUME driver_core_deinit PROVE IInv' /\ Keeps
  OBVIOUS
<1>1. ASSUME NEW fd \in Fds PROVE ClientOf(fd)'
  <2>1. (fd \in connections') = FALSE
    BY SMT DEF driver_core_deinit
  <2>2. QED
    BY <2>1, NoClient DEF ClientOf, driver_core_deinit
<1>2. QED
  BY <1>1 DEF IInv, driver_core_deinit, Shape, Keeps

\* Every step keeps the sessions, and drops no client that is there.
LEMMA NextIInv == IInv /\ [Next]_vars => IInv' /\ Keeps
<1> SUFFICES ASSUME IInv, [Next]_vars PROVE IInv' /\ Keeps
  OBVIOUS
<1>1. ASSUME NEW fd \in Fds, acceptor(fd) PROVE IInv' /\ Keeps
  BY <1>1, AcceptorIInv
<1>2. ASSUME NEW fd \in Fds, data_may_be_sent(fd) PROVE IInv' /\ Keeps
  BY <1>2, SentIInv
<1>3. ASSUME NEW fd \in Fds, data_may_be_read(fd) PROVE IInv' /\ Keeps
  BY <1>3, ReadIInv
<1>4. ASSUME NEW fd \in Fds, Connect(fd) PROVE IInv' /\ Keeps
  BY <1>4, ConnectIInv
<1>5. ASSUME NEW fd \in Fds, ClientSends(fd) PROVE IInv' /\ Keeps
  BY <1>5, ClientSendsIInv
<1>6. ASSUME NEW fd \in Fds, ClientCloses(fd) PROVE IInv' /\ Keeps
  BY <1>6, ClientClosesIInv
<1>7. CASE driver_core_deinit
  BY <1>7, DeinitIInv
<1>8. CASE UNCHANGED vars
  BY <1>8 DEF IInv, Shape, ClientOf, Keeps, vars, server, client
<1>9. QED
  BY <1>1, <1>2, <1>3, <1>4, <1>5, <1>6, <1>7, <1>8 DEF Next

\* Of every client, at any time: the driver has handled the first commands it sent, in
\* order and with the arguments sent, has answered them, and its counters say where in
\* the next command the reader waits (reader, receive_arguments, writer, driver-core.c).
THEOREM Invariance == Spec => []IInv
BY InitIInv, NextIInv, PTL DEF Spec

\* OneTaskEach: no connection of a driver is stuck without a job or has two at
\* once (data_may_be_sent, data_may_be_read), and a descriptor that accept
\* returns again finds no state of its last connection (close_connection).
THEOREM TasksSafe == Spec => []OneTaskEach
<1>1. IInv => OneTaskEach
  <2> SUFFICES ASSUME IInv PROVE OneTaskEach
    OBVIOUS
  <2>1. ASSUME NEW fd \in Fds
        PROVE  conn[fd].jobs \in IF fd \in connections THEN {{"READ"}, {"WRITE"}} ELSE {{}}
    <3>1. Client(fd \in connections, peer[fd], conn[fd], script[fd],
                 unsent[fd], inbox[fd], got[fd], calls[fd])
      BY DEF IInv, ClientOf
    <3>2. CASE fd \in connections
      BY <3>1, <3>2 DEF Client, Session, Writing, Reading
    <3>3. CASE fd \notin connections
      BY <3>3, <3>1, SMT DEF NoConnection, Client, Idle
    <3>4. QED
      BY <3>2, <3>3
  <2>2. QED
    BY <2>1 DEF OneTaskEach, IInv, Shape
<1>2. QED
  BY <1>1, Invariance, PTL

\* A connection's counters never leave its buffers: what was read ends at offset +
\* currently_read and within the size asked for, no more is written than there is, and no
\* more arguments are counted than were announced (data_may_be_read, data_may_be_sent).
THEOREM BuffersStayFit == Spec => []BuffersFit
<1>1. IInv => BuffersFit
  <2> SUFFICES ASSUME IInv PROVE BuffersFit
    OBVIOUS
  <2>1. Shape
    BY DEF IInv
  <2>2. ASSUME NEW fd \in Fds
        PROVE  /\ peer[fd] \in {"none", "open", "closed"}
               /\ conn[fd].jobs \subseteq {"READ", "WRITE"}
               /\ Len(conn[fd].data) = conn[fd].offset + conn[fd].currently_read
               /\ Len(conn[fd].data) <= conn[fd].user_size
               /\ conn[fd].currently_wrote \in 0 .. Len(conn[fd].out)
               /\ conn[fd].args_received \in 0 .. conn[fd].argc
    <3> DEFINE c == conn[fd]
    <3>1. Client(fd \in connections, peer[fd], c, script[fd],
                 unsent[fd], inbox[fd], got[fd], calls[fd])
      BY DEF IInv, ClientOf
    <3>2. peer[fd] \in {"none", "open", "closed"}
      BY <3>1 DEF Client
    <3>3. CASE fd \in connections
      <4>1. Session(c, script[fd], unsent[fd], inbox[fd], got[fd], calls[fd])
        BY <3>1, <3>3 DEF Client
      <4> HIDE DEF c
      <4>2. Fit(c) /\ c.currently_wrote \in 0 .. Len(c.out) /\ c.jobs \subseteq {"READ", "WRITE"}
        BY <4>1 DEF Session, Writing, Reading
      <4>3. QED
        BY <3>2, <4>2 DEF Fit, c
    <3>4. CASE fd \notin connections
      <4>1. c = NoConnection
        BY <3>1, <3>4 DEF Client, Idle
      <4>2. QED
        BY <3>2, <4>1, SMT DEF NoConnection
    <3>5. QED
      BY <3>3, <3>4
  <2>3. peer \in [Fds -> {"none", "open", "closed"}]
    BY <2>1, <2>2 DEF Shape
  <2>4. QED
    BY <2>1, <2>2, <2>3 DEF BuffersFit, Shape
<1>2. QED
  BY <1>1, Invariance, PTL

\* What a client has got is the beginning of the greeting and the answers to its
\* commands, in the order of the commands, whatever the pieces the bytes came in.
THEOREM AnswersStayInOrder == Spec => []AnswersInOrder
<1>1. IInv => AnswersInOrder
  <2> SUFFICES ASSUME IInv, NEW fd \in Fds
               PROVE  /\ Len(got[fd]) <= Len(Answers(fd))
                      /\ got[fd] = SubSeq(Answers(fd), 1, Len(got[fd]))
    BY DEF AnswersInOrder
  <2>1. Client(fd \in connections, peer[fd], conn[fd], script[fd],
               unsent[fd], inbox[fd], got[fd], calls[fd])
    BY DEF IInv, ClientOf
  <2>2. Answers(fd) = All(script[fd])
    BY DEF Answers, All, Replies
  <2>3. Part(got[fd], Pieces, All(script[fd]), 0)
    <3>1. CASE fd \in connections
      BY <2>1, <3>1 DEF Client, Session
    <3>2. CASE fd \notin connections
      <4>1. got[fd] = <<>> /\ script[fd] \in Seq(Commands)
        BY <2>1, <3>2 DEF Client, Idle, GoodScript
      <4>2. Len(All(script[fd])) \in Nat
        BY <4>1, Answering DEF AllIs
      <4>3. QED
        BY <4>1, <4>2, PartEmpty, SMT
    <3>3. QED
      BY <3>1, <3>2
  <2>4. QED
    BY <2>2, <2>3, PartPrefix
<1>2. QED
  BY <1>1, Invariance, PTL

\* The handlers are called for the commands a client sent, in order, each with the
\* number of arguments sent, and with the argument sent when there is one.
THEOREM CallsStayAsSent == Spec => []CallsAsSent
<1>1. IInv => CallsAsSent
  <2> SUFFICES ASSUME IInv, NEW fd \in Fds
               PROVE  /\ Len(calls[fd]) <= Len(script[fd])
                      /\ \A i \in DOMAIN calls[fd] : CallIs(calls[fd][i], script[fd][i])
    BY DEF CallsAsSent, CallIs
  <2>1. Client(fd \in connections, peer[fd], conn[fd], script[fd],
               unsent[fd], inbox[fd], got[fd], calls[fd])
    BY DEF IInv, ClientOf
  <2>2. CASE fd \in connections
    <3> DEFINE cl == calls[fd]
               s == script[fd]
    <3>1. CallsOf(cl, s)
      BY <2>1, <2>2 DEF Client, Session
    <3> HIDE DEF cl, s
    <3>2. PICK S : cl \in Seq(S)
      BY <3>1 DEF CallsOf
    <3>3. DOMAIN cl = 1 .. Len(cl)
      BY <3>2, LenProperties
    <3>4. QED
      BY <3>1, <3>3 DEF CallsOf, cl, s
  <2>3. CASE fd \notin connections
    <3>1. calls[fd] = <<>> /\ script[fd] \in Seq(Commands)
      BY <2>1, <2>3 DEF Client, Idle, GoodScript
    <3>2. Len(script[fd]) \in Nat /\ Len(calls[fd]) = 0 /\ DOMAIN calls[fd] = {}
      BY <3>1, LenProperties, SMT
    <3>3. QED
      BY <3>2, SMT
  <2>4. QED
    BY <2>2, <2>3
<1>2. QED
  BY <1>1, Invariance, PTL

\* While the driver runs, a connection is closed only after its client has closed its end.
THEOREM ClientsKept == Spec => KeepsClients
<1>1. IInv /\ [Next]_vars => [Keeps]_vars
  BY NextIInv
<1>2. QED
  BY <1>1, Invariance, PTL DEF Spec, KeepsClients, Keeps

=============================================================================
