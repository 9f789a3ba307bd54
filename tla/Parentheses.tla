---------------------------- MODULE Parentheses ----------------------------
(***************************************************************************)
(* cqg: the program that reports for each line of its input whether the    *)
(* parentheses in it are balanced.  Lines may be longer than the memory    *)
(* one wants to spend, so they are read in blocks (Input.cpp, Buffer.cpp)  *)
(* and checked in parts (ParenthesisChecker.cpp); main.cpp brings the two  *)
(* together.  read returns any part of what is left, nothing at the end,   *)
(* or fails.                                                               *)
(***************************************************************************)
EXTENDS Integers, Sequences, FiniteSetsExt

CONSTANTS
    Texts,          \* the inputs, sequences of characters
    maxBufferSize   \* PIPE_BUF

ASSUME ParenthesesAssumption ==
    /\ maxBufferSize \in Nat \ {0}
    /\ \A t \in Texts : t \in Seq(STRING)

Opening == "("
Closing == ")"
Delim   == "nl"

VARIABLES
    text,           \* the whole input
    unread,         \* the part of it no read has returned
    errno,          \* the last read has failed
    buffer,         \* the characters of the block, _buffer.size() of them
    prevNewline,    \* _prevNewline, as an offset into the buffer
    line,           \* *line and *len: a sequence of characters, in a singleton; {} for NULL
    newLineFound,   \* what readAndDetectNewline returned last
    checker,        \* the checker: its state and its context
    lineCounter,
    allOk,
    out,            \* what printStatus has reported
    pc,             \* where main is
    status          \* the exit code, as a singleton

input == <<unread, errno, buffer, prevNewline, line, newLineFound>>
verdict == <<checker, lineCounter, allOk, out>>
vars == <<text, input, verdict, pc, status>>

-----------------------------------------------------------------------------
(* ParenthesisChecker.                                                     *)

Fresh == [state |-> "wait_for_open", openIndex |-> 0, position |-> 0, valid |-> TRUE]

\* Faulty variant: positions are counted on from line to line.
reset_keeps_position(c) == [Fresh EXCEPT !.position = c.position]

reset(c) == Fresh

validateWaitForOpen(c, chr) ==
    CASE chr = Opening -> [c EXCEPT !.openIndex = @ + 1, !.state = "wait_for_any"]
      [] chr = Closing -> [c EXCEPT !.valid = FALSE]
      [] OTHER         -> c

validateWaitForAny(c, chr) ==
    CASE chr = Opening -> [c EXCEPT !.openIndex = @ + 1]
      [] chr = Closing -> [c EXCEPT !.openIndex = @ - 1,
                                    !.state = IF c.openIndex = 1 THEN "wait_for_open" ELSE @]
      [] OTHER         -> c

\* One character; after a failure the rest of the part is not looked at.
validateNext(c, chr) ==
    IF ~ c.valid THEN c
    ELSE LET d == IF c.state = "wait_for_open" THEN validateWaitForOpen(c, chr)
                                               ELSE validateWaitForAny(c, chr)
         IN  [d EXCEPT !.position = @ + 1]

validate(c, chars) ==
    LET after[n \in Nat] == IF n = 0 THEN c ELSE validateNext(after[n - 1], chars[n])
    IN  after[Len(chars)]

done(c) == c.openIndex = 0

-----------------------------------------------------------------------------
(* Input.                                                                  *)

NULL == {}

\* Where chr is first found, or 0.
memchr(chars, chr) ==
    LET At == {i \in 1 .. Len(chars) : chars[i] = chr} IN IF At = {} THEN 0 ELSE Min(At)

\* The line goes on to the next delimiter of the block, or to its end.
detectNewline(block, from) ==
    LET rest == SubSeq(block, from + 1, Len(block))
        nl   == memchr(rest, Delim)
    IN  /\ buffer' = block
        /\ newLineFound' = (nl > 0)
        /\ line' = {IF nl > 0 THEN SubSeq(rest, 1, nl - 1) ELSE rest}
        /\ prevNewline' = IF nl > 0 THEN from + nl ELSE Len(block)

noLine == line' = NULL /\ newLineFound' = FALSE /\ UNCHANGED <<buffer, prevNewline>>

\* Another block, when the last one is used up.
readAnotherBlock ==
    \/ /\ unread # <<>>
       /\ \E n \in 1 .. Min({maxBufferSize, Len(unread)}) :
             /\ detectNewline(SubSeq(unread, 1, n), 0)
             /\ unread' = SubSeq(unread, n + 1, Len(unread))
       /\ errno' = FALSE
    \/ /\ unread = <<>>
       /\ noLine
       /\ errno' = FALSE
       /\ UNCHANGED unread
    \/ /\ noLine
       /\ errno' = TRUE
       /\ UNCHANGED unread

\* Faulty variant: a block that ends with a delimiter is not seen to be used up.
readPastTheEnd ==
    \/ /\ prevNewline <= Len(buffer)
       /\ detectNewline(buffer, prevNewline)
       /\ UNCHANGED <<unread, errno>>
    \/ /\ prevNewline > Len(buffer)
       /\ readAnotherBlock

readAndDetectNewline ==
    \/ /\ prevNewline < Len(buffer)
       /\ detectNewline(buffer, prevNewline)
       /\ UNCHANGED <<unread, errno>>
    \/ /\ prevNewline >= Len(buffer)
       /\ readAnotherBlock

-----------------------------------------------------------------------------
(* main.                                                                   *)

\* The buffer holds one character that is taken for read, and start gives main
\* none of it.
Init ==
    /\ text \in Texts
    /\ unread = text
    /\ errno = FALSE
    /\ buffer = <<"0">> /\ prevNewline = 1
    /\ line = {<<>>} /\ newLineFound = FALSE
    /\ checker = Fresh
    /\ lineCounter = 1
    /\ allOk = TRUE
    /\ out = <<>>
    /\ pc = "validate"
    /\ status = {}

printStatus(isValid, c) ==
    out' = Append(out, [line |-> lineCounter, ok |-> isValid,
                        position |-> IF isValid THEN 0 ELSE c.position,
                        lack |-> c.openIndex > 0])

\* Faulty variant: the verdict on a line replaces those on the lines before it.
Validate_forgetful ==
    /\ pc = "validate"
    /\ \E chars \in line : \E c \in {validate(checker, chars)} :
          \/ /\ ~ c.valid
             /\ printStatus(FALSE, c)
             /\ allOk' = FALSE
             /\ checker' = c
             /\ pc' = IF newLineFound THEN "skipped" ELSE "skip"
             /\ UNCHANGED lineCounter
          \/ /\ c.valid /\ newLineFound
             /\ printStatus(done(c), c)
             /\ allOk' = done(c)
             /\ checker' = reset(c)
             /\ lineCounter' = lineCounter + 1
             /\ pc' = "read"
          \/ /\ c.valid /\ ~ newLineFound
             /\ checker' = c
             /\ pc' = "read"
             /\ UNCHANGED <<lineCounter, allOk, out>>
    /\ UNCHANGED <<text, input, status>>

\* The part of a line is checked; a failure is reported at once, and otherwise
\* the line when it has ended.
Validate ==
    /\ pc = "validate"
    /\ \E chars \in line : \E c \in {validate(checker, chars)} :
          \/ /\ ~ c.valid
             /\ printStatus(FALSE, c)
             /\ allOk' = FALSE
             /\ checker' = c
             /\ pc' = IF newLineFound THEN "skipped" ELSE "skip"
             /\ UNCHANGED lineCounter
          \/ /\ c.valid /\ newLineFound
             /\ printStatus(done(c), c)
             /\ allOk' = (allOk /\ done(c))
             /\ checker' = reset(c)
             /\ lineCounter' = lineCounter + 1
             /\ pc' = "read"
          \/ /\ c.valid /\ ~ newLineFound
             /\ checker' = c
             /\ pc' = "read"
             /\ UNCHANGED <<lineCounter, allOk, out>>
    /\ UNCHANGED <<text, input, status>>

Continue == pc' = IF line' = NULL THEN "end" ELSE "validate"

Read ==
    /\ pc = "read"
    /\ readAndDetectNewline
    /\ Continue
    /\ UNCHANGED <<text, verdict, status>>

\* readUntilNewline: the rest of a line that failed is skipped ...
Skip ==
    /\ pc = "skip"
    /\ readAndDetectNewline
    /\ IF line' = NULL
       THEN /\ pc' = "end"
            /\ checker' = reset(checker)
            /\ lineCounter' = lineCounter + 1
       ELSE /\ pc' = IF newLineFound' THEN "skipped" ELSE "skip"
            /\ UNCHANGED <<checker, lineCounter>>
    /\ UNCHANGED <<text, allOk, out, status>>

\* ... and the next one begun.
Skipped ==
    /\ pc = "skipped"
    /\ readAndDetectNewline
    /\ Continue
    /\ checker' = reset(checker)
    /\ lineCounter' = lineCounter + 1
    /\ UNCHANGED <<text, allOk, out, status>>

RET_OK           == 0
RET_READ_FAILURE == 1
RET_NOT_ALL_OK   == 2

Exit ==
    /\ pc = "end"
    /\ pc' = "exited"
    /\ status' = {IF errno THEN RET_READ_FAILURE ELSE IF allOk THEN RET_OK ELSE RET_NOT_ALL_OK}
    /\ UNCHANGED <<text, input, verdict>>

Next == Validate \/ Read \/ Skip \/ Skipped \/ Exit

Spec == Init /\ [][Next]_vars

\* The program runs on, and its input comes or ends.
FairSpec == Spec /\ WF_vars(Next)

-----------------------------------------------------------------------------
(* Properties.  The reference is what cqg/test/creator.c expects of a line *)
(* that it has as a whole.                                                 *)

Opened(chars, n) ==
    LET among(chr) == Cardinality({i \in 1 .. n : chars[i] = chr})
    IN  among(Opening) - among(Closing)

Superfluous(chars) == {i \in DOMAIN chars : Opened(chars, i) < 0}

Expected(n, chars) ==
    CASE Superfluous(chars) # {} ->
            [line |-> n, ok |-> FALSE, position |-> Min(Superfluous(chars)), lack |-> FALSE]
      [] Superfluous(chars) = {} /\ Opened(chars, Len(chars)) = 0 ->
            [line |-> n, ok |-> TRUE, position |-> 0, lack |-> FALSE]
      [] Superfluous(chars) = {} /\ Opened(chars, Len(chars)) > 0 ->
            [line |-> n, ok |-> FALSE, position |-> Len(chars), lack |-> TRUE]

\* Where the line that begins after the first i characters of t ends: at a
\* delimiter, or beyond the end of t.
NextEnd(t, i) ==
    LET Delims == {e \in i + 1 .. Len(t) : t[e] = Delim}
    IN  IF Delims = {} THEN Len(t) + 1 ELSE Min(Delims)

\* The lines of a text, and where they end.
Ends(t) == LET end[n \in Nat] == IF n = 0 THEN 0 ELSE NextEnd(t, end[n - 1]) IN end
Line(t, n) == SubSeq(t, Ends(t)[n - 1] + 1, Ends(t)[n] - 1)

\* There is an n-th line to report.  Of what follows the last delimiter only a
\* superfluous parenthesis is reported.
Reportable(t, n) ==
    \/ Ends(t)[n] <= Len(t)
    \/ Ends(t)[n - 1] <= Len(t) /\ Superfluous(Line(t, n)) # {}

\* Every line is reported once, in order, with the verdict and the position the
\* test expects (creator.c), however read cuts the text into blocks: lines that
\* go over several blocks, blocks with several lines, delimiters at either edge
\* of a block and lines skipped after a failure.
Reported ==
    \A n \in DOMAIN out : Reportable(text, n) /\ out[n] = Expected(n, Line(text, n))

\* The exit code tells why the program ended and whether all was well (main): a
\* read failure, or the end of the text with nothing left to report, and then
\* RET_OK just when nothing was wrong.
ExitTells ==
    pc = "exited" =>
        \/ errno /\ status = {RET_READ_FAILURE}
        \/ /\ ~ errno
           /\ ~ Reportable(text, Len(out) + 1)
           /\ status = {IF \A i \in DOMAIN out : out[i].ok THEN RET_OK ELSE RET_NOT_ALL_OK}

\* The program ends: at the end of its input no block is read again and again.
Terminates == <>(pc = "exited")
=============================================================================
