----------------------------- MODULE LineInput -----------------------------
(***************************************************************************)
(* How bytes become lines (src/src/servapp.h, LineRecvQ in coreinstance.h): *)
(* a peer - a TCP client, an HTTP client or a core - writes characters, the *)
(* server is told which descriptors are readable and takes what has arrived *)
(* up to the size of its buffer, wherever that cuts a line.  The lines of   *)
(* an HTTP client are gathered into requests (HTTPRequest).                 *)
(***************************************************************************)
EXTENDS HTTPRequest

CONSTANTS
    Programs,       \* the cases: who the peer is, what it writes, what an HTTP client means, which loop reads
    Capacity,       \* bound: characters a pipe or socket holds
    BufSize         \* the server's buffer

Channels == {"in", "stdout", "stderr"}  \* a client's socket; a core's two pipes
NoLine == <<>>

ASSUME BoundsAssumption == Capacity \in Nat \ {0} /\ BufSize \in Nat \ {0, 1}
ASSUME ProgramsAssumption ==
    \A p \in Programs : /\ p.peer \in {"TCP", "HTTP", "core"}
                        /\ \A i \in DOMAIN p.writes :
                              p.writes[i].channel \in IF p.peer = "core" THEN {"stdout", "stderr"} ELSE {"in"}

VARIABLES
    program,        \* the case at hand
    written,        \* how many of the characters of the program the peer has written
    pipe,           \* channel -> what is on its way
    closed,         \* the peer has closed its end, or exited
    ready,          \* the channels select or libevent reported
    linebuf,        \* channel -> the incomplete line (linebuf; readbuf of stderrQ)
    lines,          \* channel -> the lines that were handed on, all of them
    request,        \* HTTP: the lines of a request so far
    handled,        \* HTTP: the outcomes of the requests so far
    removed,        \* the server has removed the session or core
    failed          \* a read failed, the connection is gone

peerVars == <<program, written, closed>>
vars == <<peerVars, pipe, ready, linebuf, lines, request, handled, removed, failed>>

-----------------------------------------------------------------------------
(* The peer. *)

Full(channel) == Len(pipe[channel]) = Capacity

PeerWrites ==
    /\ written < Len(program.writes) /\ ~closed
    /\ LET w == program.writes[written + 1]
       IN /\ ~Full(w.channel)
          /\ pipe' = [pipe EXCEPT ![w.channel] = Append(@, w.char)]
    /\ written' = written + 1
    /\ UNCHANGED <<program, closed, ready, linebuf, lines, request, handled, removed, failed>>

\* Once it has written all, or at any moment.
PeerCloses ==
    /\ ~closed
    /\ closed' = TRUE
    /\ UNCHANGED <<program, written, pipe, ready, linebuf, lines, request, handled,
                   removed, failed>>

-----------------------------------------------------------------------------
(* The main loops. *)

Watched == IF program.peer = "core" THEN {"stdout", "stderr"} ELSE {"in"}

\* Mutant: stderr is forgotten.
ReadableStdout == {c \in Watched \ {"stderr"} : pipe[c] # <<>> \/ closed}

Readable == {c \in Watched : pipe[c] # <<>> \/ closed}

Select ==
    /\ ~removed /\ ready = {} /\ Readable # {}
    /\ ready' = Readable
    /\ UNCHANGED <<peerVars, pipe, linebuf, lines, request, handled, removed, failed>>

\* What recv or read returns.
Received(channel, size) == SubSeq(pipe[channel], 1, IF Len(pipe[channel]) < size THEN Len(pipe[channel]) ELSE size)

\* The characters one by one: a newline completes the line, DOS's CR is skipped.
\* acc: the line being assembled and the lines completed.
AddChar(acc, c) ==
    IF c = LF THEN [buf |-> NoLine, lines |-> Append(acc.lines, Append(acc.buf, LF))]
    ELSE IF c = CR THEN acc
    ELSE [acc EXCEPT !.buf = Append(@, c)]

\* LineRecvQ keeps the CR.
AddStderrChar(acc, c) ==
    IF c = LF THEN [buf |-> NoLine, lines |-> Append(acc.lines, Append(acc.buf, LF))]
    ELSE [acc EXCEPT !.buf = Append(@, c)]

\* Mutant: every read starts a line.
AssembleAfresh(channel, chars) ==
    IF channel = "stderr" THEN FoldLeft(AddStderrChar, [buf |-> NoLine, lines |-> <<>>], chars)
    ELSE FoldLeft(AddChar, [buf |-> NoLine, lines |-> <<>>], chars)

Assemble(channel, chars) ==
    IF channel = "stderr" THEN FoldLeft(AddStderrChar, [buf |-> linebuf[channel], lines |-> <<>>], chars)
    ELSE FoldLeft(AddChar, [buf |-> linebuf[channel], lines |-> <<>>], chars)

\* lineFromHTTPClient, as far as the request is concerned.
AddRequestLine(acc, line) ==
    IF line # <<LF>> THEN [acc EXCEPT !.request = Append(@, line)]
    ELSE [request |-> <<>>, handled |-> Append(acc.handled, HandleRequest[Append(acc.request, line)])]

HandOn(channel, new) ==
    /\ lines' = [lines EXCEPT ![channel] = @ \o new]
    /\ IF program.peer = "HTTP"
       THEN \E http \in {FoldLeft(AddRequestLine, [request |-> request, handled |-> handled], new)} :
                request' = http.request /\ handled' = http.handled
       ELSE UNCHANGED <<request, handled>>

Read(channel, received, chars) ==
    /\ received # <<>>
    /\ pipe' = [pipe EXCEPT ![channel] = SubSeq(@, Len(received) + 1, Len(@))]
    /\ \E result \in {Assemble(channel, chars)} :
          /\ linebuf' = [linebuf EXCEPT ![channel] = result.buf]
          /\ HandOn(channel, result.lines)
    /\ UNCHANGED <<removed, failed>>

\* Mutant: the object goes when the peer has closed, not at the end of the file.
EndOfFileClosed(channel) ==
    /\ closed
    /\ removed' = TRUE
    /\ UNCHANGED <<pipe, linebuf, lines, request, handled, failed>>

\* recv or read returns 0; what was left of a line is dropped with the object.
EndOfFile(channel) ==
    /\ pipe[channel] = <<>>
    /\ removed' = TRUE
    /\ UNCHANGED <<pipe, linebuf, lines, request, handled, failed>>

\* recv fails because the connection was reset.
ReadFails(channel) ==
    /\ channel = "in" /\ closed
    /\ removed' = TRUE /\ failed' = TRUE
    /\ pipe' = [pipe EXCEPT ![channel] = <<>>]
    /\ UNCHANGED <<linebuf, lines, request, handled>>

\* A core's stderr waits for the next turn of the select loop.
HandleInput ==
    /\ \E channel \in ready \ {"stderr"} :
          /\ \/ Read(channel, Received(channel, BufSize), Received(channel, BufSize))
             \/ EndOfFile(channel)
             \/ ReadFails(channel)
          /\ ready' = IF program.useLibevent /\ ~removed' THEN ready \ {channel} ELSE {}
    /\ UNCHANGED peerVars

\* nextLines takes the buffer for a C string: it ends at a NUL.
UpToNul(chars) ==
    LET nuls == {i \in DOMAIN chars : chars[i] = NUL}
    IN IF nuls = {} THEN chars ELSE SubSeq(chars, 1, Min(nuls) - 1)

\* A core's stderr: under select if its stdout is not ready in the same turn,
\* under libevent in any order with it.  At the end of the file nothing happens.
HandleStderr ==
    /\ "stderr" \in ready /\ (program.useLibevent \/ ready = {"stderr"})
    /\ LET received == Received("stderr", BufSize - 1)
       IN \/ Read("stderr", received, UpToNul(received))
          \/ received = <<>> /\ UNCHANGED <<pipe, linebuf, lines, request, handled, removed, failed>>
    /\ ready' = ready \ {"stderr"}
    /\ UNCHANGED peerVars

-----------------------------------------------------------------------------
Init ==
    /\ program \in Programs
    /\ written = 0 /\ closed = FALSE
    /\ pipe = [c \in Channels |-> <<>>]
    /\ ready = {}
    /\ linebuf = [c \in Channels |-> NoLine]
    /\ lines = [c \in Channels |-> <<>>]
    /\ request = <<>> /\ handled = <<>>
    /\ removed = FALSE /\ failed = FALSE

ServerStep == Select \/ HandleInput \/ HandleStderr

Next == PeerWrites \/ PeerCloses \/ ServerStep

Spec == Init /\ [][Next]_vars

\* The loops never stop; nothing is promised of the peer.
FairSpec == Spec /\ WF_vars(ServerStep)

-----------------------------------------------------------------------------
(* Every variable has its type; only an HTTP client makes requests, and a   *)
(* channel the peer does not have stays empty.                              *)
TypeOK ==
    /\ written \in 0..Len(program.writes)
    /\ \A c \in Channels : pipe[c] \in Text /\ Len(pipe[c]) <= Capacity
    /\ linebuf \in [Channels -> Text] /\ lines \in [Channels -> Seq(Text)]
    /\ request \in Seq(Text) /\ {closed, removed, failed} \subseteq BOOLEAN
    /\ ready \subseteq Watched
    /\ program.peer # "HTTP" => request = <<>> /\ handled = <<>>

-----------------------------------------------------------------------------
(* What the peer wrote and what a reader should make of it.                 *)

WrittenTo(channel) ==
    LET all == SelectSeq(SubSeq(program.writes, 1, written), LAMBDA w : w.channel = channel)
    IN [i \in DOMAIN all |-> all[i].char]

Consumed(channel) == SubSeq(WrittenTo(channel), 1, Len(WrittenTo(channel)) - Len(pipe[channel]))

LineEnds(text) == SetToSortSeq({i \in DOMAIN text : text[i] = LF}, <)

\* The lines of a text and the rest after the last, as pieces between newlines.
Pieces[text \in Text] ==
    LET ends == <<0>> \o LineEnds(text) \o <<Len(text)>>
    IN [k \in 1..Len(ends) - 1 |-> SubSeq(text, ends[k] + 1, ends[k + 1])]

Meaning(channel, text) ==
    IF channel = "stderr" THEN text ELSE SelectSeq(text, LAMBDA c : c # CR)

(* Wherever the reads cut the stream, and however the two outputs of a core *)
(* interleave, the server sees the lines the peer wrote: none is split,     *)
(* joined, repeated or skipped, and linebuf holds the part of the next line *)
(* (a NUL on stderr excepted, after which the rest of a read is dropped).   *)
LinesAsWritten ==
    /\ TypeOK
    /\ failed \/ \A c \in Watched :
           LET text == Consumed(c)
               all  == Pieces[text]
           IN \/ c = "stderr" /\ Contains(text, NUL)
              \/ /\ lines[c] = [k \in 1..Len(all) - 1 |-> Meaning(c, all[k])]
                 /\ linebuf[c] = Meaning(c, Last(all))

(* HTTP requests are understood as they were meant: what a client encoded   *)
(* into a request line comes out as that command for that core, in order, a *)
(* malformed request is refused for its first fault, and nothing is done    *)
(* before the blank line that ends the request (lineFromHTTPClient).        *)
UnderstoodAsMeant ==
    program.peer = "HTTP" =>
        /\ IsPrefix(handled, program.meant)
        /\ Len(handled) = Len(SelectSeq(lines["in"], LAMBDA line : line = <<LF>>))

-----------------------------------------------------------------------------
(* Every complete line that was written is handed on, although the peer may *)
(* have closed right after writing it: end of file is read after the data.  *)
(* A reset connection is the exception, and a core's stderr.                *)
AllLinesRead ==
    (closed \/ written = Len(program.writes))
        ~> (failed \/ \A c \in Watched \ {"stderr"} : Len(lines[c]) = Len(LineEnds(WrittenTo(c))))

(* A core that is blocked on a full stderr pipe gets on: the loop reads its *)
(* stderr when its stdout is silent, which it is while the core is blocked. *)
StderrDrained == Full("stderr") ~> (~Full("stderr") \/ removed)
=============================================================================
