---------------------------- MODULE CoreInstance ----------------------------
(***************************************************************************)
(* One GraphCore process as graphserv sees it (src/src/coreinstance.h): the *)
(* server-side command queue and reply parser of a CoreInstance object, the *)
(* two pipes, and the process at their far end.  The module has no          *)
(* variables: a core is a record, every method of the class an operator on  *)
(* such records, so that the one-core specification (CoreService) and the   *)
(* whole server (Graphserv) run the same definitions.                       *)
(***************************************************************************)
EXTENDS Naturals, Sequences

CONSTANT NoClient   \* the client ID 0 of a core that has run no command yet

-----------------------------------------------------------------------------
(* CommandQEntry: who sent the command, its number in that client's input,  *)
(* its first word, and the state of the data set that may follow it.        *)

NewCommand(client, tag, word, colon) ==
    [clientID |-> client, tag |-> tag, word |-> word,
     acceptsData |-> colon, dataFinished |-> ~colon, dataset |-> <<>>]

Flushable(ce) == ~ce.acceptsData \/ ce.dataFinished

\* A line of the data set, known by its number in the client's input.
AppendToDataset(ce, n, blank) ==
    IF Flushable(ce)
    THEN ce
    ELSE [ce EXCEPT !.dataset = Append(@, n), !.dataFinished = blank]

-----------------------------------------------------------------------------
(* A line of core output: what the server can see of it (colon: it ends in  *)
(* a colon, blank: it has no words) and what it really is (the command it    *)
(* answers, and whether it is that reply's status line).                     *)

StatusLine(ce, colon) == [cmd |-> ce, part |-> "status", colon |-> colon, blank |-> FALSE]
DataLine(ce, blank)   == [cmd |-> ce, part |-> "data",   colon |-> FALSE, blank |-> blank]

-----------------------------------------------------------------------------
(* The object and its process.  toCore holds the commands written to the    *)
(* process and not yet answered in full: the process works on its head.     *)

StartCore(name) ==
    [name |-> name, commandQ |-> <<>>, lastClientID |-> NoClient,
     expectingReply |-> FALSE, expectingDataset |-> FALSE, processRunning |-> TRUE,
     killed |-> FALSE, toCore |-> <<>>, fromCore |-> <<>>, process |-> "ready"]

Busy(c) == c.expectingReply \/ c.expectingDataset

HasQueued(c, client) == \E i \in 1..Len(c.commandQ) : c.commandQ[i].clientID = client

HasDataForClient(c, client) ==
    (c.lastClientID = client /\ Busy(c)) \/ HasQueued(c, client)

\* Mutant: a queue that is served last come first.
QueueCommandFront(c, ce) == [c EXCEPT !.commandQ = <<ce>> \o @]

QueueCommand(c, ce) == [c EXCEPT !.commandQ = Append(@, ce)]

WriteFirst(c) ==
    [c EXCEPT !.toCore = Append(@, Head(c.commandQ)),
              !.lastClientID = Head(c.commandQ).clientID,
              !.expectingReply = TRUE,
              !.expectingDataset = FALSE,
              !.commandQ = Tail(@)]

\* Mutants: written while a data set is still being sent back; the client to
\* whom the output goes is not noted.
FlushDuringDataset(c) ==
    IF c.commandQ # <<>> /\ ~c.expectingReply /\ Flushable(Head(c.commandQ))
    THEN WriteFirst(c) ELSE c
FlushKeepsClient(c) ==
    IF c.commandQ # <<>> /\ ~Busy(c) /\ Flushable(Head(c.commandQ))
    THEN [WriteFirst(c) EXCEPT !.lastClientID = IF c.lastClientID = NoClient THEN @ ELSE c.lastClientID]
    ELSE c

\* The loop of the code runs at most once: writing a command makes the core
\* expect a reply, which ends it.
FlushCommandQ(c) ==
    IF c.commandQ # <<>> /\ ~Busy(c) /\ Flushable(Head(c.commandQ))
    THEN WriteFirst(c)
    ELSE c

\* Where lineFromCore forwards the next line: as a status line, as part of a
\* data set, or nowhere ("a core sent data we didn't ask for").
ForwardAs(c) ==
    IF c.expectingReply THEN "status" ELSE IF c.expectingDataset THEN "data" ELSE "none"

\* Mutant: any line of a data set is taken for its end.
LineEndsDataset(c) ==
    [c EXCEPT !.fromCore = Tail(@), !.expectingReply = FALSE,
              !.expectingDataset = c.expectingReply /\ Head(c.fromCore).colon]

LineFromCore(c) ==
    LET line == Head(c.fromCore)
    IN [c EXCEPT !.fromCore = Tail(@),
                 !.expectingReply = FALSE,
                 !.expectingDataset =
                     IF c.expectingReply THEN @ \/ line.colon ELSE @ /\ ~line.blank]

-----------------------------------------------------------------------------
(* Steps of the process: it answers its commands in order, each with a      *)
(* status line and, if that ended in a colon, data lines up to a blank one. *)
(* It exits once it has answered a shutdown command.                        *)

FinishCommand(c) ==
    [c EXCEPT !.toCore = Tail(@),
              !.process = IF Head(c.toCore).word = "shutdown" THEN "exited" ELSE "ready"]

CanAnswer(c) == c.process = "ready" /\ c.toCore # <<>>

Answer(c, colon) ==
    LET said == [c EXCEPT !.fromCore = Append(@, StatusLine(Head(c.toCore), colon))]
    IN IF colon THEN [said EXCEPT !.process = "replying"] ELSE FinishCommand(said)

CanContinue(c) == c.process = "replying"

Continue(c, blank) ==
    LET said == [c EXCEPT !.fromCore = Append(@, DataLine(Head(c.toCore), blank))]
    IN IF blank THEN FinishCommand(said) ELSE said

\* A crash, an exit of its own, or a SIGTERM taking effect.
Exit(c) == [c EXCEPT !.process = "exited"]

\* read() returns 0: the process is gone and all it wrote has been consumed.
AtEOF(c) == c.process = "exited" /\ c.fromCore = <<>>

\* ccShutdown: from now on the server does not count the core as running.
NotRunning(c) == [c EXCEPT !.processRunning = FALSE]

\* terminate(): the signal is sent, the process may go on for a while.
Terminate(c) == [c EXCEPT !.processRunning = FALSE, !.killed = TRUE]

-----------------------------------------------------------------------------
(* What the pipes of a core may hold between two steps: every line on its   *)
(* way and the command at the core's end belong to the one command out, the *)
(* pipe starts with the status line exactly while one is expected, and the  *)
(* line that ends the reply is the last one and leaves the core no command. *)

Ends(line) == IF line.part = "status" THEN ~line.colon ELSE line.blank

OneReply(c) ==
    /\ ~(c.expectingReply /\ c.expectingDataset)
    /\ ~Busy(c) => c.toCore = <<>> /\ c.fromCore = <<>>
    /\ Len(c.toCore) <= 1
    /\ c.process = "replying" => c.toCore # <<>>
    /\ c.process = "replying" /\ c.expectingReply => c.fromCore # <<>>
    /\ c.process = "ready" /\ c.toCore # <<>> => c.expectingReply /\ c.fromCore = <<>>
    /\ Busy(c) /\ c.toCore = <<>> => c.fromCore # <<>> /\ Ends(c.fromCore[Len(c.fromCore)])

PipeLines(c) ==
    /\ \A i \in 1..Len(c.toCore) : c.toCore[i].clientID = c.lastClientID
    /\ \A i \in 1..Len(c.fromCore) :
           /\ c.fromCore[i].cmd.clientID = c.lastClientID
           /\ c.fromCore[i].part = "status" <=> i = 1 /\ c.expectingReply
           /\ Ends(c.fromCore[i]) => i = Len(c.fromCore) /\ c.toCore = <<>>
           /\ c.fromCore[i].cmd = c.fromCore[1].cmd
           /\ c.toCore # <<>> => c.fromCore[i].cmd = c.toCore[1]

OutputLines(commands) ==
    [cmd : commands, part : {"status", "data"}, colon : BOOLEAN, blank : BOOLEAN]

CoreRecords(names, clients, commands) ==
    [name : names, commandQ : Seq(commands), lastClientID : clients \union {NoClient},
     expectingReply : BOOLEAN, expectingDataset : BOOLEAN, processRunning : BOOLEAN,
     killed : BOOLEAN, toCore : Seq(commands), fromCore : Seq(OutputLines(commands)),
     process : {"ready", "replying", "exited"}]

\* The command being answered, wherever its reply has got to.
Outstanding(c) ==
    IF ~Busy(c) THEN <<>>
    ELSE IF c.fromCore # <<>> THEN <<c.fromCore[1].cmd>> ELSE <<c.toCore[1]>>

\* The commands whose replies are due, in the order of the replies.
RepliesDue(c) == Outstanding(c) \o c.commandQ
=============================================================================
