----------------------------- MODULE Graphserv -----------------------------
(***************************************************************************)
(* The server: TCP and HTTP sessions, the cores they share, the server      *)
(* commands and the two main loops (src/src/servapp.h, main.cpp,            *)
(* session.h).  A step handles one line of input, as the loops do, and the  *)
(* loops decide the order; clients and core processes move in between.      *)
(***************************************************************************)
EXTENDS CoreInstance, Integers, FiniteSets, Functions

CONSTANTS
    SessionIDs,         \* bound: 1..n, the IDs acceptConnection can hand out
    MaxCores,           \* bound: cores ever created; too few for the clients' lines stop the server
    MaxLines,           \* bound: lines (HTTP: requests) each session's client sends
    PipeCapacity,       \* bound: lines in a core's stdout pipe
    Lines,              \* the lines each session's client may send over TCP
    Requests,           \* the requests each session's client may send over HTTP
    CoreCommandInfos,   \* core command -> access level (the core's table)
    UseLibevent,        \* which main loop
    ConnectionTypes,    \* which of CONN_TCP, CONN_HTTP connect
    CoresMayFail        \* cores may fail to start, or exit on their own

NoArg == ""
BadArgs == "?"          \* too many or too few words, or an invalid graph name
NoCore == ""            \* an HTTP request that names no core
Blank == ""             \* the first word of a line that has none

AccessLevels == [read |-> 0, write |-> 1, admin |-> 2]

\* The words of a line as far as they matter; redir: it contains < or >.
Line(word, arg, colon, redir) ==
    [word |-> word, arg |-> arg, colon |-> colon, redir |-> redir, core |-> NoCore]

Request(core, word, arg) == [Line(word, arg, FALSE, FALSE) EXCEPT !.core = core]

CommandLine == [word : STRING, arg : STRING, colon : BOOLEAN, redir : BOOLEAN, core : STRING]

ASSUME SessionIDsAssumption == SessionIDs \subseteq Nat \ {0} /\ NoClient = 0
ASSUME BoundsAssumption ==
    /\ MaxLines \in [SessionIDs -> Nat] /\ MaxCores \in Nat /\ PipeCapacity \in Nat \ {0}
    /\ DOMAIN Lines = SessionIDs /\ DOMAIN Requests = SessionIDs
    /\ UseLibevent \in BOOLEAN /\ CoresMayFail \in BOOLEAN
    /\ ConnectionTypes \subseteq {"TCP", "HTTP"}
    /\ \A s \in SessionIDs : Lines[s] \union Requests[s] \subseteq CommandLine
ASSUME TableAssumption ==
    /\ {"help", "shutdown"} \subseteq DOMAIN CoreCommandInfos
    /\ \A w \in DOMAIN CoreCommandInfos : CoreCommandInfos[w] \in 0..2

VARIABLES
    sessionContexts,    \* session ID -> session, for the sessions that exist
    coreInstances,      \* core ID -> CoreInstance
    sessionIDCounter, coreIDCounter,
    clientsToRemove,    \* sessions to be removed at the top of the select loop
    statusMessage,      \* what ccShutdown's last failure left in its object
    inIteration,        \* the server is handling what select or libevent reported
    readyClients,       \* sessions still to be read in this iteration
    readyCores,         \* cores still to be read in this iteration
    coresToRemove,      \* cores whose end of file was read in this iteration
    drained,            \* the session whose lineQueue is being executed, or NoClient
    lines,              \* session ID -> every line its client has sent
    linesRead,          \* session ID -> how many of them the server has read
    closed              \* sessions whose client has closed the connection

serverVars == <<sessionContexts, coreInstances, coreIDCounter, clientsToRemove, statusMessage>>
loopVars == <<inIteration, readyClients, readyCores, coresToRemove, drained>>
clientVars == <<lines, linesRead, closed>>
vars == <<serverVars, loopVars, clientVars, sessionIDCounter>>

-----------------------------------------------------------------------------
(* Sessions. *)

NoCommand == NewCommand(NoClient, 0, Blank, FALSE)

NewSession(connectionType) ==
    [connectionType |-> connectionType, accessLevel |-> AccessLevels.read, coreID |-> 0,
     lineQueue |-> <<>>, curCommand |-> NoCommand, shutdown |-> FALSE,
     writeBufferEmpty |-> TRUE, conversationFinished |-> FALSE, commandsExecuted |-> 0,
     replies |-> <<>>]

\* What the client sees: which command of whose the status line answers.
ReplyTo(ce) == [clientID |-> ce.clientID, tag |-> ce.tag, dataset |-> ce.dataset]

\* Mutant: the counter of status lines compared after it was incremented.
ForwardStatuslineCounted(sc, ce, colon) ==
    [sc EXCEPT !.replies = Append(@, ReplyTo(ce)),
               !.writeBufferEmpty = FALSE,
               !.commandsExecuted = IF sc.connectionType = "HTTP" THEN @ + 1 ELSE @,
               !.conversationFinished =
                   @ \/ (sc.connectionType = "HTTP" /\ sc.commandsExecuted > 0 /\ ~colon)]

ForwardStatusline(sc, ce, colon) ==
    [sc EXCEPT !.replies = Append(@, ReplyTo(ce)),
               !.writeBufferEmpty = FALSE,
               !.commandsExecuted = IF sc.connectionType = "HTTP" THEN @ + 1 ELSE @,
               !.conversationFinished =
                   @ \/ (sc.connectionType = "HTTP" /\ sc.commandsExecuted = 0 /\ ~colon)]

ForwardDataset(sc, blank) ==
    [sc EXCEPT !.writeBufferEmpty = FALSE,
               !.conversationFinished = @ \/ (sc.connectionType = "HTTP" /\ blank)]

CommandNotFound(sc, ce) ==
    [sc EXCEPT !.replies = Append(@, ReplyTo(ce)),
               !.writeBufferEmpty = FALSE,
               !.conversationFinished = @ \/ sc.connectionType = "HTTP"]

FindInstance(id) == id \in DOMAIN coreInstances /\ coreInstances[id].processRunning

\* Mutant: the first instance of the name decides.
FindNamedInstanceFirst(name) ==
    {id \in DOMAIN coreInstances :
        /\ coreInstances[id].name = name /\ coreInstances[id].processRunning
        /\ \A x \in DOMAIN coreInstances : coreInstances[x].name = name => id <= x}

FindNamedInstance(name) ==
    {id \in DOMAIN coreInstances : coreInstances[id].name = name /\ coreInstances[id].processRunning}

FindClient(id) == id \in DOMAIN sessionContexts \ clientsToRemove

WaitingForCore(s, sc) ==
    FindInstance(sc.coreID) /\ HasDataForClient(coreInstances[sc.coreID], s)

IsWaitingForCoreReply(s, sc) == sc.curCommand # NoCommand \/ WaitingForCore(s, sc)

-----------------------------------------------------------------------------
(* Executing a command: sc is session s with the input already taken out    *)
(* of it, ce the command, line its words.  Each operator fixes the next     *)
(* values of serverVars.                                                    *)

Becomes(s, sc) == sessionContexts' = [sessionContexts EXCEPT ![s] = sc]

Answered(s, sc) ==
    Becomes(s, sc) /\ UNCHANGED <<coreInstances, coreIDCounter, clientsToRemove, statusMessage>>

\* A status line without a data set, and nothing else.
Status(s, sc, ce) == Answered(s, ForwardStatusline(sc, ce, FALSE))

\* The core command ce of session sc, given to its core: the access level needed.
LevelNeeded(ce, redir) == IF redir THEN AccessLevels.admin ELSE CoreCommandInfos[ce.word]

ForwardToCore(s, sc, ce, redir) ==
    \/ /\ ~FindInstance(sc.coreID)
       /\ Status(s, [sc EXCEPT !.coreID = 0], ce)
    \/ /\ FindInstance(sc.coreID)
       /\ ce.word \notin DOMAIN CoreCommandInfos
       /\ Answered(s, CommandNotFound(sc, ce))
    \/ /\ FindInstance(sc.coreID)
       /\ ce.word \in DOMAIN CoreCommandInfos
       /\ sc.accessLevel < LevelNeeded(ce, redir)
       /\ Status(s, sc, ce)
    \/ /\ FindInstance(sc.coreID)
       /\ ce.word \in DOMAIN CoreCommandInfos
       /\ sc.accessLevel >= LevelNeeded(ce, redir)
       /\ coreInstances' = [coreInstances EXCEPT ![sc.coreID] =
                                FlushCommandQ(QueueCommand(@, ce))]
       /\ Becomes(s, sc)
       /\ UNCHANGED <<coreIDCounter, clientsToRemove, statusMessage>>

\* shutdown(2) fails if the peer is gone: the session is then marked for removal.
ShutdownClient(s) ==
    clientsToRemove' \in {clientsToRemove} \union
                         (IF s \in closed THEN {clientsToRemove \union {s}} ELSE {})

CcQuit(s, sc, ce, arg) ==
    \/ arg # NoArg /\ Answered(s, sc)       \* the syntax error is not sent
    \/ /\ arg = NoArg
       /\ Becomes(s, [ForwardStatusline(sc, ce, FALSE) EXCEPT !.shutdown = TRUE])
       /\ ShutdownClient(s)
       /\ UNCHANGED <<coreInstances, coreIDCounter, statusMessage>>

CcCreateGraph(s, sc, ce, arg) ==
    \/ /\ arg \in {NoArg, BadArgs} \/ FindNamedInstance(arg) # {}
       /\ Status(s, sc, ce)
    \/ /\ arg \notin {NoArg, BadArgs} /\ FindNamedInstance(arg) = {}
       /\ coreIDCounter < MaxCores
       /\ \/ /\ coreInstances' = [id \in DOMAIN coreInstances \union {coreIDCounter + 1} |->
                                      IF id = coreIDCounter + 1 THEN StartCore(arg)
                                      ELSE coreInstances[id]]
          \/ CoresMayFail /\ UNCHANGED coreInstances        \* startCore() failed
       /\ coreIDCounter' = coreIDCounter + 1
       /\ Becomes(s, ForwardStatusline(sc, ce, FALSE))
       /\ UNCHANGED <<clientsToRemove, statusMessage>>

\* Mutant: reconnecting empties the session's queue.
CcUseGraphClears(s, sc, ce, arg) ==
    \/ FindNamedInstance(arg) = {} /\ Status(s, sc, ce)
    \/ \E id \in FindNamedInstance(arg) :
          Status(s, [sc EXCEPT !.coreID = id, !.lineQueue = <<>>], ce)

CcUseGraph(s, sc, ce, arg) ==
    \/ FindNamedInstance(arg) = {} /\ Status(s, sc, ce)
    \/ \E id \in FindNamedInstance(arg) : Status(s, [sc EXCEPT !.coreID = id], ce)

\* kill(2) fails if the process has been waited for in this iteration.
CcDropGraph(s, sc, ce, arg) ==
    \/ FindNamedInstance(arg) \subseteq coresToRemove /\ Status(s, sc, ce)
    \/ \E id \in FindNamedInstance(arg) \ coresToRemove :
          /\ coreInstances' = [coreInstances EXCEPT ![id] = Terminate(@)]
          /\ Becomes(s, ForwardStatusline(sc, ce, FALSE))
          /\ UNCHANGED <<coreIDCounter, clientsToRemove, statusMessage>>

ListWords == {"list-graphs", "session-info", "server-stats"}

\* What they list differs, how they reply does not.
CcListGraphs(s, sc, ce, arg) ==
    \/ arg # NoArg /\ Status(s, sc, ce)
    \/ arg = NoArg /\ Answered(s, ForwardDataset(ForwardStatusline(sc, ce, TRUE), TRUE))

CcProtocolVersion(s, sc, ce, arg) == Status(s, sc, ce)

\* The argument stands for credentials: the name of the level they grant, if any.
CcAuthorize(s, sc, ce, arg) ==
    \/ arg \notin DOMAIN AccessLevels /\ Status(s, sc, ce)
    \/ arg \in DOMAIN AccessLevels /\ Status(s, [sc EXCEPT !.accessLevel = AccessLevels[arg]], ce)

ServerWords == ListWords \union {"quit", "create-graph", "use-graph", "drop-graph",
                                  "protocol-version", "authorize", "help", "shutdown"}

\* The text of help on one server command goes out as one string, which does
\* not count as the blank line that ends a data set.
CcHelp(s, sc, ce, arg) ==
    LET listed == ForwardStatusline(sc, ce, TRUE)
    IN \/ arg = BadArgs /\ Status(s, sc, ce)
       \/ arg = NoArg /\ FindInstance(sc.coreID) /\ ForwardToCore(s, listed, ce, FALSE)
       \/ arg = NoArg /\ ~FindInstance(sc.coreID) /\ Answered(s, ForwardDataset(listed, TRUE))
       \/ arg \in ServerWords \ {"help"} /\ Answered(s, ForwardDataset(listed, FALSE))
       \/ /\ arg \notin (ServerWords \ {"help"}) \union {NoArg, BadArgs}
          /\ IF FindInstance(sc.coreID) THEN ForwardToCore(s, sc, ce, FALSE) ELSE Status(s, sc, ce)

\* What the server sends after a successful shutdown is whatever the object
\* last failed with: nothing, or an old error message.
AfterShutdown(sc, ce) ==
    IF statusMessage = ""
    THEN [sc EXCEPT !.writeBufferEmpty = FALSE,
                    !.commandsExecuted = IF sc.connectionType = "HTTP" THEN @ + 1 ELSE @]
    ELSE ForwardStatusline(sc, ce, FALSE)

\* An empty status line makes an HTTP session write an error and shut down.
EmptyStatusShutsDown(sc) ==
    statusMessage = "" /\ sc.connectionType = "HTTP" /\ sc.commandsExecuted = 0

CcShutdown(s, sc, ce, arg) ==
    \/ /\ arg # NoArg \/ ~FindInstance(sc.coreID)
       /\ Becomes(s, ForwardStatusline(sc, ce, FALSE))
       /\ statusMessage' = "failed"
       /\ UNCHANGED <<coreInstances, coreIDCounter, clientsToRemove>>
    \/ /\ arg = NoArg /\ FindInstance(sc.coreID)
       /\ coreInstances' = [coreInstances EXCEPT ![sc.coreID] =
                                NotRunning(FlushCommandQ(QueueCommand(@, ce)))]
       /\ Becomes(s, [AfterShutdown(sc, ce) EXCEPT !.shutdown = @ \/ EmptyStatusShutsDown(sc)])
       /\ IF EmptyStatusShutsDown(sc) THEN ShutdownClient(s) ELSE UNCHANGED clientsToRemove
       /\ UNCHANGED <<coreIDCounter, statusMessage>>

\* ACCESS_ADMIN for these three, ACCESS_READ for the others.
NeedsAdmin == {"create-graph", "drop-graph", "shutdown"}

ExecuteServerCommand(s, sc, ce, arg) ==
    \/ /\ ce.word \in NeedsAdmin /\ sc.accessLevel < AccessLevels.admin
       /\ Status(s, sc, ce)
    \/ /\ ce.word \notin NeedsAdmin \/ sc.accessLevel >= AccessLevels.admin
       /\ \/ ce.word = "quit"             /\ CcQuit(s, sc, ce, arg)
          \/ ce.word = "create-graph"     /\ CcCreateGraph(s, sc, ce, arg)
          \/ ce.word = "use-graph"        /\ CcUseGraph(s, sc, ce, arg)
          \/ ce.word = "drop-graph"       /\ CcDropGraph(s, sc, ce, arg)
          \/ ce.word \in ListWords         /\ CcListGraphs(s, sc, ce, arg)
          \/ ce.word = "protocol-version" /\ CcProtocolVersion(s, sc, ce, arg)
          \/ ce.word = "authorize"        /\ CcAuthorize(s, sc, ce, arg)
          \/ ce.word = "help"             /\ CcHelp(s, sc, ce, arg)
          \/ ce.word = "shutdown"         /\ CcShutdown(s, sc, ce, arg)

ProcessCommand(s, sc, ce, line) ==
    \/ ce.word = Blank /\ Answered(s, sc)
    \/ /\ ce.word \in ServerWords
       /\ IF ce.dataset # <<>> \/ line.redir
          THEN Status(s, sc, ce)
          ELSE ExecuteServerCommand(s, sc, ce, line.arg)
    \/ /\ ce.word \notin ServerWords \union {Blank}
       /\ IF sc.coreID # 0
          THEN ForwardToCore(s, sc, ce, line.redir)
          ELSE Answered(s, CommandNotFound(sc, ce))

-----------------------------------------------------------------------------
(* A line of input, number n of session s.                                  *)

\* Mutant: only lines already queued hold a line back.
MustWaitForQueue(s, sc, fromServerQueue) == ~fromServerQueue /\ sc.lineQueue # <<>>

MustWait(s, sc, fromServerQueue) ==
    ~fromServerQueue /\ (sc.lineQueue # <<>> \/ IsWaitingForCoreReply(s, sc))

LineFromClient(s, sc, n, fromServerQueue) ==
    LET line == lines[s][n]
        ce   == NewCommand(s, n, line.word, line.colon)
        cur  == AppendToDataset(sc.curCommand, n, line.word = Blank)
    IN IF sc.curCommand # NoCommand /\ ~Flushable(sc.curCommand)
       THEN IF Flushable(cur)
            THEN ProcessCommand(s, [sc EXCEPT !.curCommand = NoCommand], cur, lines[s][cur.tag])
            ELSE Answered(s, [sc EXCEPT !.curCommand = cur])
       ELSE IF sc.curCommand # NoCommand \/ MustWait(s, sc, fromServerQueue)
            THEN Answered(s, [sc EXCEPT !.lineQueue = Append(@, n)])
            ELSE IF Flushable(ce)
                 THEN ProcessCommand(s, sc, ce, line)
                 ELSE Answered(s, [sc EXCEPT !.curCommand = ce])

\* A complete request.  "malformed": its first line or its URI cannot be parsed.
LineFromHTTPClient(s, sc, n) ==
    LET line == lines[s][n]
        ce   == NewCommand(s, n, line.word, FALSE)
        refused == line.word = "malformed" \/ line.colon
    IN \/ /\ line.core = NoCore
          /\ refused \/ line.word = Blank
          /\ Status(s, sc, ce)
       \/ /\ line.core = NoCore
          /\ ~refused /\ line.word # Blank
          /\ LineFromClient(s, sc, n, FALSE)
       \/ /\ line.core # NoCore
          /\ FindNamedInstance(line.core) = {} \/ refused
          /\ Status(s, sc, ce)
       \/ /\ line.core # NoCore /\ ~refused
          /\ \E id \in FindNamedInstance(line.core) :
                LineFromClient(s, [sc EXCEPT !.coreID = id], n, FALSE)

-----------------------------------------------------------------------------
(* The main loops.  select's answer is fixed at the top of an iteration:    *)
(* the sessions and cores to read, each in the order of its ID.  What        *)
(* arrives while the iteration runs is as good as arriving after it.         *)

Unread(s) == linesRead[s] < Len(lines[s])

Readable(s) == Unread(s) \/ s \in closed \/ sessionContexts[s].shutdown

CoreReadable(id) == coreInstances[id].fromCore # <<>> \/ coreInstances[id].process = "exited"

First(S) == {x \in S : \A y \in S : x <= y}

\* Mutant: the sessions about to be removed are still selected.
SessionsToReadStale(kept) == {s \in DOMAIN sessionContexts : Readable(s)}

SessionsToRead(kept) == {s \in kept : Readable(s)}

\* Mutant: queues are left to forwardToCore.
FlushNone == coreInstances

FlushAll == [id \in DOMAIN coreInstances |-> FlushCommandQ(coreInstances[id])]

\* Mutant: whether the core has more for the client is not looked at.
FinishedEarly(cores) ==
    {s \in DOMAIN sessionContexts :
        LET sc == sessionContexts[s]
        IN sc.connectionType = "HTTP" /\ sc.conversationFinished /\ sc.writeBufferEmpty /\ ~sc.shutdown}

\* HTTP sessions with no more output: the sweep at the end of an iteration.
Finished(cores) ==
    {s \in DOMAIN sessionContexts :
        LET sc == sessionContexts[s]
        IN /\ sc.connectionType = "HTTP" /\ sc.conversationFinished
           /\ sc.writeBufferEmpty /\ ~sc.shutdown
           /\ (sc.coreID \in DOMAIN cores /\ cores[sc.coreID].processRunning)
                  => ~HasDataForClient(cores[sc.coreID], s)}

\* Up to the return of select: a timeout that changes nothing is not a step.
LoopTop ==
    LET kept == DOMAIN sessionContexts \ clientsToRemove
    IN /\ ~UseLibevent /\ ~inIteration
       /\ sessionContexts' = Restrict(sessionContexts, kept)
       /\ coreInstances' = FlushAll
       /\ clientsToRemove' = {}
       /\ readyClients' = SessionsToRead(kept)
       /\ readyCores' = {id \in DOMAIN coreInstances : CoreReadable(id)}
       /\ \/ readyClients' # {} \/ readyCores' # {}
          \/ coreInstances' # coreInstances \/ clientsToRemove # {}
          \/ Finished(coreInstances) # {}
       /\ inIteration' = TRUE
       /\ UNCHANGED <<coreIDCounter, statusMessage, coresToRemove, drained, clientVars, sessionIDCounter>>

\* libevent calls back for one descriptor at a time, in no particular order.
Dispatch ==
    /\ UseLibevent /\ ~inIteration
    /\ \/ \E s \in DOMAIN sessionContexts : Readable(s) /\ readyClients' = {s} /\ readyCores' = {}
       \/ \E id \in DOMAIN coreInstances : CoreReadable(id) /\ readyCores' = {id} /\ readyClients' = {}
    /\ inIteration' = TRUE
    /\ UNCHANGED <<serverVars, coresToRemove, drained, clientVars, sessionIDCounter>>

\* One line out of what recv returned; the rest of the turn may follow or not.
ReadClientLine ==
    \E s \in First(readyClients) :
        LET sc == sessionContexts[s]
            n  == linesRead[s] + 1
        IN /\ Unread(s)
           /\ s \in clientsToRemove => UseLibevent
           /\ IF sc.connectionType = "HTTP"
              THEN LineFromHTTPClient(s, sc, n)
              ELSE LineFromClient(s, sc, n, FALSE)
           /\ linesRead' = [linesRead EXCEPT ![s] = n]
           /\ readyClients' \in {readyClients \ {s}} \union
                                (IF n < Len(lines[s]) THEN {readyClients} ELSE {})
           /\ UNCHANGED <<inIteration, readyCores, coresToRemove, drained, lines, closed,
                          sessionIDCounter>>

\* recv returns 0, or fails because the client reset the connection, whatever
\* is unread; or the session is marked and its lines are dropped.
ReadClientEOF ==
    \E s \in First(readyClients) :
        /\ ~Unread(s) \/ s \in closed \/ (s \in clientsToRemove /\ ~UseLibevent)
        /\ IF UseLibevent
           THEN /\ sessionContexts' = Restrict(sessionContexts, DOMAIN sessionContexts \ {s})
                /\ UNCHANGED clientsToRemove
           ELSE /\ clientsToRemove' = clientsToRemove \union {s}
                /\ UNCHANGED sessionContexts
        /\ readyClients' = readyClients \ {s}
        /\ UNCHANGED <<coreInstances, coreIDCounter, statusMessage, inIteration, readyCores,
                       coresToRemove, drained, clientVars, sessionIDCounter>>

\* Mutant: asked after the line has been handled.
ClientWaitingAfter(c) ==
    IF FindClient(c.lastClientID) /\ HasDataForClient(LineFromCore(c), c.lastClientID)
    THEN c.lastClientID ELSE NoClient

\* The client that is waiting for the output of core c.
ClientWaiting(c) ==
    IF FindClient(c.lastClientID) /\ IsWaitingForCoreReply(c.lastClientID, sessionContexts[c.lastClientID])
    THEN c.lastClientID ELSE NoClient

\* One line of core output; the client that waited for it is drained next.
ReadCoreLine ==
    /\ readyClients = {} /\ drained = NoClient
    /\ \E id \in First(readyCores) :
          LET c    == coreInstances[id]
              line == Head(c.fromCore)
              s    == c.lastClientID
          IN /\ c.fromCore # <<>>
             /\ coreInstances' = [coreInstances EXCEPT ![id] = LineFromCore(c)]
             /\ IF FindClient(s)
                THEN sessionContexts' = [sessionContexts EXCEPT ![s] =
                        CASE ForwardAs(c) = "status" -> ForwardStatusline(@, line.cmd, line.colon)
                          [] ForwardAs(c) = "data"   -> ForwardDataset(@, line.blank)
                          [] OTHER                   -> @]
                ELSE UNCHANGED sessionContexts
             /\ drained' = ClientWaiting(c)
             /\ readyCores' \in {readyCores \ {id}} \union
                                (IF Len(c.fromCore) > 1 THEN {readyCores} ELSE {})
    /\ UNCHANGED <<coreIDCounter, clientsToRemove, statusMessage, inIteration, readyClients,
                   coresToRemove, clientVars, sessionIDCounter>>

CanDrain(s) ==
    sessionContexts[s].lineQueue # <<>> /\ ~IsWaitingForCoreReply(s, sessionContexts[s])

\* The queued lines of the client, one by one, until it waits again.
DrainLine ==
    LET sc == sessionContexts[drained]
    IN /\ drained # NoClient /\ CanDrain(drained)
       /\ LineFromClient(drained, [sc EXCEPT !.lineQueue = Tail(@)], Head(sc.lineQueue), TRUE)
       /\ UNCHANGED <<loopVars, clientVars, sessionIDCounter>>

DrainDone ==
    /\ drained # NoClient /\ ~CanDrain(drained)
    /\ drained' = NoClient
    /\ UNCHANGED <<serverVars, inIteration, readyClients, readyCores, coresToRemove,
                   clientVars, sessionIDCounter>>

ReadCoreEOF ==
    /\ readyClients = {} /\ drained = NoClient
    /\ \E id \in First(readyCores) :
          /\ AtEOF(coreInstances[id])
          /\ coresToRemove' = coresToRemove \union {id}
          /\ readyCores' = readyCores \ {id}
    /\ UNCHANGED <<serverVars, inIteration, readyClients, drained, clientVars, sessionIDCounter>>

\* Dead cores are deleted, then (select only) finished HTTP sessions shut down.
EndIteration ==
    LET cores == Restrict(coreInstances, DOMAIN coreInstances \ coresToRemove)
        done  == IF UseLibevent THEN {} ELSE Finished(cores)
    IN /\ inIteration /\ readyClients = {} /\ readyCores = {} /\ drained = NoClient
       /\ coreInstances' = cores
       /\ sessionContexts' = [s \in DOMAIN sessionContexts |->
                                 [sessionContexts[s] EXCEPT !.shutdown = @ \/ s \in done]]
       /\ \E failed \in SUBSET (done \intersect closed) :
             clientsToRemove' = clientsToRemove \union failed
       /\ coresToRemove' = {}
       /\ inIteration' = FALSE
       /\ UNCHANGED <<coreIDCounter, statusMessage, readyClients, readyCores, drained,
                      clientVars, sessionIDCounter>>

\* A write, or a flush() of what one left over, gets everything out.
FlushSession(s) ==
    /\ s \in DOMAIN sessionContexts
    /\ ~sessionContexts[s].writeBufferEmpty /\ ~sessionContexts[s].shutdown
    /\ sessionContexts' = [sessionContexts EXCEPT ![s].writeBufferEmpty = TRUE]
    /\ UNCHANGED <<coreInstances, coreIDCounter, clientsToRemove, statusMessage, loopVars,
                   clientVars, sessionIDCounter>>

\* Or it fails, because the connection is gone: the session is marked.
WriteFailed(s) ==
    /\ s \in DOMAIN sessionContexts \ clientsToRemove
    /\ ~sessionContexts[s].writeBufferEmpty
    /\ s \in closed \/ sessionContexts[s].shutdown
    /\ clientsToRemove' = clientsToRemove \union {s}
    /\ UNCHANGED <<sessionContexts, coreInstances, coreIDCounter, statusMessage, loopVars,
                   clientVars, sessionIDCounter>>

-----------------------------------------------------------------------------
(* Clients and core processes. *)

Connect(connectionType) ==
    LET s == sessionIDCounter + 1
    IN /\ ~inIteration
       /\ s \in SessionIDs
       /\ sessionIDCounter' = s
       /\ sessionContexts' = [x \in DOMAIN sessionContexts \union {s} |->
                                 IF x = s THEN NewSession(connectionType) ELSE sessionContexts[x]]
       /\ UNCHANGED <<coreInstances, coreIDCounter, clientsToRemove, statusMessage, loopVars, clientVars>>

ClientSends(s) ==
    /\ ~inIteration
    /\ s \in DOMAIN sessionContexts \ closed
    /\ ~sessionContexts[s].shutdown
    /\ Len(lines[s]) < MaxLines[s]
    /\ \E line \in IF sessionContexts[s].connectionType = "HTTP" THEN Requests[s] ELSE Lines[s] :
          lines' = [lines EXCEPT ![s] = Append(@, line)]
    /\ UNCHANGED <<serverVars, loopVars, linesRead, closed, sessionIDCounter>>

ClientCloses(s) ==
    /\ ~inIteration
    /\ s \in DOMAIN sessionContexts \ closed
    /\ closed' = closed \union {s}
    /\ UNCHANGED <<serverVars, loopVars, lines, linesRead, sessionIDCounter>>

CoreStep(id, c) ==
    /\ ~inIteration
    /\ coreInstances' = [coreInstances EXCEPT ![id] = c]
    /\ UNCHANGED <<sessionContexts, coreIDCounter, clientsToRemove, statusMessage, loopVars,
                   clientVars, sessionIDCounter>>

CoreAnswers(id) ==
    /\ id \in DOMAIN coreInstances
    /\ CanAnswer(coreInstances[id]) /\ Len(coreInstances[id].fromCore) < PipeCapacity
    /\ \E colon \in BOOLEAN : CoreStep(id, Answer(coreInstances[id], colon))

CoreContinues(id, blank) ==
    /\ id \in DOMAIN coreInstances
    /\ CanContinue(coreInstances[id]) /\ Len(coreInstances[id].fromCore) < PipeCapacity
    /\ CoreStep(id, Continue(coreInstances[id], blank))

CoreExits(id) ==
    /\ id \in DOMAIN coreInstances
    /\ coreInstances[id].process # "exited"
    /\ CoresMayFail \/ coreInstances[id].killed
    /\ CoreStep(id, Exit(coreInstances[id]))

-----------------------------------------------------------------------------
Init ==
    /\ sessionContexts = <<>> /\ coreInstances = <<>>
    /\ sessionIDCounter = 0 /\ coreIDCounter = 0
    /\ clientsToRemove = {} /\ statusMessage = ""
    /\ inIteration = FALSE /\ readyClients = {} /\ readyCores = {} /\ coresToRemove = {}
    /\ drained = NoClient
    /\ lines = [s \in SessionIDs |-> <<>>]
    /\ linesRead = [s \in SessionIDs |-> 0]
    /\ closed = {}

ServerStep ==
    \/ LoopTop \/ Dispatch \/ ReadClientLine \/ ReadClientEOF
    \/ ReadCoreLine \/ DrainLine \/ DrainDone \/ ReadCoreEOF \/ EndIteration

CoreIDs == DOMAIN coreInstances

Next ==
    \/ ServerStep
    \/ \E s \in SessionIDs : FlushSession(s) \/ WriteFailed(s) \/ ClientSends(s) \/ ClientCloses(s)
    \/ \E connectionType \in ConnectionTypes : Connect(connectionType)
    \/ \E id \in CoreIDs : CoreAnswers(id) \/ CoreContinues(id, TRUE) \/ CoreContinues(id, FALSE)
                            \/ CoreExits(id)

Spec == Init /\ [][Next]_vars

\* The loop runs; a core answers its commands, ends the data sets it began and
\* goes when it is told to; a connection takes what is written to it, or breaks.
Fairness ==
    /\ WF_vars(ServerStep)
    /\ \A id \in 1..MaxCores : WF_vars(CoreAnswers(id)) /\ SF_vars(CoreContinues(id, TRUE))
    /\ \A id \in 1..MaxCores : WF_vars(CoreExits(id) /\ coreInstances[id].killed)
    /\ \A s \in SessionIDs : WF_vars(FlushSession(s))

-----------------------------------------------------------------------------
(* Type correctness. *)

Entry == [clientID : SessionIDs \union {NoClient}, tag : Nat, word : STRING \union {Blank},
          acceptsData : BOOLEAN, dataFinished : BOOLEAN, dataset : Seq(Nat)]

Reply == [clientID : SessionIDs, tag : Nat, dataset : Seq(Nat)]

SessionContext ==
    [connectionType : {"TCP", "HTTP"}, accessLevel : 0..2, coreID : Nat,
     lineQueue : Seq(Nat), curCommand : Entry, shutdown : BOOLEAN,
     writeBufferEmpty : BOOLEAN, conversationFinished : BOOLEAN, commandsExecuted : Nat,
     replies : Seq(Reply)]

(* Every variable has its type, in particular every ID in use names a       *)
(* session or core that has been created, and no session is read or drained *)
(* that has been deleted (the SessionContext pointers of the main loops).   *)
TypeOK ==
    /\ DOMAIN sessionContexts \subseteq 1..sessionIDCounter
    /\ DOMAIN coreInstances \subseteq 1..coreIDCounter
    /\ \A s \in DOMAIN sessionContexts :
           sessionContexts[s] \in SessionContext /\ sessionContexts[s].coreID <= coreIDCounter
    /\ \A id \in DOMAIN coreInstances :
           /\ coreInstances[id].commandQ \in Seq(Entry)
           /\ coreInstances[id].lastClientID \in SessionIDs \union {NoClient}
    /\ readyClients \subseteq DOMAIN sessionContexts
    /\ readyCores \union coresToRemove \subseteq DOMAIN coreInstances
    /\ drained \in DOMAIN sessionContexts \union {NoClient}
    /\ ~inIteration => readyClients \union readyCores \union coresToRemove = {} /\ drained = NoClient
    /\ closed \union clientsToRemove \subseteq 1..sessionIDCounter
    /\ \A s \in SessionIDs : linesRead[s] \in 0..Len(lines[s])

-----------------------------------------------------------------------------
(* Safety. *)

Tcp == {s \in DOMAIN sessionContexts : sessionContexts[s].connectionType = "TCP"}
Http == DOMAIN sessionContexts \ Tcp
RunningCores == {id \in DOMAIN coreInstances : coreInstances[id].processRunning}

(* A session is sent the replies to its own commands only, whichever cores  *)
(* it shares with others, switches between, or loses (lineFromCore sends to *)
(* lastClientID; lineFromClient answers the session it reads).              *)
RepliesRouted ==
    \A s \in DOMAIN sessionContexts :
        \A i \in DOMAIN sessionContexts[s].replies : sessionContexts[s].replies[i].clientID = s

(* A TCP client is answered in the order of its commands, and once each but *)
(* for help (whose list is completed by the core): lineQueue holds back     *)
(* what would overtake, and the drain in the main loop keeps its order.     *)
RepliesInOrder ==
    \A s \in Tcp :
        LET r == sessionContexts[s].replies
        IN \A i \in 1..Len(r) - 1 :
              \/ r[i].tag < r[i + 1].tag
              \/ r[i].tag = r[i + 1].tag /\ lines[s][r[i].tag].word = "help"

(* A TCP session has at most one command with all running cores together,   *)
(* so reconnectSession's complaint "old core instance still has data for     *)
(* client" (servapp.h) is never due.                                        *)
OneInFlight ==
    \A s \in Tcp :
        Cardinality(UNION {{id} \X {i \in DOMAIN coreInstances[id].commandQ :
                                       coreInstances[id].commandQ[i].clientID = s} : id \in RunningCores})
      + Cardinality({id \in RunningCores : Busy(coreInstances[id])
                                           /\ coreInstances[id].lastClientID = s}) <= 1

(* session.h of lineQueue: "lines which arrive from this client while the   *)
(* session is waiting for core reply are buffered here".  Queued lines mean  *)
(* that a core reply is due: it is what starts the drain.                    *)
QueuedWhileWaiting ==
    \A s \in DOMAIN sessionContexts \ (clientsToRemove \union {drained}) :
        sessionContexts[s].lineQueue # <<>> => WaitingForCore(s, sessionContexts[s])

(* Every queued core command is complete, so no front entry blocks a queue  *)
(* and removeSession's "terminating open data set" is never due.            *)
CommandsComplete ==
    \A id \in DOMAIN coreInstances :
        \A i \in DOMAIN coreInstances[id].commandQ : Flushable(coreInstances[id].commandQ[i])

EntryLines(ce) == {ce.tag} \union Range(ce.dataset)

AnsweredLines(sc) == UNION {EntryLines(r) : r \in Range(sc.replies)}

LinesWithCore(s, c) == UNION {EntryLines(ce) : ce \in {e \in Range(RepliesDue(c)) : e.clientID = s}}

\* The lines of session s, sc, that are answered, queued or collected.
LinesHeld(sc) == AnsweredLines(sc) \union Range(sc.lineQueue) \union EntryLines(sc.curCommand)

KnownLines(s) ==
    LinesHeld(sessionContexts[s])
        \union UNION {LinesWithCore(s, coreInstances[id]) : id \in DOMAIN coreInstances}

(* No line a session sent is forgotten: once read it is (part of) a command *)
(* that has been answered, is being collected or is with a core, or it is   *)
(* queued.  Blank lines outside a data set are no commands.                 *)
LinesAccountedFor ==
    \A s \in Tcp \ clientsToRemove :
        \A n \in 1..linesRead[s] : lines[s][n].word = Blank \/ n \in KnownLines(s)

(* Of several cores with one name, at most one is running, however creating, *)
(* dropping and shutting down interleave: findNamedInstance finds it.        *)
RunningNamesUnique ==
    \A i, j \in RunningCores : coreInstances[i].name = coreInstances[j].name => i = j

(* What the reply parser knows of each core agrees with its pipes, in the   *)
(* whole server as in CoreService.                                          *)
CoresInStep == \A id \in DOMAIN coreInstances : OneReply(coreInstances[id]) /\ PipeLines(coreInstances[id])

-----------------------------------------------------------------------------
(* The invariant behind these.  What reaches a queue is a complete command, *)
(* and every core is a record of the fields CoreInstance works on.          *)

GivenCommand == {ce \in Entry : ce.clientID \in SessionIDs /\ Flushable(ce)}

CoresTyped ==
    \A id \in DOMAIN coreInstances : coreInstances[id] \in CoreRecords(STRING, SessionIDs, GivenCommand)

CountersTyped ==
    /\ sessionIDCounter \in Nat /\ coreIDCounter \in Nat /\ 1..sessionIDCounter \subseteq SessionIDs
    /\ lines \in [SessionIDs -> Seq(CommandLine)] /\ linesRead \in [SessionIDs -> Nat]

\* What a session holds back are lines it has read, and their command is its own.
InputHeld ==
    \A s \in DOMAIN sessionContexts :
        LET sc == sessionContexts[s]
        IN /\ sc.lineQueue \in Seq(1..linesRead[s])
           /\ sc.curCommand # NoCommand => sc.curCommand.clientID = s /\ sc.curCommand.tag \in 1..linesRead[s]

\* The drain comes after the sessions have been read.
DrainedAlone == drained # NoClient => readyClients = {}

\* Replies are due to sessions that exist or have existed.
DueToKnown ==
    \A id \in DOMAIN coreInstances :
        \A i \in DOMAIN RepliesDue(coreInstances[id]) :
            RepliesDue(coreInstances[id])[i].clientID \in 1..sessionIDCounter

\* All a running core has for a TCP session is one command, given by a session
\* that uses the core and collects no other.
InFlight ==
    \A s \in Tcp, id \in RunningCores :
        \A i \in DOMAIN RepliesDue(coreInstances[id]) :
            RepliesDue(coreInstances[id])[i].clientID = s =>
                /\ sessionContexts[s].coreID = id /\ sessionContexts[s].curCommand = NoCommand
                /\ \A j \in DOMAIN RepliesDue(coreInstances[id]) :
                       RepliesDue(coreInstances[id])[j].clientID = s => j = i

Inv ==
    /\ TypeOK /\ CoresTyped /\ CountersTyped /\ InputHeld /\ DrainedAlone
    /\ CoresInStep /\ RunningNamesUnique /\ RepliesRouted /\ DueToKnown /\ InFlight

-----------------------------------------------------------------------------
(* The order of replies.  A session has the lines it has read in order: the *)
(* ones answered, then the one collected or with a core, then the queued    *)
(* ones.  It takes that no core is dropped or shut down under the session.  *)

NoTermination ==
    \A s \in SessionIDs : \A line \in Lines[s] \union Requests[s] :
        line.word \notin {"drop-graph", "shutdown"}

RepliedBefore(sc, n) == \A i \in DOMAIN sc.replies : sc.replies[i].tag < n
QueuedAfter(sc, n) == \A i \in DOMAIN sc.lineQueue : n < sc.lineQueue[i]

\* The replies so far are to lines before n, or to help on line n.
NotYetReplied(sc, n, input) ==
    \A i \in DOMAIN sc.replies :
        sc.replies[i].tag < n \/ (sc.replies[i].tag = n /\ input[n].word = "help")

\* The replies due of which not even the status line has come.
Coming(c) ==
    {RepliesDue(c)[i] : i \in {j \in DOMAIN RepliesDue(c) : j = 1 => ~c.expectingDataset}}

\* A session that has read so many lines of its input.
InputOrdered(sc, read) ==
    /\ \A i \in DOMAIN sc.replies : sc.replies[i].tag \in 1..read
    /\ \A i \in DOMAIN sc.lineQueue : RepliedBefore(sc, sc.lineQueue[i])
    /\ \A i, j \in DOMAIN sc.lineQueue : i < j => sc.lineQueue[i] < sc.lineQueue[j]
    /\ sc.curCommand # NoCommand =>
           RepliedBefore(sc, sc.curCommand.tag) /\ QueuedAfter(sc, sc.curCommand.tag)

DueOrdered(s, sc, read, input, c) ==
    /\ \A ce \in Range(RepliesDue(c)) :
           ce.clientID = s => ce.tag \in 1..read /\ QueuedAfter(sc, ce.tag)
    /\ \A ce \in Coming(c) : ce.clientID = s => NotYetReplied(sc, ce.tag, input)

OrderInv ==
    /\ RepliesInOrder /\ RunningCores = DOMAIN coreInstances
    /\ \A s \in SessionIDs : \A n \in DOMAIN lines[s] :
           lines[s][n].word \notin {"drop-graph", "shutdown"}
    /\ \A s \in DOMAIN sessionContexts :
           LET cur == sessionContexts[s].curCommand
           IN cur # NoCommand => cur.word = lines[s][cur.tag].word
    /\ \A s \in Tcp :
           /\ InputOrdered(sessionContexts[s], linesRead[s])
           /\ \A id \in DOMAIN coreInstances :
                  DueOrdered(s, sessionContexts[s], linesRead[s], lines[s], coreInstances[id])

-----------------------------------------------------------------------------
(* The lines of a session.  The two kinds of line that are read and never   *)
(* answered: quit with words after it, and a data set without a command.    *)

Answerable(line) == (line.word = "quit" => line.arg = NoArg) /\ (line.word = Blank => ~line.colon)

AllAnswerable == \A s \in SessionIDs : \A line \in Lines[s] : Answerable(line)

\* The command collected has a word, that of its line.
CollectsCommand(sc, input) ==
    sc.curCommand # NoCommand =>
        sc.curCommand.word = input[sc.curCommand.tag].word /\ sc.curCommand.word # Blank

\* If core c is sending the data set of a reply to session s, the status line
\* has been sent on.
StatusCame(s, sc, c) ==
    c.expectingDataset /\ RepliesDue(c)[1].clientID = s =>
        EntryLines(RepliesDue(c)[1]) \subseteq AnsweredLines(sc)

LinesInv ==
    /\ \A s \in SessionIDs : s > sessionIDCounter => lines[s] = <<>>
    /\ \A s \in Tcp :
           /\ \A n \in DOMAIN lines[s] : Answerable(lines[s][n])
           /\ CollectsCommand(sessionContexts[s], lines[s])
           /\ s \notin clientsToRemove =>
                 \A id \in DOMAIN coreInstances : StatusCame(s, sessionContexts[s], coreInstances[id])

\* Session s keeps track of the lines it knows and of those it reads now.
LinesKept(s) ==
    \A n \in 1..linesRead'[s] :
        n \in KnownLines(s) \/ n > linesRead[s] =>
            \/ n \in KnownLines(s)' \/ lines[s][n].word = Blank
            \/ \E id \in DOMAIN coreInstances \ DOMAIN coreInstances' :
                   n \in LinesWithCore(s, coreInstances[id])

(* Whatever a client sends, other sessions do and cores die of: a command    *)
(* that has been read is lost without an answer only together with the core *)
(* that had it (the removal of dead cores at the end of an iteration).       *)
LinesGoWithCores ==
    [][\A s \in (Tcp \intersect DOMAIN sessionContexts') \ clientsToRemove' : LinesKept(s)]_vars

-----------------------------------------------------------------------------
(* Servers that lose no core: none is told to go, and none goes by itself.  *)

CoresAlive ==
    /\ coresToRemove = {}
    /\ \A id \in DOMAIN coreInstances :
           /\ coreInstances[id].process # "exited" /\ ~coreInstances[id].killed
           /\ \A i \in DOMAIN RepliesDue(coreInstances[id]) : RepliesDue(coreInstances[id])[i].word # "shutdown"

\* TCP only, and no data sets.
PlainLines ==
    /\ ConnectionTypes \subseteq {"TCP"}
    /\ \A s \in SessionIDs : \A line \in Lines[s] : ~line.colon

PlainInv ==
    /\ CoresAlive /\ QueuedWhileWaiting /\ Tcp = DOMAIN sessionContexts
    /\ \A s \in DOMAIN sessionContexts : sessionContexts[s].curCommand = NoCommand
    /\ \A s \in SessionIDs : \A n \in DOMAIN lines[s] : ~lines[s][n].colon

-----------------------------------------------------------------------------
(* An HTTP connection is not shut down while a request of it that has been  *)
(* read waits for its turn or for the rest of its reply.                    *)
HTTPResponseComplete ==
    [][\A s \in Http \intersect DOMAIN sessionContexts' :
         ~sessionContexts[s].shutdown /\ sessionContexts'[s].shutdown =>
            /\ sessionContexts'[s].lineQueue = <<>>
            /\ \A id \in DOMAIN coreInstances' : ~HasDataForClient(coreInstances'[id], s)]_vars

\* "One command can be executed per request. The server will close the
\* connection after responding to the request." (doc/usage.rst)
OneRequest == \A s \in Http : Len(lines[s]) <= 1

-----------------------------------------------------------------------------
(* Liveness. *)

Gone(s) ==
    s \notin DOMAIN sessionContexts \/ s \in closed \union clientsToRemove \/ sessionContexts[s].shutdown

Sent(s, n) == s \in DOMAIN sessionContexts /\ Len(lines[s]) >= n

(* Every command a TCP client sends is answered, unless it leaves.          *)
AllAnswered ==
    \A s \in SessionIDs : \A n \in 1..MaxLines[s] :
        (Sent(s, n) /\ s \in Tcp /\ lines[s][n].word # Blank)
            ~> (Gone(s) \/ n \in AnsweredLines(sessionContexts[s]))

(* usage.rst of HTTP: "The server will close the connection after           *)
(* responding to the request."                                              *)
HTTPClosed == \A s \in SessionIDs : (Sent(s, 1) /\ s \in Http) ~> Gone(s)
=============================================================================
