------------------------- MODULE Graphserv_proofs -------------------------
(***************************************************************************)
(* Proofs about the whole server, for any number of sessions, cores, lines  *)
(* and commands, both main loops, and cores that may fail or not.           *)
(***************************************************************************)
EXTENDS Graphserv, CoreInstance_proofs, FiniteSetTheorems

-----------------------------------------------------------------------------
(* Executing a command changes what a session shows, never what it holds    *)
(* back.                                                                    *)
SameInput(sc, sc2) ==
    /\ sc2.connectionType = sc.connectionType
    /\ sc2.lineQueue = sc.lineQueue /\ sc2.curCommand = sc.curCommand

Once(sc, ce) == Append(sc.replies, ReplyTo(ce))

(* Writing to a session is typed and adds to its replies at most.           *)
LEMMA Forwarding ==
    ASSUME NEW sc \in SessionContext, NEW ce \in GivenCommand, NEW b \in BOOLEAN
    PROVE  /\ ForwardStatusline(sc, ce, b) \in SessionContext
           /\ SameInput(sc, ForwardStatusline(sc, ce, b))
           /\ ForwardStatusline(sc, ce, b).coreID = sc.coreID
           /\ ForwardStatusline(sc, ce, b).replies = Once(sc, ce)
           /\ ForwardDataset(sc, b) \in SessionContext
           /\ SameInput(sc, ForwardDataset(sc, b))
           /\ ForwardDataset(sc, b).coreID = sc.coreID
           /\ ForwardDataset(sc, b).replies = sc.replies
           /\ CommandNotFound(sc, ce) \in SessionContext
           /\ SameInput(sc, CommandNotFound(sc, ce))
           /\ CommandNotFound(sc, ce).coreID = sc.coreID
           /\ CommandNotFound(sc, ce).replies = Once(sc, ce)
<1>1. ReplyTo(ce) \in Reply
    BY DEF ReplyTo, Reply, GivenCommand, Entry
<1>2. Append(sc.replies, ReplyTo(ce)) \in Seq(Reply)
    BY <1>1 DEF SessionContext
<1>3. ForwardStatusline(sc, ce, b) \in SessionContext
    <2>1. (IF sc.connectionType = "HTTP" THEN sc.commandsExecuted + 1 ELSE sc.commandsExecuted) \in Nat
        BY DEF SessionContext
    <2>2. (sc.conversationFinished \/ (sc.connectionType = "HTTP" /\ sc.commandsExecuted = 0 /\ ~b)) \in BOOLEAN
        OBVIOUS
    <2> QED
        BY <1>2, <2>1, <2>2 DEF ForwardStatusline, SessionContext
<1>4. ForwardDataset(sc, b) \in SessionContext
    BY DEF ForwardDataset, SessionContext
<1>5. CommandNotFound(sc, ce) \in SessionContext
    BY <1>2 DEF CommandNotFound, SessionContext
<1>6. /\ SameInput(sc, ForwardStatusline(sc, ce, b))
      /\ ForwardStatusline(sc, ce, b).coreID = sc.coreID
      /\ ForwardStatusline(sc, ce, b).replies = Once(sc, ce)
    BY DEF SameInput, ForwardStatusline, SessionContext, Once
<1>7. /\ SameInput(sc, ForwardDataset(sc, b))
      /\ ForwardDataset(sc, b).coreID = sc.coreID
      /\ ForwardDataset(sc, b).replies = sc.replies
    BY DEF SameInput, ForwardDataset, SessionContext
<1>8. /\ SameInput(sc, CommandNotFound(sc, ce))
      /\ CommandNotFound(sc, ce).coreID = sc.coreID
      /\ CommandNotFound(sc, ce).replies = Once(sc, ce)
    BY DEF SameInput, CommandNotFound, SessionContext, Once
<1> QED
    BY <1>3, <1>4, <1>5, <1>6, <1>7, <1>8

-----------------------------------------------------------------------------
(* What executing the command ce, with the words line, for session s can do *)
(* to the server: sc is the session before, sc2 after.                      *)
Replied(sc, sc2, ce) ==
    \/ sc2.replies = Once(sc, ce)
    \/ ce.word = "help" /\ sc2.replies = Append(Once(sc, ce), ReplyTo(ce))

\* The two commands that are not answered.
Silent(ce, line) == ce.word = Blank \/ (ce.word = "quit" /\ line.arg # NoArg)

AnsweredHere(sc, sc2, ce, line) ==
    /\ UNCHANGED <<coreInstances, coreIDCounter>>
    /\ sc2.coreID \in {0, sc.coreID} \union RunningCores
    /\ Replied(sc, sc2, ce) \/ (Silent(ce, line) /\ sc2.replies = sc.replies)

GivenToCore(sc, sc2, ce) ==
    /\ FindInstance(sc.coreID) /\ sc2.coreID = sc.coreID
    /\ UNCHANGED coreIDCounter
    /\ \/ /\ coreInstances' = [coreInstances EXCEPT ![sc.coreID] = FlushCommandQ(QueueCommand(@, ce))]
          /\ sc2.replies = sc.replies \/ (ce.word = "help" /\ sc2.replies = Once(sc, ce))
       \/ /\ ce.word = "shutdown"
          /\ coreInstances' = [coreInstances EXCEPT ![sc.coreID] =
                                    NotRunning(FlushCommandQ(QueueCommand(@, ce)))]
          /\ sc2.replies \in {sc.replies, Once(sc, ce)}

CoreCreated(sc, sc2, ce) ==
    /\ sc2.coreID = sc.coreID /\ Replied(sc, sc2, ce)
    /\ coreIDCounter' = coreIDCounter + 1
    /\ \/ UNCHANGED coreInstances
       \/ \E name \in STRING :
             /\ FindNamedInstance(name) = {}
             /\ coreInstances' = [id \in DOMAIN coreInstances \union {coreIDCounter + 1} |->
                                     IF id = coreIDCounter + 1 THEN StartCore(name)
                                     ELSE coreInstances[id]]

CoreDropped(sc, sc2, ce) ==
    /\ ce.word = "drop-graph"
    /\ sc2.coreID = sc.coreID /\ Replied(sc, sc2, ce)
    /\ UNCHANGED coreIDCounter
    /\ \E id \in RunningCores : coreInstances' = [coreInstances EXCEPT ![id] = Terminate(@)]

Executed(s, sc, ce, line, sc2) ==
    /\ Becomes(s, sc2) /\ sc2 \in SessionContext /\ SameInput(sc, sc2)
    /\ clientsToRemove \subseteq clientsToRemove' /\ clientsToRemove' \subseteq clientsToRemove \union {s}
    /\ \/ AnsweredHere(sc, sc2, ce, line) \/ GivenToCore(sc, sc2, ce)
       \/ CoreCreated(sc, sc2, ce) \/ CoreDropped(sc, sc2, ce)

(* A status line with no other effect than a session that is as before, or  *)
(* has another core or access level.                                        *)
LEMMA StatusExecuted ==
    ASSUME NEW s, NEW sc \in SessionContext, NEW x \in SessionContext, NEW ce \in GivenCommand, NEW line,
           SameInput(sc, x), x.replies = sc.replies, x.coreID \in {0, sc.coreID} \union RunningCores,
           Status(s, x, ce)
    PROVE  \E sc2 : Executed(s, sc, ce, line, sc2)
<1> DEFINE y == ForwardStatusline(x, ce, FALSE)
<1>1. /\ y \in SessionContext /\ SameInput(x, y) /\ y.coreID = x.coreID
      /\ y.replies = Once(x, ce)
    BY Forwarding
<1>2. Becomes(s, y) /\ UNCHANGED <<coreInstances, coreIDCounter, clientsToRemove>>
    BY DEF Status, Answered
<1> HIDE DEF y
<1>3. AnsweredHere(sc, y, ce, line)
    BY <1>1, <1>2 DEF AnsweredHere, Replied, Once
<1> QED
    BY <1>1, <1>2, <1>3 DEF Executed, SameInput

(* What forwardToCore does: it answers, or gives the command to the core.    *)
Forwarded(s, x, ce, sc2) ==
    /\ sc2 \in SessionContext /\ Becomes(s, sc2) /\ SameInput(x, sc2)
    /\ UNCHANGED <<coreIDCounter, clientsToRemove>>
    /\ \/ /\ UNCHANGED coreInstances
          /\ sc2.coreID \in {0, x.coreID} /\ sc2.replies = Once(x, ce)
       \/ /\ FindInstance(x.coreID) /\ sc2.coreID = x.coreID
          /\ coreInstances' = [coreInstances EXCEPT ![x.coreID] = FlushCommandQ(QueueCommand(@, ce))]
          /\ sc2.replies = x.replies

(* forwardToCore does that.  The session may have been sent something before. *)
LEMMA ForwardToCoreEffect ==
    ASSUME NEW s, NEW x \in SessionContext, NEW ce \in GivenCommand, NEW redir,
           ForwardToCore(s, x, ce, redir)
    PROVE  \E sc2 : Forwarded(s, x, ce, sc2)
<1>1. CASE Status(s, [x EXCEPT !.coreID = 0], ce)
    <2> DEFINE z == [x EXCEPT !.coreID = 0]
               y == ForwardStatusline(z, ce, FALSE)
    <2>1. z \in SessionContext /\ SameInput(x, z) /\ z.coreID = 0 /\ z.replies = x.replies
        BY DEF SessionContext, SameInput
    <2> HIDE DEF z
    <2>2. y \in SessionContext /\ SameInput(z, y) /\ y.coreID = z.coreID /\ y.replies = Once(z, ce)
        BY <2>1, Forwarding
    <2>3. Becomes(s, y) /\ UNCHANGED <<coreInstances, coreIDCounter, clientsToRemove, statusMessage>>
        BY <1>1 DEF Status, Answered, z
    <2> HIDE DEF y
    <2> QED
        BY <2>1, <2>2, <2>3 DEF Forwarded, SameInput, Once
<1>2. CASE Status(s, x, ce)
    <2> DEFINE y == ForwardStatusline(x, ce, FALSE)
    <2>1. y \in SessionContext /\ SameInput(x, y) /\ y.coreID = x.coreID /\ y.replies = Once(x, ce)
        BY Forwarding
    <2>2. Becomes(s, y) /\ UNCHANGED <<coreInstances, coreIDCounter, clientsToRemove, statusMessage>>
        BY <1>2 DEF Status, Answered
    <2> HIDE DEF y
    <2> QED
        BY <2>1, <2>2 DEF Forwarded
<1>3. CASE Answered(s, CommandNotFound(x, ce))
    <2> DEFINE y == CommandNotFound(x, ce)
    <2>1. y \in SessionContext /\ SameInput(x, y) /\ y.coreID = x.coreID /\ y.replies = Once(x, ce)
        BY Forwarding
    <2>2. Becomes(s, y) /\ UNCHANGED <<coreInstances, coreIDCounter, clientsToRemove, statusMessage>>
        BY <1>3 DEF Answered
    <2> HIDE DEF y
    <2> QED
        BY <2>1, <2>2 DEF Forwarded
<1>4. CASE /\ FindInstance(x.coreID)
           /\ coreInstances' = [coreInstances EXCEPT ![x.coreID] = FlushCommandQ(QueueCommand(@, ce))]
           /\ Becomes(s, x)
           /\ UNCHANGED <<coreIDCounter, clientsToRemove, statusMessage>>
    BY <1>4 DEF Forwarded, SameInput
<1> QED
    BY <1>1, <1>2, <1>3, <1>4 DEF ForwardToCore

(* A session that is answered, or not, and changes nothing else.            *)
LEMMA AnsweredExecuted ==
    ASSUME NEW s, NEW sc, NEW y \in SessionContext, NEW ce, NEW line,
           SameInput(sc, y), y.coreID \in {0, sc.coreID} \union RunningCores,
           Replied(sc, y, ce) \/ (Silent(ce, line) /\ y.replies = sc.replies),
           Answered(s, y)
    PROVE  \E sc2 : Executed(s, sc, ce, line, sc2)
<1>1. Becomes(s, y) /\ UNCHANGED <<coreInstances, coreIDCounter, clientsToRemove>>
    BY DEF Answered
<1>2. AnsweredHere(sc, y, ce, line)
    BY <1>1 DEF AnsweredHere
<1> QED
    BY <1>1, <1>2 DEF Executed

(* A core command is answered, or given to the core.                        *)
LEMMA ForwardExecuted ==
    ASSUME NEW s, NEW sc \in SessionContext, NEW ce \in GivenCommand, NEW line, NEW redir,
           ForwardToCore(s, sc, ce, redir)
    PROVE  \E sc2 : Executed(s, sc, ce, line, sc2)
<1>1. PICK y : Forwarded(s, sc, ce, y)
    BY ForwardToCoreEffect
<1>2. AnsweredHere(sc, y, ce, line) \/ GivenToCore(sc, y, ce)
    BY <1>1 DEF Forwarded, AnsweredHere, GivenToCore, Replied
<1> QED
    BY <1>1, <1>2 DEF Forwarded, Executed

-----------------------------------------------------------------------------
(* The server commands, one by one.                                         *)
LEMMA QuitExecuted ==
    ASSUME NEW s, NEW sc \in SessionContext, NEW ce \in GivenCommand, NEW line,
           ce.word = "quit", CcQuit(s, sc, ce, line.arg)
    PROVE  \E sc2 : Executed(s, sc, ce, line, sc2)
<1>1. CASE line.arg # NoArg /\ Answered(s, sc)
    <2>1. Silent(ce, line) /\ SameInput(sc, sc)
        BY <1>1 DEF Silent, SameInput
    <2> QED
        BY <1>1, <2>1, AnsweredExecuted
<1>2. CASE /\ Becomes(s, [ForwardStatusline(sc, ce, FALSE) EXCEPT !.shutdown = TRUE])
           /\ ShutdownClient(s)
           /\ UNCHANGED <<coreInstances, coreIDCounter, statusMessage>>
    <2> DEFINE x == ForwardStatusline(sc, ce, FALSE)
               y == [x EXCEPT !.shutdown = TRUE]
    <2>1. x \in SessionContext /\ SameInput(sc, x) /\ x.coreID = sc.coreID /\ x.replies = Once(sc, ce)
        BY Forwarding
    <2> HIDE DEF x
    <2>2. y \in SessionContext /\ SameInput(sc, y) /\ y.coreID = sc.coreID /\ y.replies = Once(sc, ce)
        BY <2>1 DEF SessionContext, SameInput
    <2>3. Becomes(s, y) /\ UNCHANGED <<coreInstances, coreIDCounter>>
        BY <1>2 DEF x
    <2>4. clientsToRemove \subseteq clientsToRemove' /\ clientsToRemove' \subseteq clientsToRemove \union {s}
        BY <1>2 DEF ShutdownClient
    <2> HIDE DEF y
    <2>5. AnsweredHere(sc, y, ce, line)
        BY <2>2, <2>3 DEF AnsweredHere, Replied
    <2> QED
        BY <2>2, <2>3, <2>4, <2>5 DEF Executed
<1> QED
    BY <1>1, <1>2 DEF CcQuit

LEMMA CreateGraphExecuted ==
    ASSUME NEW s, NEW sc \in SessionContext, NEW ce \in GivenCommand, NEW line \in CommandLine,
           CcCreateGraph(s, sc, ce, line.arg)
    PROVE  \E sc2 : Executed(s, sc, ce, line, sc2)
<1> DEFINE arg == line.arg
           y == ForwardStatusline(sc, ce, FALSE)
<1>0. arg \in STRING /\ SameInput(sc, sc)
    BY DEF CommandLine, SameInput
<1>1. CASE Status(s, sc, ce)
    BY <1>0, <1>1, StatusExecuted
<1>2. CASE /\ FindNamedInstance(arg) = {}
           /\ \/ coreInstances' = [id \in DOMAIN coreInstances \union {coreIDCounter + 1} |->
                                      IF id = coreIDCounter + 1 THEN StartCore(arg)
                                      ELSE coreInstances[id]]
              \/ UNCHANGED coreInstances
           /\ coreIDCounter' = coreIDCounter + 1
           /\ Becomes(s, y) /\ UNCHANGED clientsToRemove
    <2>1. y \in SessionContext /\ SameInput(sc, y) /\ y.coreID = sc.coreID /\ y.replies = Once(sc, ce)
        BY Forwarding
    <2> HIDE DEF y
    <2>2. CoreCreated(sc, y, ce)
        BY <1>0, <1>2, <2>1 DEF CoreCreated, Replied
    <2> QED
        BY <1>2, <2>1, <2>2 DEF Executed
<1> QED
    BY <1>1, <1>2 DEF CcCreateGraph

LEMMA UseGraphExecuted ==
    ASSUME NEW s, NEW sc \in SessionContext, NEW ce \in GivenCommand, NEW line,
           DOMAIN coreInstances \subseteq Nat, CcUseGraph(s, sc, ce, line.arg)
    PROVE  \E sc2 : Executed(s, sc, ce, line, sc2)
<1>1. CASE Status(s, sc, ce)
    BY <1>1, StatusExecuted DEF SameInput
<1>2. ASSUME NEW id \in FindNamedInstance(line.arg), Status(s, [sc EXCEPT !.coreID = id], ce)
      PROVE  \E sc2 : Executed(s, sc, ce, line, sc2)
    <2> DEFINE x == [sc EXCEPT !.coreID = id]
    <2>1. id \in RunningCores /\ id \in Nat
        BY DEF FindNamedInstance, RunningCores
    <2>2. x \in SessionContext /\ SameInput(sc, x) /\ x.coreID = id /\ x.replies = sc.replies
        BY <2>1 DEF SessionContext, SameInput
    <2>3. Status(s, x, ce)
        BY <1>2
    <2> HIDE DEF x
    <2> QED
        BY <2>1, <2>2, <2>3, StatusExecuted
<1> QED
    BY <1>1, <1>2 DEF CcUseGraph

LEMMA DropGraphExecuted ==
    ASSUME NEW s, NEW sc \in SessionContext, NEW ce \in GivenCommand, NEW line,
           ce.word = "drop-graph", CcDropGraph(s, sc, ce, line.arg)
    PROVE  \E sc2 : Executed(s, sc, ce, line, sc2)
<1> DEFINE y == ForwardStatusline(sc, ce, FALSE)
<1>1. CASE Status(s, sc, ce)
    BY <1>1, StatusExecuted DEF SameInput
<1>2. ASSUME NEW id \in FindNamedInstance(line.arg) \ coresToRemove,
             coreInstances' = [coreInstances EXCEPT ![id] = Terminate(@)],
             Becomes(s, y), UNCHANGED <<coreIDCounter, clientsToRemove, statusMessage>>
      PROVE  \E sc2 : Executed(s, sc, ce, line, sc2)
    <2>1. id \in RunningCores
        BY DEF FindNamedInstance, RunningCores
    <2>2. y \in SessionContext /\ SameInput(sc, y) /\ y.coreID = sc.coreID /\ y.replies = Once(sc, ce)
        BY Forwarding
    <2> HIDE DEF y
    <2>3. CoreDropped(sc, y, ce)
        BY <1>2, <2>1, <2>2 DEF CoreDropped, Replied
    <2> QED
        BY <1>2, <2>2, <2>3 DEF Executed
<1> QED
    BY <1>1, <1>2 DEF CcDropGraph

LEMMA ListGraphsExecuted ==
    ASSUME NEW s, NEW sc \in SessionContext, NEW ce \in GivenCommand, NEW line,
           CcListGraphs(s, sc, ce, line.arg)
    PROVE  \E sc2 : Executed(s, sc, ce, line, sc2)
<1> DEFINE x == ForwardStatusline(sc, ce, TRUE)
           y == ForwardDataset(x, TRUE)
<1>1. CASE Status(s, sc, ce)
    BY <1>1, StatusExecuted DEF SameInput
<1>2. CASE Answered(s, y)
    <2>1. x \in SessionContext /\ SameInput(sc, x) /\ x.coreID = sc.coreID /\ x.replies = Once(sc, ce)
        BY Forwarding
    <2> HIDE DEF x
    <2>2. y \in SessionContext /\ SameInput(x, y) /\ y.coreID = x.coreID /\ y.replies = x.replies
        BY <2>1, Forwarding
    <2> HIDE DEF y
    <2>3. SameInput(sc, y) /\ y.coreID = sc.coreID /\ Replied(sc, y, ce)
        BY <2>1, <2>2 DEF SameInput, Replied
    <2> QED
        BY <1>2, <2>2, <2>3, AnsweredExecuted
<1> QED
    BY <1>1, <1>2 DEF CcListGraphs

LEMMA AuthorizeExecuted ==
    ASSUME NEW s, NEW sc \in SessionContext, NEW ce \in GivenCommand, NEW line,
           CcAuthorize(s, sc, ce, line.arg)
    PROVE  \E sc2 : Executed(s, sc, ce, line, sc2)
<1>1. CASE Status(s, sc, ce)
    BY <1>1, StatusExecuted DEF SameInput
<1>2. CASE /\ line.arg \in DOMAIN AccessLevels
           /\ Status(s, [sc EXCEPT !.accessLevel = AccessLevels[line.arg]], ce)
    <2> DEFINE x == [sc EXCEPT !.accessLevel = AccessLevels[line.arg]]
    <2>1. AccessLevels[line.arg] \in 0..2
        BY <1>2 DEF AccessLevels
    <2>2. x \in SessionContext /\ SameInput(sc, x) /\ x.coreID = sc.coreID /\ x.replies = sc.replies
        BY <2>1 DEF SessionContext, SameInput
    <2>3. Status(s, x, ce)
        BY <1>2
    <2> HIDE DEF x
    <2> QED
        BY <2>2, <2>3, StatusExecuted
<1> QED
    BY <1>1, <1>2 DEF CcAuthorize

(* help answers, and the core may have more to say.                         *)
LEMMA HelpExecuted ==
    ASSUME NEW s, NEW sc \in SessionContext, NEW ce \in GivenCommand, NEW line,
           ce.word = "help", CcHelp(s, sc, ce, line.arg)
    PROVE  \E sc2 : Executed(s, sc, ce, line, sc2)
<1> DEFINE x == ForwardStatusline(sc, ce, TRUE)
<1>0. x \in SessionContext /\ SameInput(sc, x) /\ x.coreID = sc.coreID /\ x.replies = Once(sc, ce)
    BY Forwarding
<1>1. CASE Status(s, sc, ce)
    BY <1>1, StatusExecuted DEF SameInput
<1>2. CASE ForwardToCore(s, x, ce, FALSE)
    <2>1. PICK y : Forwarded(s, x, ce, y)
        BY <1>0, <1>2, ForwardToCoreEffect
    <2> HIDE DEF x
    <2>2. SameInput(sc, y)
        BY <1>0, <2>1 DEF Forwarded, SameInput
    <2>3. Once(x, ce) = Append(Once(sc, ce), ReplyTo(ce))
        BY <1>0 DEF Once
    <2>4. AnsweredHere(sc, y, ce, line) \/ GivenToCore(sc, y, ce)
        BY <1>0, <2>1, <2>3 DEF Forwarded, AnsweredHere, GivenToCore, Replied
    <2> QED
        BY <2>1, <2>2, <2>4 DEF Forwarded, Executed
<1>3. ASSUME NEW b \in BOOLEAN, Answered(s, ForwardDataset(x, b))
      PROVE  \E sc2 : Executed(s, sc, ce, line, sc2)
    <2> DEFINE y == ForwardDataset(x, b)
    <2>1. Answered(s, y)
        BY <1>3
    <2> HIDE DEF x
    <2>2. y \in SessionContext /\ SameInput(x, y) /\ y.coreID = x.coreID /\ y.replies = x.replies
        BY <1>0, Forwarding
    <2> HIDE DEF y
    <2>3. SameInput(sc, y) /\ y.coreID = sc.coreID /\ Replied(sc, y, ce)
        BY <1>0, <2>2 DEF SameInput, Replied
    <2> QED
        BY <2>1, <2>2, <2>3, AnsweredExecuted
<1>4. CASE ForwardToCore(s, sc, ce, FALSE)
    BY <1>4, ForwardExecuted
<1> QED
    BY <1>1, <1>2, <1>3, <1>4 DEF CcHelp

LEMMA ShutdownExecuted ==
    ASSUME NEW s, NEW sc \in SessionContext, NEW ce \in GivenCommand, NEW line,
           ce.word = "shutdown", CcShutdown(s, sc, ce, line.arg)
    PROVE  \E sc2 : Executed(s, sc, ce, line, sc2)
<1> DEFINE x == ForwardStatusline(sc, ce, FALSE)
<1>0. x \in SessionContext /\ SameInput(sc, x) /\ x.coreID = sc.coreID /\ x.replies = Once(sc, ce)
    BY Forwarding
<1>1. CASE Becomes(s, x) /\ UNCHANGED <<coreInstances, coreIDCounter, clientsToRemove>>
    <2> HIDE DEF x
    <2>1. AnsweredHere(sc, x, ce, line)
        BY <1>0, <1>1 DEF AnsweredHere, Replied
    <2> QED
        BY <1>0, <1>1, <2>1 DEF Executed
<1>2. CASE /\ FindInstance(sc.coreID)
           /\ coreInstances' = [coreInstances EXCEPT ![sc.coreID] =
                                    NotRunning(FlushCommandQ(QueueCommand(@, ce)))]
           /\ Becomes(s, [AfterShutdown(sc, ce) EXCEPT !.shutdown = @ \/ EmptyStatusShutsDown(sc)])
           /\ UNCHANGED clientsToRemove \/ ShutdownClient(s)
           /\ UNCHANGED <<coreIDCounter, statusMessage>>
    <2> DEFINE z == AfterShutdown(sc, ce)
               y == [z EXCEPT !.shutdown = @ \/ EmptyStatusShutsDown(sc)]
    <2>1. /\ z \in SessionContext /\ SameInput(sc, z) /\ z.coreID = sc.coreID
          /\ z.replies \in {sc.replies, Once(sc, ce)}
        <3>1. CASE statusMessage = ""
            <4>1. (IF sc.connectionType = "HTTP" THEN sc.commandsExecuted + 1 ELSE sc.commandsExecuted) \in Nat
                BY DEF SessionContext
            <4>2. z \in SessionContext
                BY <3>1, <4>1 DEF AfterShutdown, SessionContext
            <4> QED
                BY <3>1, <4>2 DEF AfterShutdown, SessionContext, SameInput
        <3>2. CASE statusMessage # ""
            BY <1>0, <3>2 DEF AfterShutdown
        <3> QED
            BY <3>1, <3>2
    <2>2. (z.shutdown \/ EmptyStatusShutsDown(sc)) \in BOOLEAN
        OBVIOUS
    <2>3. Becomes(s, y)
        BY <1>2
    <2> HIDE DEF z
    <2>4. y \in SessionContext /\ SameInput(z, y) /\ y.coreID = z.coreID /\ y.replies = z.replies
        BY <2>1, <2>2 DEF SessionContext, SameInput
    <2> HIDE DEF y
    <2>5. SameInput(sc, y) /\ GivenToCore(sc, y, ce)
        BY <1>2, <2>1, <2>4 DEF SameInput, GivenToCore
    <2>6. clientsToRemove \subseteq clientsToRemove' /\ clientsToRemove' \subseteq clientsToRemove \union {s}
        BY <1>2 DEF ShutdownClient
    <2> QED
        BY <1>2, <2>3, <2>4, <2>5, <2>6 DEF Executed
<1> QED
    BY <1>1, <1>2 DEF CcShutdown

-----------------------------------------------------------------------------
(* Whatever command a session gives.                                        *)
LEMMA ServerCommandExecuted ==
    ASSUME NEW s, NEW sc \in SessionContext, NEW ce \in GivenCommand, NEW line \in CommandLine,
           DOMAIN coreInstances \subseteq Nat, ExecuteServerCommand(s, sc, ce, line.arg)
    PROVE  \E sc2 : Executed(s, sc, ce, line, sc2)
<1>1. CASE Status(s, sc, ce)
    BY <1>1, StatusExecuted DEF SameInput
<1>2. CASE ce.word = "quit" /\ CcQuit(s, sc, ce, line.arg)
    BY <1>2, QuitExecuted
<1>3. CASE CcCreateGraph(s, sc, ce, line.arg)
    BY <1>3, CreateGraphExecuted
<1>4. CASE CcUseGraph(s, sc, ce, line.arg)
    BY <1>4, UseGraphExecuted
<1>5. CASE ce.word = "drop-graph" /\ CcDropGraph(s, sc, ce, line.arg)
    BY <1>5, DropGraphExecuted
<1>6. CASE CcListGraphs(s, sc, ce, line.arg)
    BY <1>6, ListGraphsExecuted
<1>7. CASE CcAuthorize(s, sc, ce, line.arg)
    BY <1>7, AuthorizeExecuted
<1>8. CASE ce.word = "help" /\ CcHelp(s, sc, ce, line.arg)
    BY <1>8, HelpExecuted
<1>9. CASE ce.word = "shutdown" /\ CcShutdown(s, sc, ce, line.arg)
    BY <1>9, ShutdownExecuted
<1> QED
    BY <1>1, <1>2, <1>3, <1>4, <1>5, <1>6, <1>7, <1>8, <1>9 DEF ExecuteServerCommand, CcProtocolVersion

LEMMA CommandExecuted ==
    ASSUME NEW s, NEW sc \in SessionContext, NEW ce \in GivenCommand, NEW line \in CommandLine,
           DOMAIN coreInstances \subseteq Nat, ProcessCommand(s, sc, ce, line)
    PROVE  \E sc2 : Executed(s, sc, ce, line, sc2)
<1>1. CASE ce.word = Blank /\ Answered(s, sc)
    <2>1. Silent(ce, line) /\ SameInput(sc, sc)
        BY <1>1 DEF Silent, SameInput
    <2> QED
        BY <1>1, <2>1, AnsweredExecuted
<1>2. CASE Status(s, sc, ce)
    BY <1>2, StatusExecuted DEF SameInput
<1>3. CASE ExecuteServerCommand(s, sc, ce, line.arg)
    BY <1>3, ServerCommandExecuted
<1>4. CASE ForwardToCore(s, sc, ce, line.redir)
    BY <1>4, ForwardExecuted
<1>5. CASE Answered(s, CommandNotFound(sc, ce))
    <2> DEFINE y == CommandNotFound(sc, ce)
    <2>1. y \in SessionContext /\ SameInput(sc, y) /\ y.coreID = sc.coreID /\ y.replies = Once(sc, ce)
        BY Forwarding
    <2>2. Answered(s, y)
        BY <1>5
    <2> HIDE DEF y
    <2> QED
        BY <2>1, <2>2, AnsweredExecuted DEF Replied
<1> QED
    BY <1>1, <1>2, <1>3, <1>4, <1>5 DEF ProcessCommand

-----------------------------------------------------------------------------
(* The parts of Inv, as the steps change them: what one session holds, what *)
(* one core may become, and to whom cores owe replies.                      *)
WF(c) == WellFormed(STRING, SessionIDs, GivenCommand, c)

DueTo(c, s) == \E i \in DOMAIN RepliesDue(c) : RepliesDue(c)[i].clientID = s

OnceDue(c, s) ==
    \A i, j \in DOMAIN RepliesDue(c) :
        RepliesDue(c)[i].clientID = s /\ RepliesDue(c)[j].clientID = s => i = j

\* No running core owes session s a reply.
Idle(s) == \A id \in RunningCores : ~DueTo(coreInstances[id], s)

\* Session s, which has read n lines, when k cores have been created.
SessionOK(s, sc, n, k) ==
    /\ sc \in SessionContext /\ sc.coreID <= k
    /\ sc.lineQueue \in Seq(1..n)
    /\ sc.curCommand # NoCommand => sc.curCommand.clientID = s /\ sc.curCommand.tag \in 1..n
    /\ \A i \in DOMAIN sc.replies : sc.replies[i].clientID = s

SessionPart ==
    /\ sessionIDCounter \in Nat /\ 1..sessionIDCounter \subseteq SessionIDs
    /\ DOMAIN sessionContexts \subseteq 1..sessionIDCounter
    /\ closed \union clientsToRemove \subseteq 1..sessionIDCounter
    /\ lines \in [SessionIDs -> Seq(CommandLine)] /\ linesRead \in [SessionIDs -> Nat]
    /\ \A s \in SessionIDs : linesRead[s] <= Len(lines[s])
    /\ \A s \in DOMAIN sessionContexts : SessionOK(s, sessionContexts[s], linesRead[s], coreIDCounter)

CorePart ==
    /\ coreIDCounter \in Nat /\ DOMAIN coreInstances \subseteq 1..coreIDCounter
    /\ \A id \in DOMAIN coreInstances :
           /\ WF(coreInstances[id])
           /\ \A s : DueTo(coreInstances[id], s) => s \in 1..sessionIDCounter
    /\ RunningNamesUnique

LoopPart ==
    /\ readyClients \subseteq DOMAIN sessionContexts
    /\ readyCores \union coresToRemove \subseteq DOMAIN coreInstances
    /\ drained \in DOMAIN sessionContexts \union {NoClient}
    /\ ~inIteration => readyClients \union readyCores \union coresToRemove = {} /\ drained = NoClient
    /\ DrainedAlone

FlightPart ==
    \A s \in Tcp, id \in RunningCores :
        DueTo(coreInstances[id], s) =>
            /\ sessionContexts[s].coreID = id /\ sessionContexts[s].curCommand = NoCommand
            /\ OnceDue(coreInstances[id], s)

Parts == SessionPart /\ CorePart /\ LoopPart /\ FlightPart

(* Core d is what core c may become without a command being given to it.    *)
Quieter(c, d) ==
    /\ WF(d) /\ d.name = c.name /\ (d.processRunning => c.processRunning)
    /\ \A s : (DueTo(d, s) => DueTo(c, s)) /\ (OnceDue(c, s) => OnceDue(d, s))

\* And with a command of session s0.
Given(c, d, s0) ==
    /\ WF(d) /\ d.name = c.name /\ (d.processRunning => c.processRunning)
    /\ \A s : DueTo(d, s) => DueTo(c, s) \/ s = s0
    /\ \A s : OnceDue(c, s) /\ (s = s0 => ~DueTo(c, s)) => OnceDue(d, s)

\* What a step does to the cores: session s0 gives core k a command, if any.
CoresMove(k, s0) ==
    /\ coreIDCounter' \in Nat /\ coreIDCounter <= coreIDCounter'
    /\ \A id \in DOMAIN coreInstances' :
          \/ id \in DOMAIN coreInstances /\ Quieter(coreInstances[id], coreInstances'[id])
          \/ /\ id = k /\ id \in DOMAIN coreInstances
             /\ Given(coreInstances[id], coreInstances'[id], s0)
          \/ /\ id = coreIDCounter + 1 /\ coreIDCounter' = coreIDCounter + 1
             /\ \E name \in STRING :
                   FindNamedInstance(name) = {} /\ coreInstances'[id] = StartCore(name)

(* Inv consists of these parts.                                             *)
LEMMA InvParts == Inv <=> Parts
<1>0. \A c : WF(c) <=> c \in CoreRecords(STRING, SessionIDs, GivenCommand) /\ OneReply(c) /\ PipeLines(c)
    <2>1. \A ce \in GivenCommand : ce.clientID \in SessionIDs
        BY DEF GivenCommand
    <2> QED
        BY <2>1 DEF WF, WellFormed
<1>1. ASSUME CoresTyped, CoresInStep PROVE \A id \in DOMAIN coreInstances : WF(coreInstances[id])
    BY <1>0, <1>1 DEF CoresTyped, CoresInStep
<1>7. ASSUME \A id \in DOMAIN coreInstances : WF(coreInstances[id]) PROVE CoresTyped /\ CoresInStep
    BY <1>0, <1>7 DEF CoresTyped, CoresInStep
<1>2. DueToKnown <=> \A id \in DOMAIN coreInstances : \A s :
                        DueTo(coreInstances[id], s) => s \in 1..sessionIDCounter
    BY DEF DueToKnown, DueTo
<1>3. ASSUME InFlight PROVE FlightPart
    <2> SUFFICES ASSUME NEW s \in Tcp, NEW id \in RunningCores, DueTo(coreInstances[id], s)
                 PROVE  /\ sessionContexts[s].coreID = id /\ sessionContexts[s].curCommand = NoCommand
                        /\ OnceDue(coreInstances[id], s)
        BY DEF FlightPart
    <2> DEFINE r == RepliesDue(coreInstances[id])
    <2>1. \A i \in DOMAIN r : r[i].clientID = s =>
              /\ sessionContexts[s].coreID = id /\ sessionContexts[s].curCommand = NoCommand
              /\ \A j \in DOMAIN r : r[j].clientID = s => j = i
        BY <1>3 DEF InFlight
    <2>2. \E i \in DOMAIN r : r[i].clientID = s
        BY DEF DueTo
    <2>3. OnceDue(coreInstances[id], s) <=>
              \A i, j \in DOMAIN r : r[i].clientID = s /\ r[j].clientID = s => i = j
        BY DEF OnceDue
    <2> HIDE DEF r
    <2> QED
        BY <2>1, <2>2, <2>3
<1>8. ASSUME FlightPart PROVE InFlight
    <2> SUFFICES ASSUME NEW s \in Tcp, NEW id \in RunningCores,
                        NEW i \in DOMAIN RepliesDue(coreInstances[id]),
                        RepliesDue(coreInstances[id])[i].clientID = s
                 PROVE  /\ sessionContexts[s].coreID = id /\ sessionContexts[s].curCommand = NoCommand
                        /\ \A j \in DOMAIN RepliesDue(coreInstances[id]) :
                               RepliesDue(coreInstances[id])[j].clientID = s => j = i
        BY DEF InFlight
    <2>1. DueTo(coreInstances[id], s)
        BY DEF DueTo
    <2>2. /\ sessionContexts[s].coreID = id /\ sessionContexts[s].curCommand = NoCommand
          /\ OnceDue(coreInstances[id], s)
        BY <1>8, <2>1 DEF FlightPart
    <2> QED
        BY <2>2 DEF OnceDue
<1>4. ASSUME NEW c, WF(c)
      PROVE  c.commandQ \in Seq(Entry) /\ c.lastClientID \in SessionIDs \union {NoClient}
    <2>1. GivenCommand \subseteq Entry
        BY DEF GivenCommand
    <2> QED
        BY <1>4, <2>1 DEF WF, WellFormed, CoreRecords
<1>5. ASSUME Inv PROVE Parts
    <2>1. CorePart
        BY <1>1, <1>2, <1>5 DEF Inv, TypeOK, CountersTyped, CorePart
    <2>2. LoopPart
        BY <1>5 DEF Inv, TypeOK, LoopPart
    <2>3. ASSUME NEW s \in DOMAIN sessionContexts
          PROVE  SessionOK(s, sessionContexts[s], linesRead[s], coreIDCounter)
        BY <1>5 DEF Inv, TypeOK, InputHeld, RepliesRouted, SessionOK
    <2>4. ASSUME NEW s \in SessionIDs PROVE linesRead[s] <= Len(lines[s])
        BY <1>5 DEF Inv, TypeOK
    <2>5. SessionPart
        BY <1>5, <2>3, <2>4 DEF Inv, TypeOK, CountersTyped, SessionPart
    <2> QED
        BY <1>3, <1>5, <2>1, <2>2, <2>5 DEF Inv, Parts
<1>6. ASSUME Parts PROVE Inv
    <2>1. ASSUME NEW s \in SessionIDs PROVE linesRead[s] \in 0..Len(lines[s])
        <3>1. linesRead[s] \in Nat /\ linesRead[s] <= Len(lines[s]) /\ lines[s] \in Seq(CommandLine)
            BY <1>6 DEF Parts, SessionPart
        <3>2. Len(lines[s]) \in Nat
            BY <3>1
        <3> QED
            BY <3>1, <3>2
    <2>2. ASSUME NEW s \in DOMAIN sessionContexts
          PROVE  SessionOK(s, sessionContexts[s], linesRead[s], coreIDCounter)
        BY <1>6 DEF Parts, SessionPart
    <2>3. InputHeld /\ RepliesRouted
        BY <2>2 DEF InputHeld, RepliesRouted, SessionOK
    <2>4. ASSUME NEW s \in DOMAIN sessionContexts
          PROVE  sessionContexts[s] \in SessionContext /\ sessionContexts[s].coreID <= coreIDCounter
        BY <2>2 DEF SessionOK
    <2>5. TypeOK
        BY <1>4, <1>6, <2>1, <2>4 DEF Parts, SessionPart, CorePart, LoopPart, TypeOK
    <2>6. CountersTyped
        BY <1>6 DEF Parts, SessionPart, CorePart, CountersTyped
    <2> QED
        BY <1>2, <1>6, <1>7, <1>8, <2>3, <2>5, <2>6
        DEF Parts, SessionPart, CorePart, LoopPart, Inv
<1> QED
    BY <1>5, <1>6

-----------------------------------------------------------------------------
(* What the operators of CoreInstance make of a core, in these terms.       *)
LEMMA SameDueQuieter ==
    ASSUME NEW c, NEW d, WF(d), d.name = c.name, d.processRunning => c.processRunning,
           RepliesDue(d) = RepliesDue(c)
    PROVE  Quieter(c, d)
BY DEF Quieter, DueTo, OnceDue

LEMMA QuietOperators ==
    ASSUME NEW c, WF(c)
    PROVE  /\ Quieter(c, c) /\ Quieter(c, FlushCommandQ(c))
           /\ Quieter(c, Terminate(c)) /\ Quieter(c, Exit(c))
           /\ \A b \in BOOLEAN : CanAnswer(c) => Quieter(c, Answer(c, b))
           /\ \A b \in BOOLEAN : CanContinue(c) => Quieter(c, Continue(c, b))
<1>0. c \in CoreRecords(STRING, SessionIDs, GivenCommand)
    BY DEF WF, WellFormed
<1>1. Quieter(c, c)
    BY SameDueQuieter
<1>2. Quieter(c, FlushCommandQ(c))
    <2>1. WF(FlushCommandQ(c)) /\ RepliesDue(FlushCommandQ(c)) = RepliesDue(c)
        BY FlushWellFormed, FlushDue DEF WF
    <2>2. FlushCommandQ(c).name = c.name /\ FlushCommandQ(c).processRunning = c.processRunning
        BY <1>0 DEF FlushCommandQ, WriteFirst, CoreRecords
    <2> QED
        BY <2>1, <2>2, SameDueQuieter
<1>3. Quieter(c, Terminate(c))
    <2>1. WF(Terminate(c)) /\ RepliesDue(Terminate(c)) = RepliesDue(c)
        BY TerminateWellFormed, QuietDue DEF WF
    <2>2. Terminate(c).name = c.name /\ Terminate(c).processRunning = FALSE
        BY <1>0 DEF Terminate, CoreRecords
    <2> QED
        BY <2>1, <2>2, SameDueQuieter
<1>4. Quieter(c, Exit(c))
    <2>1. WF(Exit(c)) /\ RepliesDue(Exit(c)) = RepliesDue(c)
        BY ExitWellFormed, QuietDue DEF WF
    <2>2. Exit(c).name = c.name /\ Exit(c).processRunning = c.processRunning
        BY <1>0 DEF Exit, CoreRecords
    <2> QED
        BY <2>1, <2>2, SameDueQuieter
<1>5. ASSUME NEW b \in BOOLEAN, CanAnswer(c) PROVE Quieter(c, Answer(c, b))
    <2>1. WF(Answer(c, b))
        BY <1>5, AnswerWellFormed DEF WF
    <2>2. RepliesDue(Answer(c, b)) = RepliesDue(c)
        BY <1>5, QuietDue DEF WF
    <2>3. Answer(c, b).name = c.name /\ Answer(c, b).processRunning = c.processRunning
        BY <1>0 DEF Answer, FinishCommand, CoreRecords
    <2> QED
        BY <2>1, <2>2, <2>3, SameDueQuieter
<1>6. ASSUME NEW b \in BOOLEAN, CanContinue(c) PROVE Quieter(c, Continue(c, b))
    <2>1. WF(Continue(c, b))
        BY <1>6, ContinueWellFormed DEF WF
    <2>2. RepliesDue(Continue(c, b)) = RepliesDue(c)
        BY <1>6, QuietDue DEF WF
    <2>3. Continue(c, b).name = c.name /\ Continue(c, b).processRunning = c.processRunning
        BY <1>0 DEF Continue, FinishCommand, CoreRecords
    <2> QED
        BY <2>1, <2>2, <2>3, SameDueQuieter
<1> QED
    BY <1>1, <1>2, <1>3, <1>4, <1>5, <1>6

(* Reading a line can only take the first reply off what is due.            *)
LEMMA ReadQuieter ==
    ASSUME NEW c, WF(c), c.fromCore # <<>>
    PROVE  Quieter(c, LineFromCore(c)) /\ Head(c.fromCore).cmd \in GivenCommand
           /\ Head(c.fromCore).cmd.clientID = c.lastClientID
           /\ Head(c.fromCore).colon \in BOOLEAN /\ Head(c.fromCore).blank \in BOOLEAN
<1> DEFINE d == LineFromCore(c)
           r == RepliesDue(c)
<1>0. c \in CoreRecords(STRING, SessionIDs, GivenCommand)
    BY DEF WF, WellFormed
<1>1. WF(d)
    BY ReadWellFormed DEF WF
<1>2. d.name = c.name /\ d.processRunning = c.processRunning
    BY <1>0 DEF LineFromCore, CoreRecords
<1>3. r \in Seq(GivenCommand) /\ r # <<>> /\ RepliesDue(d) \in {r, Tail(r)}
    BY ReadDue, RepliesDueType DEF WF
<1>4. ASSUME RepliesDue(d) = r PROVE Quieter(c, d)
    BY <1>1, <1>2, <1>4, SameDueQuieter
<1>5. ASSUME RepliesDue(d) = Tail(r) PROVE Quieter(c, d)
    <2>1. \A i \in DOMAIN Tail(r) : i + 1 \in DOMAIN r /\ Tail(r)[i] = r[i + 1] /\ i \in Nat
        BY <1>3
    <2> HIDE DEF d, r
    <2>2. ASSUME NEW s, DueTo(d, s) PROVE DueTo(c, s)
        BY <1>5, <2>1, <2>2 DEF DueTo, r
    <2>3. ASSUME NEW s, OnceDue(c, s) PROVE OnceDue(d, s)
        <3> SUFFICES ASSUME NEW i \in DOMAIN Tail(r), NEW j \in DOMAIN Tail(r),
                            Tail(r)[i].clientID = s, Tail(r)[j].clientID = s
                     PROVE  i = j
            BY <1>5 DEF OnceDue
        <3>1. i + 1 \in DOMAIN r /\ j + 1 \in DOMAIN r /\ r[i + 1].clientID = s /\ r[j + 1].clientID = s
            BY <2>1
        <3>2. i + 1 = j + 1
            BY <2>3, <3>1 DEF OnceDue, r
        <3> QED
            BY <2>1, <3>2
    <2> QED
        BY <1>1, <1>2, <2>2, <2>3 DEF Quieter
<1>6. Head(c.fromCore) \in OutputLines(GivenCommand) /\ Head(c.fromCore) = c.fromCore[1]
      /\ 1 \in 1..Len(c.fromCore)
    BY <1>0 DEF CoreRecords
<1>7. Head(c.fromCore).cmd.clientID = c.lastClientID
    BY <1>6 DEF WF, WellFormed, PipeLines
<1> QED
    BY <1>3, <1>4, <1>5, <1>6, <1>7 DEF OutputLines

(* A command given to a core is the only reply that may become due.         *)
LEMMA GivenOperators ==
    ASSUME NEW c, WF(c), NEW ce \in GivenCommand
    PROVE  LET d == FlushCommandQ(QueueCommand(c, ce))
           IN  Given(c, d, ce.clientID) /\ Given(c, NotRunning(d), ce.clientID)
<1> DEFINE q == QueueCommand(c, ce)
           d == FlushCommandQ(q)
           e == NotRunning(d)
           r == RepliesDue(c)
<1>1. WF(q)
    BY QueueWellFormed DEF WF
<1>2. RepliesDue(q) = Append(r, ce)
    BY QueueDue DEF WF
<1>3. r \in Seq(GivenCommand)
    BY RepliesDueType DEF WF
<1>4. q.name = c.name /\ q.processRunning = c.processRunning
    BY DEF QueueCommand, WF, WellFormed, CoreRecords
<1> HIDE DEF q
<1>5. WF(d) /\ RepliesDue(d) = Append(r, ce)
    BY <1>1, <1>2, FlushWellFormed, FlushDue DEF WF
<1>6. d.name = c.name /\ d.processRunning = c.processRunning
    BY <1>1, <1>4 DEF FlushCommandQ, WriteFirst, WF, WellFormed, CoreRecords
<1> HIDE DEF d
<1>7. WF(e)
    BY <1>5, NotRunningWellFormed DEF WF
<1>8. RepliesDue(e) = Append(r, ce)
    BY <1>5, QuietDue DEF WF
<1>9. e.name = c.name /\ e.processRunning = FALSE
    BY <1>5, <1>6 DEF NotRunning, WF, WellFormed, CoreRecords
<1> HIDE DEF e, r
<1>10. ASSUME NEW x, WF(x), RepliesDue(x) = Append(r, ce), x.name = c.name,
              x.processRunning => c.processRunning
       PROVE  Given(c, x, ce.clientID)
    <2>1. /\ DOMAIN r = 1..Len(r) /\ DOMAIN Append(r, ce) = 1..(Len(r) + 1) /\ Len(r) \in Nat
          /\ \A i \in 1..Len(r) : Append(r, ce)[i] = r[i]
          /\ Append(r, ce)[Len(r) + 1] = ce
        BY <1>3
    <2>2. \A i \in 1..(Len(r) + 1) : i \in 1..Len(r) \/ i = Len(r) + 1
        BY <2>1
    <2>3. ASSUME NEW s, DueTo(x, s) PROVE DueTo(c, s) \/ s = ce.clientID
        BY <1>10, <2>1, <2>2, <2>3 DEF DueTo, r
    <2>4. ASSUME NEW s, OnceDue(c, s), s = ce.clientID => ~DueTo(c, s) PROVE OnceDue(x, s)
        <3> SUFFICES ASSUME NEW i \in DOMAIN Append(r, ce), NEW j \in DOMAIN Append(r, ce),
                            Append(r, ce)[i].clientID = s, Append(r, ce)[j].clientID = s
                     PROVE  i = j
            BY <1>10 DEF OnceDue
        <3>1. \A k \in DOMAIN r : r[k].clientID # s \/ s # ce.clientID
            BY <2>4 DEF DueTo, r
        <3>2. \A k, l \in DOMAIN r : r[k].clientID = s /\ r[l].clientID = s => k = l
            BY <2>4 DEF OnceDue, r
        <3> QED
            BY <2>1, <2>2, <3>1, <3>2
    <2> QED
        BY <1>10, <2>3, <2>4 DEF Given
<1> QED
    BY <1>5, <1>6, <1>7, <1>8, <1>9, <1>10 DEF d, e, q

(* A core that has just been started owes nothing.                          *)
LEMMA StartQuiet ==
    ASSUME NEW name \in STRING
    PROVE  /\ WF(StartCore(name)) /\ StartCore(name).name = name
           /\ \A s : ~DueTo(StartCore(name), s)
<1>1. \A ce \in GivenCommand : ce.clientID \in SessionIDs
    BY DEF GivenCommand
<1>2. WF(StartCore(name))
    BY <1>1, StartWellFormed DEF WF
<1>3. RepliesDue(StartCore(name)) = <<>>
    BY StartDue
<1>4. \A s : ~DueTo(StartCore(name), s)
    BY <1>3 DEF DueTo
<1>5. StartCore(name).name = name
    BY DEF StartCore
<1> QED
    BY <1>2, <1>4, <1>5

-----------------------------------------------------------------------------
(* However the cores move, they stay well formed, no two running ones have  *)
(* one name, and what they owe they owe to sessions that have existed.      *)
LEMMA CoresKept ==
    ASSUME CorePart, NEW k, NEW s0, CoresMove(k, s0),
           sessionIDCounter \in Nat, sessionIDCounter' \in Nat, sessionIDCounter <= sessionIDCounter',
           k \in DOMAIN coreInstances => s0 \in 1..sessionIDCounter
    PROVE  CorePart'
<1>1. ASSUME NEW id \in DOMAIN coreInstances'
      PROVE  /\ id \in 1..coreIDCounter' /\ WF(coreInstances'[id])
             /\ \A s : DueTo(coreInstances'[id], s) => s \in 1..sessionIDCounter'
    <2>1. CASE /\ id \in DOMAIN coreInstances
               /\ Quieter(coreInstances[id], coreInstances'[id])
                  \/ (id = k /\ Given(coreInstances[id], coreInstances'[id], s0))
        <3>1. id \in 1..coreIDCounter' /\ WF(coreInstances'[id])
            BY <2>1 DEF CorePart, CoresMove, Quieter, Given
        <3>2. ASSUME NEW s, DueTo(coreInstances'[id], s) PROVE s \in 1..sessionIDCounter
            BY <2>1, <3>2 DEF CorePart, Quieter, Given
        <3> QED
            BY <3>1, <3>2
    <2>2. CASE /\ id = coreIDCounter + 1 /\ coreIDCounter' = coreIDCounter + 1
               /\ \E name \in STRING :
                     FindNamedInstance(name) = {} /\ coreInstances'[id] = StartCore(name)
        BY <2>2, StartQuiet DEF CorePart
    <2> QED
        BY <1>1, <2>1, <2>2 DEF CoresMove
<1>2. ASSUME NEW i \in RunningCores', NEW j \in RunningCores', i # j,
             coreInstances'[i].name = coreInstances'[j].name
      PROVE  FALSE
    <2> DEFINE Old(id) == /\ id \in RunningCores /\ coreInstances'[id].name = coreInstances[id].name
               New(id) == /\ id = coreIDCounter + 1
                          /\ FindNamedInstance(coreInstances'[id].name) = {}
    <2>1. ASSUME NEW id \in RunningCores' PROVE Old(id) \/ New(id)
        <3>1. id \in DOMAIN coreInstances' /\ coreInstances'[id].processRunning
            BY DEF RunningCores
        <3>2. CASE /\ id \in DOMAIN coreInstances
                   /\ \/ Quieter(coreInstances[id], coreInstances'[id])
                      \/ Given(coreInstances[id], coreInstances'[id], s0)
            BY <3>1, <3>2 DEF Quieter, Given, RunningCores
        <3>3. CASE /\ id = coreIDCounter + 1
                   /\ \E name \in STRING :
                         FindNamedInstance(name) = {} /\ coreInstances'[id] = StartCore(name)
            BY <3>3, StartQuiet
        <3> QED
            BY <3>1, <3>2, <3>3 DEF CoresMove
    <2>2. CASE Old(i) /\ Old(j)
        BY <1>2, <2>2 DEF CorePart, RunningNamesUnique
    <2>3. ASSUME NEW x, NEW y, Old(x), New(y), coreInstances'[x].name = coreInstances'[y].name PROVE FALSE
        BY <2>3 DEF RunningCores, FindNamedInstance
    <2>4. Old(i) \/ New(i)
        BY <2>1
    <2>5. Old(j) \/ New(j)
        BY <2>1
    <2>6. ~(New(i) /\ New(j))
        BY <1>2
    <2> HIDE DEF Old, New
    <2> QED
        BY <1>2, <2>2, <2>3, <2>4, <2>5, <2>6
<1>3. RunningNamesUnique'
    BY <1>2 DEF RunningNamesUnique
<1>4. coreIDCounter' \in Nat
    BY DEF CoresMove
<1> QED
    BY <1>1, <1>3, <1>4 DEF CorePart

(* A running core keeps owing a TCP session one reply at most: a session    *)
(* stays as it is or is owed nothing, and only one to which nothing is due  *)
(* gives a command.                                                         *)
LEMMA FlightKept ==
    ASSUME CorePart, FlightPart, NEW k, NEW s0, CoresMove(k, s0),
           \A s \in Tcp' :
               \/ /\ s # s0 \/ k \notin DOMAIN coreInstances
                  /\ \/ Idle(s)
                     \/ /\ s \in Tcp /\ sessionContexts'[s].coreID = sessionContexts[s].coreID
                        /\ sessionContexts'[s].curCommand = sessionContexts[s].curCommand
               \/ /\ Idle(s) /\ sessionContexts'[s].coreID = k
                  /\ sessionContexts'[s].curCommand = NoCommand
    PROVE  FlightPart'
<1> SUFFICES ASSUME NEW s \in Tcp', NEW id \in RunningCores', DueTo(coreInstances'[id], s)
             PROVE  /\ sessionContexts'[s].coreID = id /\ sessionContexts'[s].curCommand = NoCommand
                    /\ OnceDue(coreInstances'[id], s)
    BY DEF FlightPart
<1> DEFINE c == coreInstances[id]
           d == coreInstances'[id]
<1>0. id \in DOMAIN coreInstances' /\ d.processRunning
    BY DEF RunningCores
<1>1. CASE id \in DOMAIN coreInstances /\ Quieter(c, d)
    <2>1. id \in RunningCores /\ DueTo(c, s) /\ ~Idle(s)
        BY <1>0, <1>1 DEF Quieter, RunningCores, Idle
    <2>2. /\ s \in Tcp /\ sessionContexts'[s].coreID = sessionContexts[s].coreID
          /\ sessionContexts'[s].curCommand = sessionContexts[s].curCommand
        BY <2>1
    <2>3. /\ sessionContexts[s].coreID = id /\ sessionContexts[s].curCommand = NoCommand
          /\ OnceDue(c, s)
        BY <2>1, <2>2 DEF FlightPart
    <2> QED
        BY <1>1, <2>2, <2>3 DEF Quieter
<1>2. CASE id = k /\ id \in DOMAIN coreInstances /\ Given(c, d, s0)
    <2>1. id \in RunningCores
        BY <1>0, <1>2 DEF Given, RunningCores
    <2>2. CASE Idle(s) /\ sessionContexts'[s].coreID = k /\ sessionContexts'[s].curCommand = NoCommand
        <3>1. ~DueTo(c, s)
            BY <2>1, <2>2 DEF Idle
        <3>2. OnceDue(c, s)
            BY <3>1 DEF DueTo, OnceDue
        <3> QED
            BY <1>2, <2>2, <3>1, <3>2 DEF Given
    <2>3. CASE s # s0
        <3>1. DueTo(c, s) /\ ~Idle(s)
            BY <1>2, <2>1, <2>3 DEF Given, Idle
        <3>2. /\ s \in Tcp /\ sessionContexts'[s].coreID = sessionContexts[s].coreID
              /\ sessionContexts'[s].curCommand = sessionContexts[s].curCommand
            BY <3>1
        <3>3. /\ sessionContexts[s].coreID = id /\ sessionContexts[s].curCommand = NoCommand
              /\ OnceDue(c, s)
            BY <2>1, <3>1, <3>2 DEF FlightPart
        <3> QED
            BY <1>2, <2>3, <3>2, <3>3 DEF Given
    <2> QED
        BY <1>2, <2>2, <2>3
<1>3. CASE \E name \in STRING : d = StartCore(name)
    BY <1>3, StartQuiet
<1> QED
    BY <1>0, <1>1, <1>2, <1>3 DEF CoresMove

(* A TCP session that waits for no core, or that collects a data set, is    *)
(* owed nothing.                                                            *)
LEMMA IdleSession ==
    ASSUME CorePart, FlightPart, NEW s \in Tcp,
           sessionContexts[s].curCommand # NoCommand \/ ~WaitingForCore(s, sessionContexts[s])
    PROVE  Idle(s)
<1> SUFFICES ASSUME NEW id \in RunningCores, DueTo(coreInstances[id], s)
             PROVE  FALSE
    BY DEF Idle
<1>1. sessionContexts[s].coreID = id /\ sessionContexts[s].curCommand = NoCommand
    BY DEF FlightPart
<1>2. WF(coreInstances[id]) /\ FindInstance(id)
    BY DEF RunningCores, CorePart, FindInstance
<1>3. RepliesDue(coreInstances[id]) \in Seq(GivenCommand)
    BY <1>2, RepliesDueType DEF WF
<1>4. \E i \in 1..Len(RepliesDue(coreInstances[id])) : RepliesDue(coreInstances[id])[i].clientID = s
    BY <1>3 DEF DueTo
<1>5. HasDataForClient(coreInstances[id], s)
    BY <1>2, <1>4, DueToClient DEF WF
<1> QED
    BY <1>1, <1>2, <1>5 DEF WaitingForCore

-----------------------------------------------------------------------------
(* Executing a command moves the cores, and gives one of them a command     *)
(* only as the core the session uses.                                       *)
LEMMA ExecutedCores ==
    ASSUME CorePart, NEW s, NEW sc, NEW ce \in GivenCommand, NEW line, NEW sc2,
           ce.clientID = s, Executed(s, sc, ce, line, sc2)
    PROVE  /\ DOMAIN coreInstances \subseteq DOMAIN coreInstances'
           /\ \E k : CoresMove(k, s) /\ (k \in DOMAIN coreInstances => sc2.coreID = k)
<1>0. /\ coreIDCounter \in Nat /\ 0 \notin DOMAIN coreInstances
      /\ \A id \in DOMAIN coreInstances : WF(coreInstances[id])
    BY DEF CorePart
<1>q. \A id \in DOMAIN coreInstances :
          Quieter(coreInstances[id], coreInstances[id]) /\ Quieter(coreInstances[id], Terminate(coreInstances[id]))
    BY <1>0, QuietOperators
<1>1. CASE AnsweredHere(sc, sc2, ce, line)
    <2>1. CoresMove(0, s)
        BY <1>0, <1>q, <1>1 DEF AnsweredHere, CoresMove
    <2> QED
        BY <1>0, <1>1, <2>1 DEF AnsweredHere
<1>2. CASE GivenToCore(sc, sc2, ce)
    <2> DEFINE k == sc.coreID
               d == FlushCommandQ(QueueCommand(coreInstances[k], ce))
    <2>1. k \in DOMAIN coreInstances /\ sc2.coreID = k /\ UNCHANGED coreIDCounter
        BY <1>2 DEF GivenToCore, FindInstance
    <2>2. Given(coreInstances[k], d, s) /\ Given(coreInstances[k], NotRunning(d), s)
        BY <1>0, <2>1, GivenOperators
    <2>3. \E x \in {d, NotRunning(d)} : coreInstances' = [coreInstances EXCEPT ![k] = x]
        BY <1>2 DEF GivenToCore
    <2> HIDE DEF k, d
    <2>4. PICK x : coreInstances' = [coreInstances EXCEPT ![k] = x] /\ Given(coreInstances[k], x, s)
        BY <2>2, <2>3
    <2>5. CoresMove(k, s)
        BY <1>0, <1>q, <2>1, <2>4 DEF CoresMove
    <2> QED
        BY <2>1, <2>4, <2>5
<1>3. CASE CoreCreated(sc, sc2, ce)
    <2>1. CASE UNCHANGED coreInstances
        <3>1. CoresMove(0, s)
            BY <1>0, <1>q, <1>3, <2>1 DEF CoreCreated, CoresMove
        <3> QED
            BY <1>0, <2>1, <3>1
    <2>2. ASSUME NEW name \in STRING, FindNamedInstance(name) = {},
                 coreInstances' = [id \in DOMAIN coreInstances \union {coreIDCounter + 1} |->
                                     IF id = coreIDCounter + 1 THEN StartCore(name)
                                     ELSE coreInstances[id]]
          PROVE  /\ DOMAIN coreInstances \subseteq DOMAIN coreInstances'
                 /\ \E k : CoresMove(k, s) /\ (k \in DOMAIN coreInstances => sc2.coreID = k)
        <3>1. CoresMove(0, s)
            BY <1>0, <1>q, <1>3, <2>2 DEF CoreCreated, CoresMove
        <3> QED
            BY <1>0, <2>2, <3>1
    <2> QED
        BY <1>3, <2>1, <2>2 DEF CoreCreated
<1>4. CASE CoreDropped(sc, sc2, ce)
    <2>1. PICK id \in RunningCores : coreInstances' = [coreInstances EXCEPT ![id] = Terminate(@)]
        BY <1>4 DEF CoreDropped
    <2>2. CoresMove(0, s)
        BY <1>0, <1>q, <1>4, <2>1 DEF CoreDropped, CoresMove
    <2> QED
        BY <1>0, <2>1, <2>2
<1> QED
    BY <1>1, <1>2, <1>3, <1>4 DEF Executed

(* ... and the session gets replies to its own command only.                *)
LEMMA ExecutedSession ==
    ASSUME CorePart, NEW s, NEW n \in Nat, NEW sc, SessionOK(s, sc, n, coreIDCounter),
           NEW ce \in GivenCommand, ce.clientID = s, NEW line, NEW sc2,
           Executed(s, sc, ce, line, sc2)
    PROVE  SessionOK(s, sc2, n, coreIDCounter') /\ coreIDCounter <= coreIDCounter'
<1>1. coreIDCounter \in Nat /\ sc.coreID \in Nat /\ sc.replies \in Seq(Reply)
      /\ \A id \in RunningCores : id \in 1..coreIDCounter
    BY DEF CorePart, SessionOK, SessionContext, RunningCores
<1>2. coreIDCounter' \in Nat /\ coreIDCounter <= coreIDCounter'
    BY <1>1 DEF Executed, AnsweredHere, GivenToCore, CoreCreated, CoreDropped
<1>3. sc2.coreID <= coreIDCounter'
    BY <1>1, <1>2 DEF Executed, AnsweredHere, GivenToCore, CoreCreated, CoreDropped, SessionOK
<1>4. ReplyTo(ce) \in Reply /\ ReplyTo(ce).clientID = s
    BY DEF ReplyTo, Reply, GivenCommand, Entry
<1>5. \A i \in DOMAIN sc.replies : sc.replies[i].clientID = s
    BY DEF SessionOK
<1>6. Once(sc, ce) \in Seq(Reply) /\ \A i \in DOMAIN Once(sc, ce) : Once(sc, ce)[i].clientID = s
    BY <1>1, <1>4, <1>5 DEF Once
<1> DEFINE twice == Append(Once(sc, ce), ReplyTo(ce))
<1>7. \A i \in DOMAIN twice : twice[i].clientID = s
    BY <1>4, <1>6
<1>8. sc2.replies \in {sc.replies, Once(sc, ce), twice}
    BY DEF Executed, AnsweredHere, GivenToCore, CoreCreated, CoreDropped, Replied
<1> HIDE DEF twice
<1>9. \A i \in DOMAIN sc2.replies : sc2.replies[i].clientID = s
    BY <1>5, <1>6, <1>7, <1>8
<1>10. sc2 \in SessionContext /\ sc2.lineQueue = sc.lineQueue /\ sc2.curCommand = sc.curCommand
    BY DEF Executed, SameInput
<1> QED
    BY <1>2, <1>3, <1>9, <1>10 DEF SessionOK

-----------------------------------------------------------------------------
(* A line has been handled: session s is still in order, having read m      *)
(* lines, the cores are, and no TCP session is owed two replies.            *)
Handled(s, m) ==
    /\ \E sc2 : Becomes(s, sc2) /\ SessionOK(s, sc2, m, coreIDCounter')
    /\ coreIDCounter <= coreIDCounter' /\ DOMAIN coreInstances \subseteq DOMAIN coreInstances'
    /\ clientsToRemove' \subseteq clientsToRemove \union {s}
    /\ CorePart' /\ FlightPart'

(* It is so when the line only changes what the session holds,              *)
LEMMA HandledQuietly ==
    ASSUME SessionPart, CorePart, FlightPart, UNCHANGED sessionIDCounter,
           NEW s \in DOMAIN sessionContexts, NEW m, NEW x,
           SessionOK(s, x, m, coreIDCounter), Answered(s, x),
           x.connectionType = sessionContexts[s].connectionType,
           x.connectionType = "TCP" =>
               \/ Idle(s)
               \/ x.coreID = sessionContexts[s].coreID /\ x.curCommand = sessionContexts[s].curCommand
    PROVE  Handled(s, m)
<1>0. /\ Becomes(s, x) /\ UNCHANGED <<coreInstances, coreIDCounter, clientsToRemove>>
      /\ coreIDCounter \in Nat /\ sessionIDCounter \in Nat /\ 0 \notin DOMAIN coreInstances
      /\ \A id \in DOMAIN coreInstances : WF(coreInstances[id])
    BY DEF Answered, CorePart, SessionPart
<1>1. CoresMove(0, s)
    BY <1>0, QuietOperators DEF CoresMove
<1>2. CorePart'
    BY <1>0, <1>1, CoresKept
<1>3. ASSUME NEW t \in Tcp'
      PROVE  \/ Idle(t)
             \/ /\ t \in Tcp /\ sessionContexts'[t].coreID = sessionContexts[t].coreID
                /\ sessionContexts'[t].curCommand = sessionContexts[t].curCommand
    BY <1>0 DEF Tcp, Becomes
<1>4. FlightPart'
    BY <1>0, <1>1, <1>3, FlightKept
<1> QED
    BY <1>0, <1>2, <1>4 DEF Handled

(* and when it completes a command, of a TCP session that is owed nothing.  *)
LEMMA HandledCommand ==
    ASSUME SessionPart, CorePart, FlightPart, UNCHANGED sessionIDCounter,
           NEW s \in DOMAIN sessionContexts, NEW m \in Nat, NEW x,
           SessionOK(s, x, m, coreIDCounter), x.curCommand = NoCommand,
           x.connectionType = sessionContexts[s].connectionType,
           x.connectionType = "TCP" => Idle(s),
           NEW ce \in GivenCommand, ce.clientID = s, NEW line \in CommandLine,
           ProcessCommand(s, x, ce, line)
    PROVE  Handled(s, m)
<1>0. /\ x \in SessionContext /\ DOMAIN coreInstances \subseteq Nat
      /\ sessionIDCounter \in Nat /\ s \in 1..sessionIDCounter
    BY DEF SessionOK, CorePart, SessionPart
<1>1. PICK sc2 : Executed(s, x, ce, line, sc2)
    BY <1>0, CommandExecuted
<1>2. SessionOK(s, sc2, m, coreIDCounter') /\ coreIDCounter <= coreIDCounter'
    BY <1>1, ExecutedSession
<1>3. /\ DOMAIN coreInstances \subseteq DOMAIN coreInstances'
      /\ \E k : CoresMove(k, s) /\ (k \in DOMAIN coreInstances => sc2.coreID = k)
    BY <1>1, ExecutedCores
<1>4. PICK k : CoresMove(k, s) /\ (k \in DOMAIN coreInstances => sc2.coreID = k)
    BY <1>3
<1>5. CorePart'
    BY <1>0, <1>4, CoresKept
<1>6. /\ Becomes(s, sc2) /\ sc2.curCommand = NoCommand /\ sc2.connectionType = x.connectionType
      /\ clientsToRemove' \subseteq clientsToRemove \union {s}
    BY <1>1 DEF Executed, SameInput
<1>7. ASSUME NEW t \in Tcp'
      PROVE  \/ /\ t # s \/ k \notin DOMAIN coreInstances
                /\ \/ Idle(t)
                   \/ /\ t \in Tcp /\ sessionContexts'[t].coreID = sessionContexts[t].coreID
                      /\ sessionContexts'[t].curCommand = sessionContexts[t].curCommand
             \/ /\ Idle(t) /\ sessionContexts'[t].coreID = k
                /\ sessionContexts'[t].curCommand = NoCommand
    <2>1. CASE t = s
        <3>1. sessionContexts'[t] = sc2
            BY <1>6, <2>1 DEF Becomes
        <3>2. Idle(t)
            BY <1>6, <2>1, <3>1 DEF Tcp
        <3> QED
            BY <1>4, <1>6, <2>1, <3>1, <3>2
    <2>2. CASE t # s
        BY <1>6, <2>2 DEF Tcp, Becomes
    <2> QED
        BY <2>1, <2>2
<1>8. FlightPart'
    BY <1>4, <1>7, FlightKept
<1> QED
    BY <1>2, <1>3, <1>5, <1>6, <1>8 DEF Handled

(* No command is an entry like any other.                                   *)
LEMMA NoCommandTyped == NoCommand \in Entry
<1>1. NoCommand = [clientID |-> NoClient, tag |-> 0, word |-> Blank, acceptsData |-> FALSE,
                   dataFinished |-> TRUE, dataset |-> <<>>]
    BY DEF NoCommand, NewCommand
<1>2. <<>> \in Seq(Nat)
    OBVIOUS
<1> QED
    BY <1>1, <1>2 DEF Entry

(* A complete command and a command being collected, of session s.          *)
LEMMA CommandOfLine ==
    ASSUME NEW s \in SessionIDs, NEW n \in Nat, NEW line \in CommandLine
    PROVE  LET ce == NewCommand(s, n, line.word, line.colon)
           IN ce \in Entry /\ ce.clientID = s /\ ce.tag = n /\ (Flushable(ce) => ce \in GivenCommand)
BY DEF NewCommand, Entry, CommandLine, GivenCommand

LEMMA CollectedCommand ==
    ASSUME NEW cur \in Entry, NEW n \in Nat, NEW b \in BOOLEAN, cur.clientID \in SessionIDs
    PROVE  LET ce == AppendToDataset(cur, n, b)
           IN /\ ce \in Entry /\ ce.clientID = cur.clientID /\ ce.tag = cur.tag
              /\ Flushable(ce) => ce \in GivenCommand
<1>1. CASE Flushable(cur)
    BY <1>1 DEF AppendToDataset, GivenCommand
<1>2. CASE ~Flushable(cur)
    <2>1. Append(cur.dataset, n) \in Seq(Nat)
        BY DEF Entry
    <2> QED
        BY <1>2, <2>1 DEF AppendToDataset, Entry, GivenCommand
<1> QED
    BY <1>1, <1>2

(* A line of session s, which has read m: x is the session without it.  The *)
(* session executes it only when no reply is due to it.                     *)
LEMMA LineHandled ==
    ASSUME SessionPart, CorePart, FlightPart, UNCHANGED sessionIDCounter,
           NEW s \in DOMAIN sessionContexts, NEW m \in Nat, m <= Len(lines[s]), NEW n \in 1..m,
           NEW x, SessionOK(s, x, m, coreIDCounter),
           x.connectionType = sessionContexts[s].connectionType,
           x.curCommand = sessionContexts[s].curCommand,
           x.connectionType = "TCP" => x.coreID = sessionContexts[s].coreID,
           NEW queued \in BOOLEAN, queued => ~IsWaitingForCoreReply(s, sessionContexts[s]),
           LineFromClient(s, x, n, queued)
    PROVE  Handled(s, m)
<1> DEFINE line == lines[s][n]
           ce   == NewCommand(s, n, line.word, line.colon)
           cur  == AppendToDataset(x.curCommand, n, line.word = Blank)
<1>0. /\ s \in SessionIDs /\ x \in SessionContext /\ lines[s] \in Seq(CommandLine)
      /\ x.connectionType = "TCP" => s \in Tcp
    BY DEF SessionPart, SessionOK, Tcp
<1>1. \A i \in 1..m : lines[s][i] \in CommandLine /\ i \in Nat
    BY <1>0
<1>2. line \in CommandLine /\ n \in Nat
    BY <1>1
<1>3. ce \in Entry /\ ce.clientID = s /\ ce.tag = n /\ (Flushable(ce) => ce \in GivenCommand)
    BY <1>0, <1>2, CommandOfLine
<1>4. ASSUME x.curCommand # NoCommand
      PROVE  /\ x.curCommand.clientID = s /\ x.curCommand.tag \in 1..m
             /\ cur \in Entry /\ cur.clientID = s /\ cur.tag = x.curCommand.tag
             /\ Flushable(cur) => cur \in GivenCommand
             /\ x.connectionType = "TCP" => Idle(s)
    <2>1. x.curCommand.clientID = s /\ x.curCommand.tag \in 1..m /\ x.curCommand \in Entry
        BY <1>0, <1>4 DEF SessionOK, SessionContext
    <2>2. /\ cur \in Entry /\ cur.clientID = s /\ cur.tag = x.curCommand.tag
          /\ Flushable(cur) => cur \in GivenCommand
        BY <1>0, <1>2, <2>1, CollectedCommand
    <2>3. x.connectionType = "TCP" => Idle(s)
        BY <1>0, <1>4, IdleSession
    <2> QED
        BY <2>1, <2>2, <2>3
<1>5. ASSUME x.curCommand = NoCommand, ~MustWait(s, x, queued)
      PROVE  x.connectionType = "TCP" => Idle(s)
    <2> SUFFICES ASSUME x.connectionType = "TCP" PROVE Idle(s)
        OBVIOUS
    <2>1. CASE queued
        BY <1>0, <2>1, IdleSession DEF IsWaitingForCoreReply
    <2>2. CASE ~queued
        <3>1. ~WaitingForCore(s, x)
            BY <1>5, <2>2 DEF MustWait, IsWaitingForCoreReply
        <3>2. ~WaitingForCore(s, sessionContexts[s])
            BY <3>1 DEF WaitingForCore
        <3> QED
            BY <1>0, <3>2, IdleSession
    <2> QED
        BY <2>1, <2>2
<1> HIDE DEF ce, cur, line
<1>6. CASE x.curCommand # NoCommand /\ Flushable(cur)
           /\ ProcessCommand(s, [x EXCEPT !.curCommand = NoCommand], cur, lines[s][cur.tag])
    <2> DEFINE y == [x EXCEPT !.curCommand = NoCommand]
    <2>1. NoCommand \in Entry
        BY NoCommandTyped
    <2>2. /\ SessionOK(s, y, m, coreIDCounter) /\ y.curCommand = NoCommand
          /\ y.connectionType = x.connectionType
        BY <1>0, <2>1 DEF SessionOK, SessionContext
    <2>3. lines[s][cur.tag] \in CommandLine
        BY <1>1, <1>4, <1>6
    <2>4. ProcessCommand(s, y, cur, lines[s][cur.tag])
        BY <1>6
    <2> HIDE DEF y
    <2> QED
        BY <1>4, <1>6, <2>2, <2>3, <2>4, HandledCommand
<1>7. CASE x.curCommand # NoCommand /\ Answered(s, [x EXCEPT !.curCommand = cur])
    <2> DEFINE y == [x EXCEPT !.curCommand = cur]
    <2>1. SessionOK(s, y, m, coreIDCounter) /\ y.connectionType = x.connectionType
        BY <1>0, <1>4, <1>7 DEF SessionOK, SessionContext
    <2>2. Answered(s, y)
        BY <1>7
    <2> HIDE DEF y
    <2> QED
        BY <1>4, <1>7, <2>1, <2>2, HandledQuietly
<1>8. CASE Answered(s, [x EXCEPT !.lineQueue = Append(@, n)])
    <2> DEFINE y == [x EXCEPT !.lineQueue = Append(@, n)]
    <2>1. Append(x.lineQueue, n) \in Seq(1..m) /\ Append(x.lineQueue, n) \in Seq(Nat)
        BY <1>0, <1>2 DEF SessionOK, SessionContext
    <2>2. /\ SessionOK(s, y, m, coreIDCounter) /\ y.connectionType = x.connectionType
          /\ y.coreID = x.coreID /\ y.curCommand = x.curCommand
        BY <1>0, <2>1 DEF SessionOK, SessionContext
    <2>3. Answered(s, y)
        BY <1>8
    <2> HIDE DEF y
    <2> QED
        BY <2>2, <2>3, HandledQuietly
<1>9. CASE /\ x.curCommand = NoCommand /\ ~MustWait(s, x, queued)
           /\ Flushable(ce) /\ ProcessCommand(s, x, ce, line)
    BY <1>2, <1>3, <1>5, <1>9, HandledCommand
<1>10. CASE /\ x.curCommand = NoCommand /\ ~MustWait(s, x, queued)
            /\ Answered(s, [x EXCEPT !.curCommand = ce])
    <2> DEFINE y == [x EXCEPT !.curCommand = ce]
    <2>1. SessionOK(s, y, m, coreIDCounter) /\ y.connectionType = x.connectionType
        BY <1>0, <1>3, <1>10 DEF SessionOK, SessionContext
    <2>2. Answered(s, y)
        BY <1>10
    <2> HIDE DEF y
    <2> QED
        BY <1>5, <1>10, <2>1, <2>2, HandledQuietly
<1> QED
    BY <1>6, <1>7, <1>8, <1>9, <1>10 DEF LineFromClient, ce, cur, line

(* A request is refused, or handled like a line.                            *)
LEMMA RequestHandled ==
    ASSUME SessionPart, CorePart, FlightPart, UNCHANGED sessionIDCounter,
           NEW s \in DOMAIN sessionContexts, NEW m \in Nat, m <= Len(lines[s]), NEW n \in 1..m,
           SessionOK(s, sessionContexts[s], m, coreIDCounter),
           sessionContexts[s].connectionType # "TCP",
           LineFromHTTPClient(s, sessionContexts[s], n)
    PROVE  Handled(s, m)
<1> DEFINE sc == sessionContexts[s]
           ce == NewCommand(s, n, lines[s][n].word, FALSE)
           y  == ForwardStatusline(sc, ce, FALSE)
<1>0. s \in SessionIDs /\ sc \in SessionContext /\ lines[s] \in Seq(CommandLine) /\ coreIDCounter \in Nat
    BY DEF SessionPart, SessionOK, CorePart
<1>1. lines[s][n] \in CommandLine /\ n \in Nat
    BY <1>0
<1>2. ce \in GivenCommand /\ ce.clientID = s
    BY <1>0, <1>1 DEF NewCommand, Entry, CommandLine, GivenCommand, Flushable
<1> HIDE DEF ce
<1>3. CASE Status(s, sc, ce)
    <2>1. /\ y \in SessionContext /\ SameInput(sc, y) /\ y.coreID = sc.coreID
          /\ y.replies = Once(sc, ce)
        BY <1>0, <1>2, Forwarding
    <2>2. \A i \in DOMAIN Once(sc, ce) : Once(sc, ce)[i].clientID = s
        <3>1. sc.replies \in Seq(Reply) /\ \A i \in DOMAIN sc.replies : sc.replies[i].clientID = s
            BY <1>0 DEF SessionOK, SessionContext
        <3>2. ReplyTo(ce).clientID = s
            BY <1>2 DEF ReplyTo
        <3> QED
            BY <3>1, <3>2 DEF Once
    <2>3. Answered(s, y)
        BY <1>3 DEF Status
    <2> HIDE DEF y
    <2>4. SessionOK(s, y, m, coreIDCounter) /\ y.connectionType = sc.connectionType
        BY <2>1, <2>2 DEF SessionOK, SameInput
    <2> QED
        BY <2>3, <2>4, HandledQuietly
<1>4. CASE LineFromClient(s, sc, n, FALSE)
    BY <1>4, LineHandled
<1>5. ASSUME NEW id \in FindNamedInstance(lines[s][n].core),
             LineFromClient(s, [sc EXCEPT !.coreID = id], n, FALSE)
      PROVE  Handled(s, m)
    <2> DEFINE x == [sc EXCEPT !.coreID = id]
    <2>1. id \in 1..coreIDCounter
        BY DEF FindNamedInstance, CorePart
    <2>2. /\ SessionOK(s, x, m, coreIDCounter) /\ x.connectionType = sc.connectionType
          /\ x.curCommand = sc.curCommand
        <3>1. sc \in SessionContext /\ id \in Nat /\ id <= coreIDCounter
            BY <1>0, <2>1
        <3>2. /\ x \in SessionContext /\ x.coreID = id /\ x.lineQueue = sc.lineQueue
              /\ x.curCommand = sc.curCommand /\ x.replies = sc.replies
              /\ x.connectionType = sc.connectionType
            BY <3>1 DEF SessionContext
        <3> HIDE DEF x
        <3>3. SessionOK(s, sc, m, coreIDCounter)
            OBVIOUS
        <3> HIDE DEF sc
        <3> QED
            BY <3>1, <3>2, <3>3 DEF SessionOK
    <2>3. LineFromClient(s, x, n, FALSE)
        BY <1>5
    <2> HIDE DEF x
    <2> QED
        BY <2>2, <2>3, LineHandled
<1> QED
    BY <1>3, <1>4, <1>5 DEF LineFromHTTPClient, ce

-----------------------------------------------------------------------------
(* A step that handles a line of session s keeps every session in order.    *)
LEMMA SessionOKMonotone ==
    ASSUME NEW s, NEW sc, NEW n \in Nat, NEW n2 \in Nat, n <= n2,
           NEW k \in Nat, NEW k2 \in Nat, k <= k2, SessionOK(s, sc, n, k)
    PROVE  SessionOK(s, sc, n2, k2)
<1>1. sc.coreID \in Nat /\ sc.coreID <= k2
    BY DEF SessionOK, SessionContext
<1>2. 1..n \subseteq 1..n2
    OBVIOUS
<1>3. sc.lineQueue \in Seq(1..n2)
    BY <1>2 DEF SessionOK
<1> QED
    BY <1>1, <1>2, <1>3 DEF SessionOK

LEMMA LineStep ==
    ASSUME SessionPart, CorePart, NEW s \in DOMAIN sessionContexts, NEW m \in Nat, Handled(s, m),
           UNCHANGED <<sessionIDCounter, lines, closed>>,
           linesRead' = [linesRead EXCEPT ![s] = m], linesRead[s] <= m, m <= Len(lines[s])
    PROVE  /\ SessionPart' /\ CorePart' /\ FlightPart'
           /\ DOMAIN sessionContexts' = DOMAIN sessionContexts
           /\ DOMAIN coreInstances \subseteq DOMAIN coreInstances'
<1>0. /\ s \in SessionIDs /\ s \in 1..sessionIDCounter /\ coreIDCounter \in Nat /\ coreIDCounter' \in Nat
      /\ coreIDCounter <= coreIDCounter'
    BY DEF SessionPart, CorePart, Handled
<1>1. PICK sc2 : sessionContexts' = [sessionContexts EXCEPT ![s] = sc2]
                 /\ SessionOK(s, sc2, m, coreIDCounter')
    BY DEF Handled, Becomes
<1>2. linesRead' \in [SessionIDs -> Nat] /\ \A t \in SessionIDs : linesRead'[t] <= Len(lines[t])
    BY <1>0 DEF SessionPart
<1>3. ASSUME NEW t \in DOMAIN sessionContexts'
      PROVE  SessionOK(t, sessionContexts'[t], linesRead'[t], coreIDCounter')
    <2>1. CASE t = s
        BY <1>0, <1>1, <2>1 DEF SessionPart
    <2>2. CASE t # s
        <3>1. /\ t \in DOMAIN sessionContexts /\ t \in SessionIDs
              /\ sessionContexts'[t] = sessionContexts[t] /\ linesRead'[t] = linesRead[t]
              /\ linesRead[t] \in Nat
            BY <1>1, <2>2 DEF SessionPart
        <3>2. SessionOK(t, sessionContexts[t], linesRead[t], coreIDCounter)
            BY <3>1 DEF SessionPart
        <3> QED
            BY <1>0, <3>1, <3>2, SessionOKMonotone
    <2> QED
        BY <2>1, <2>2
<1>4. closed' \union clientsToRemove' \subseteq 1..sessionIDCounter
    BY <1>0 DEF SessionPart, Handled
<1>5. SessionPart'
    BY <1>1, <1>2, <1>3, <1>4 DEF SessionPart
<1> QED
    BY <1>1, <1>5 DEF Handled

(* A step that gives no command keeps everything in order if it takes from  *)
(* no session its core, its collected command or its queue.                 *)
LEMMA QuietStep ==
    ASSUME SessionPart, CorePart, FlightPart, CoresMove(0, 0), UNCHANGED <<sessionIDCounter, linesRead>>,
           lines' \in [SessionIDs -> Seq(CommandLine)], \A s \in SessionIDs : linesRead[s] <= Len(lines'[s]),
           closed' \union clientsToRemove' \subseteq 1..sessionIDCounter,
           DOMAIN sessionContexts' \subseteq DOMAIN sessionContexts,
           UNCHANGED coreIDCounter,
           \A s \in DOMAIN sessionContexts' :
               /\ SessionOK(s, sessionContexts'[s], linesRead[s], coreIDCounter)
               /\ sessionContexts'[s].connectionType = sessionContexts[s].connectionType
               /\ sessionContexts'[s].coreID = sessionContexts[s].coreID
               /\ sessionContexts'[s].curCommand = sessionContexts[s].curCommand
    PROVE  SessionPart' /\ CorePart' /\ FlightPart'
<1>1. SessionPart'
    BY DEF SessionPart
<1>2. sessionIDCounter \in Nat /\ 0 \notin DOMAIN coreInstances
    BY DEF SessionPart, CorePart
<1>3. CorePart'
    BY <1>2, CoresKept
<1>4. \A s \in Tcp' : /\ s \in Tcp /\ sessionContexts'[s].coreID = sessionContexts[s].coreID
                      /\ sessionContexts'[s].curCommand = sessionContexts[s].curCommand
    BY DEF Tcp
<1>5. FlightPart'
    BY <1>2, <1>4, FlightKept
<1> QED
    BY <1>1, <1>3, <1>5

(* Every core is what it may become without a command; none moves; one does. *)
LEMMA CoresQuieter ==
    ASSUME CorePart, UNCHANGED coreIDCounter,
           \A id \in DOMAIN coreInstances' :
               id \in DOMAIN coreInstances /\ Quieter(coreInstances[id], coreInstances'[id])
    PROVE  CoresMove(0, 0)
<1>1. coreIDCounter' \in Nat /\ coreIDCounter <= coreIDCounter'
    BY DEF CorePart
<1> QED
    BY <1>1 DEF CoresMove

LEMMA CoresStay ==
    ASSUME CorePart, UNCHANGED <<coreInstances, coreIDCounter>>
    PROVE  CoresMove(0, 0)
<1>1. coreIDCounter \in Nat /\ \A id \in DOMAIN coreInstances : Quieter(coreInstances[id], coreInstances[id])
    BY QuietOperators DEF CorePart
<1>2. \A id \in DOMAIN coreInstances' :
          id \in DOMAIN coreInstances /\ Quieter(coreInstances[id], coreInstances'[id])
    BY <1>1
<1> QED
    BY <1>2, CoresQuieter

LEMMA CoreMoves ==
    ASSUME CorePart, UNCHANGED coreIDCounter, NEW id \in DOMAIN coreInstances, NEW d,
           Quieter(coreInstances[id], d), coreInstances' = [coreInstances EXCEPT ![id] = d]
    PROVE  CoresMove(0, 0) /\ DOMAIN coreInstances' = DOMAIN coreInstances
<1>1. coreIDCounter \in Nat /\ \A x \in DOMAIN coreInstances : Quieter(coreInstances[x], coreInstances[x])
    BY QuietOperators DEF CorePart
<1> QED
    BY <1>1 DEF CoresMove

(* What a session holds when nothing happens to it, or when it is sent what *)
(* a core says to it.                                                       *)
LEMMA SessionsStay ==
    ASSUME SessionPart
    PROVE  /\ \A s \in SessionIDs : linesRead[s] <= Len(lines[s])
           /\ lines \in [SessionIDs -> Seq(CommandLine)]
           /\ \A s \in DOMAIN sessionContexts :
                 /\ SessionOK(s, sessionContexts[s], linesRead[s], coreIDCounter)
                 /\ s \in SessionIDs /\ s \in 1..sessionIDCounter /\ linesRead[s] \in Nat
           /\ sessionIDCounter \in Nat /\ closed \union clientsToRemove \subseteq 1..sessionIDCounter
BY DEF SessionPart

-----------------------------------------------------------------------------
(* The server's own steps.                                                  *)
LEMMA LoopTopKeeps ==
    ASSUME Parts, LoopTop
    PROVE  Parts'
<1> DEFINE kept == DOMAIN sessionContexts \ clientsToRemove
<1>0. SessionPart /\ CorePart /\ FlightPart /\ LoopPart
    BY DEF Parts
<1>1. /\ sessionContexts' = [s \in kept |-> sessionContexts[s]]
      /\ coreInstances' = [id \in DOMAIN coreInstances |-> FlushCommandQ(coreInstances[id])]
      /\ clientsToRemove' = {} /\ readyClients' \subseteq kept /\ readyCores' \subseteq DOMAIN coreInstances
      /\ inIteration' = TRUE /\ ~inIteration
      /\ UNCHANGED <<coreIDCounter, coresToRemove, drained, lines, linesRead, closed, sessionIDCounter>>
    BY DEF LoopTop, FlushAll, Restrict, SessionsToRead, clientVars
<1>2. \A id \in DOMAIN coreInstances' :
          id \in DOMAIN coreInstances /\ Quieter(coreInstances[id], coreInstances'[id])
    BY <1>0, <1>1, QuietOperators DEF CorePart
<1>4. CoresMove(0, 0)
    BY <1>0, <1>1, <1>2, CoresQuieter
<1>5. SessionPart' /\ CorePart' /\ FlightPart'
    BY <1>0, <1>1, <1>4, SessionsStay, QuietStep
<1>6. LoopPart'
    BY <1>0, <1>1 DEF LoopPart, DrainedAlone
<1> QED
    BY <1>5, <1>6 DEF Parts

LEMMA DispatchKeeps ==
    ASSUME Parts, Dispatch
    PROVE  Parts'
<1>0. SessionPart /\ CorePart /\ FlightPart /\ LoopPart
    BY DEF Parts
<1>1. /\ readyClients' \subseteq DOMAIN sessionContexts /\ readyCores' \subseteq DOMAIN coreInstances
      /\ inIteration' = TRUE /\ ~inIteration
      /\ UNCHANGED <<sessionContexts, coreInstances, coreIDCounter, clientsToRemove, coresToRemove,
                     drained, lines, linesRead, closed, sessionIDCounter>>
    BY DEF Dispatch, serverVars, clientVars
<1>2. SessionPart' /\ CorePart' /\ FlightPart'
    BY <1>0, <1>1, CoresStay, SessionsStay, QuietStep
<1>3. LoopPart'
    BY <1>0, <1>1 DEF LoopPart, DrainedAlone
<1> QED
    BY <1>2, <1>3 DEF Parts

LEMMA ReadClientLineKeeps ==
    ASSUME Parts, ReadClientLine
    PROVE  Parts'
<1>0. SessionPart /\ CorePart /\ FlightPart /\ LoopPart
    BY DEF Parts
<1>1. PICK s \in First(readyClients) :
          /\ Unread(s)
          /\ IF sessionContexts[s].connectionType = "HTTP"
             THEN LineFromHTTPClient(s, sessionContexts[s], linesRead[s] + 1)
             ELSE LineFromClient(s, sessionContexts[s], linesRead[s] + 1, FALSE)
          /\ linesRead' = [linesRead EXCEPT ![s] = linesRead[s] + 1]
          /\ readyClients' \subseteq readyClients
          /\ UNCHANGED <<inIteration, readyCores, coresToRemove, drained, lines, closed,
                         sessionIDCounter>>
    BY DEF ReadClientLine
<1> DEFINE sc == sessionContexts[s]
           n  == linesRead[s] + 1
<1>2. /\ s \in readyClients /\ s \in DOMAIN sessionContexts /\ s \in SessionIDs
      /\ linesRead[s] \in Nat /\ SessionOK(s, sc, linesRead[s], coreIDCounter)
      /\ lines[s] \in Seq(CommandLine) /\ coreIDCounter \in Nat
    BY <1>0, <1>1 DEF First, LoopPart, SessionPart, CorePart
<1>3. n \in Nat /\ n \in 1..n /\ linesRead[s] <= n /\ n <= Len(lines[s])
    BY <1>1, <1>2 DEF Unread
<1>4. SessionOK(s, sc, n, coreIDCounter)
    BY <1>2, <1>3, SessionOKMonotone
<1>5. Handled(s, n)
    <2>1. CASE sc.connectionType = "HTTP"
        <3>1. LineFromHTTPClient(s, sc, n) /\ sc.connectionType # "TCP"
            BY <1>1, <2>1
        <3> HIDE DEF n
        <3> QED
            BY <1>0, <1>1, <1>2, <1>3, <1>4, <3>1, RequestHandled
    <2>2. CASE sc.connectionType # "HTTP"
        <3>1. LineFromClient(s, sc, n, FALSE)
            BY <1>1, <2>2
        <3> HIDE DEF n
        <3> QED
            BY <1>0, <1>1, <1>2, <1>3, <1>4, <3>1, LineHandled
    <2> QED
        BY <2>1, <2>2
<1> HIDE DEF n
<1>6. linesRead' = [linesRead EXCEPT ![s] = n]
    BY <1>1 DEF n
<1>7. /\ SessionPart' /\ CorePart' /\ FlightPart'
      /\ DOMAIN sessionContexts' = DOMAIN sessionContexts
      /\ DOMAIN coreInstances \subseteq DOMAIN coreInstances'
    BY <1>0, <1>1, <1>2, <1>3, <1>5, <1>6, LineStep
<1>8. LoopPart'
    BY <1>0, <1>1, <1>2, <1>7 DEF LoopPart, DrainedAlone
<1> QED
    BY <1>7, <1>8 DEF Parts

LEMMA ReadClientEOFKeeps ==
    ASSUME Parts, ReadClientEOF
    PROVE  Parts'
<1>0. SessionPart /\ CorePart /\ FlightPart /\ LoopPart
    BY DEF Parts
<1>1. PICK s \in First(readyClients) :
          /\ \/ /\ sessionContexts' = [x \in DOMAIN sessionContexts \ {s} |-> sessionContexts[x]]
                /\ UNCHANGED clientsToRemove
             \/ clientsToRemove' = clientsToRemove \union {s} /\ UNCHANGED sessionContexts
          /\ readyClients' = readyClients \ {s}
          /\ UNCHANGED <<coreInstances, coreIDCounter, statusMessage, inIteration, readyCores,
                         coresToRemove, drained, lines, linesRead, closed, sessionIDCounter>>
    BY DEF ReadClientEOF, Restrict, clientVars
<1>2. s \in readyClients /\ s \in DOMAIN sessionContexts /\ s \in 1..sessionIDCounter
    BY <1>0, <1>1 DEF First, LoopPart, SessionPart
<1>3. /\ DOMAIN sessionContexts' \subseteq DOMAIN sessionContexts
      /\ DOMAIN sessionContexts \ {s} \subseteq DOMAIN sessionContexts'
      /\ \A x \in DOMAIN sessionContexts' : sessionContexts'[x] = sessionContexts[x]
      /\ closed' \union clientsToRemove' \subseteq 1..sessionIDCounter
    BY <1>0, <1>1, <1>2 DEF SessionPart
<1>4. CoresMove(0, 0)
    BY <1>0, <1>1, CoresStay
<1>5. SessionPart' /\ CorePart' /\ FlightPart'
    BY <1>0, <1>1, <1>3, <1>4, SessionsStay, QuietStep
<1>6. LoopPart'
    BY <1>0, <1>1, <1>2, <1>3 DEF LoopPart, DrainedAlone
<1> QED
    BY <1>5, <1>6 DEF Parts

(* The line a core sends goes to the session whose command it answers.      *)
LEMMA ReadCoreLineKeeps ==
    ASSUME Parts, ReadCoreLine
    PROVE  Parts'
<1>0. SessionPart /\ CorePart /\ FlightPart /\ LoopPart
    BY DEF Parts
<1>1. PICK id \in First(readyCores) :
          /\ coreInstances[id].fromCore # <<>>
          /\ coreInstances' = [coreInstances EXCEPT ![id] = LineFromCore(coreInstances[id])]
          /\ LET c    == coreInstances[id]
                 line == Head(c.fromCore)
                 s    == c.lastClientID
             IN IF FindClient(s)
                THEN sessionContexts' = [sessionContexts EXCEPT ![s] =
                        CASE ForwardAs(c) = "status" -> ForwardStatusline(@, line.cmd, line.colon)
                          [] ForwardAs(c) = "data"   -> ForwardDataset(@, line.blank)
                          [] OTHER                   -> @]
                ELSE UNCHANGED sessionContexts
          /\ drained' = ClientWaiting(coreInstances[id])
          /\ readyCores' \subseteq readyCores
    <2>1. \E id \in First(readyCores) :
              /\ coreInstances[id].fromCore # <<>>
              /\ coreInstances' = [coreInstances EXCEPT ![id] = LineFromCore(coreInstances[id])]
              /\ LET c    == coreInstances[id]
                     line == Head(c.fromCore)
                     s    == c.lastClientID
                 IN IF FindClient(s)
                    THEN sessionContexts' = [sessionContexts EXCEPT ![s] =
                            CASE ForwardAs(c) = "status" -> ForwardStatusline(@, line.cmd, line.colon)
                              [] ForwardAs(c) = "data"   -> ForwardDataset(@, line.blank)
                              [] OTHER                   -> @]
                    ELSE UNCHANGED sessionContexts
              /\ drained' = ClientWaiting(coreInstances[id])
              /\ readyCores' \in {readyCores \ {id}} \union
                                 (IF Len(coreInstances[id].fromCore) > 1 THEN {readyCores} ELSE {})
        BY DEF ReadCoreLine
    <2> QED
        BY <2>1
<1> DEFINE c    == coreInstances[id]
           line == Head(c.fromCore)
           s    == c.lastClientID
<1>2. /\ readyClients = {}
      /\ UNCHANGED <<coreIDCounter, clientsToRemove, inIteration, readyClients,
                     coresToRemove, lines, linesRead, closed, sessionIDCounter>>
    BY DEF ReadCoreLine, clientVars
<1>3. id \in readyCores /\ id \in DOMAIN coreInstances /\ WF(c)
    BY <1>0, <1>1 DEF First, LoopPart, CorePart
<1>4. /\ Quieter(c, LineFromCore(c)) /\ line.cmd \in GivenCommand /\ line.cmd.clientID = s
      /\ line.colon \in BOOLEAN /\ line.blank \in BOOLEAN
    BY <1>1, <1>3, ReadQuieter
<1>5. CoresMove(0, 0) /\ DOMAIN coreInstances' = DOMAIN coreInstances
    BY <1>0, <1>1, <1>2, <1>3, <1>4, CoreMoves
<1>6. /\ DOMAIN sessionContexts' = DOMAIN sessionContexts
      /\ \A t \in DOMAIN sessionContexts' :
            /\ SessionOK(t, sessionContexts'[t], linesRead[t], coreIDCounter)
            /\ sessionContexts'[t].connectionType = sessionContexts[t].connectionType
            /\ sessionContexts'[t].coreID = sessionContexts[t].coreID
            /\ sessionContexts'[t].curCommand = sessionContexts[t].curCommand
    <2>1. CASE ~FindClient(s)
        BY <1>0, <1>1, <2>1, SessionsStay
    <2>2. CASE FindClient(s)
        <3> DEFINE sc == sessionContexts[s]
                   a  == ForwardStatusline(sc, line.cmd, line.colon)
                   b  == ForwardDataset(sc, line.blank)
                   y  == CASE ForwardAs(c) = "status" -> a
                           [] ForwardAs(c) = "data"   -> b
                           [] OTHER                   -> sc
        <3>1. s \in DOMAIN sessionContexts /\ SessionOK(s, sc, linesRead[s], coreIDCounter)
            BY <1>0, <2>2, SessionsStay DEF FindClient
        <3>2. sessionContexts' = [sessionContexts EXCEPT ![s] = y]
            BY <1>1, <2>2
        <3>3. y \in {a, b, sc}
            BY DEF ForwardAs
        <3>4. sc \in SessionContext
            BY <3>1 DEF SessionOK
        <3>5. /\ a \in SessionContext /\ SameInput(sc, a) /\ a.coreID = sc.coreID
              /\ a.replies = Once(sc, line.cmd)
            BY <1>4, <3>4, Forwarding
        <3>6. /\ b \in SessionContext /\ SameInput(sc, b) /\ b.coreID = sc.coreID
              /\ b.replies = sc.replies
            BY <1>4, <3>4, Forwarding
        <3>7. \A i \in DOMAIN Once(sc, line.cmd) : Once(sc, line.cmd)[i].clientID = s
            <4>1. sc.replies \in Seq(Reply) /\ \A i \in DOMAIN sc.replies : sc.replies[i].clientID = s
                BY <3>1, <3>4 DEF SessionOK, SessionContext
            <4>2. ReplyTo(line.cmd).clientID = s
                BY <1>4 DEF ReplyTo
            <4> QED
                BY <4>1, <4>2 DEF Once
        <3> HIDE DEF y, a, b
        <3>8. /\ SessionOK(s, y, linesRead[s], coreIDCounter)
              /\ y.connectionType = sc.connectionType
              /\ y.coreID = sc.coreID /\ y.curCommand = sc.curCommand
            BY <3>1, <3>3, <3>5, <3>6, <3>7 DEF SessionOK, SameInput
        <3> HIDE DEF sc
        <3>9. ASSUME NEW t \in DOMAIN sessionContexts
              PROVE  SessionOK(t, sessionContexts[t], linesRead[t], coreIDCounter)
            BY <1>0, SessionsStay
        <3> QED
            BY <3>1, <3>2, <3>8, <3>9 DEF sc
    <2> QED
        BY <2>1, <2>2
<1>7. SessionPart' /\ CorePart' /\ FlightPart'
    BY <1>0, <1>2, <1>5, <1>6, SessionsStay, QuietStep
<1>8. drained' \in DOMAIN sessionContexts \union {NoClient}
    BY <1>1 DEF ClientWaiting, FindClient
<1>9. inIteration
    BY <1>0, <1>3 DEF LoopPart
<1>10. LoopPart'
    BY <1>0, <1>1, <1>2, <1>5, <1>6, <1>8, <1>9 DEF LoopPart, DrainedAlone
<1> QED
    BY <1>7, <1>10 DEF Parts

LEMMA DrainLineKeeps ==
    ASSUME Parts, DrainLine
    PROVE  Parts'
<1>0. SessionPart /\ CorePart /\ FlightPart /\ LoopPart
    BY DEF Parts
<1>s. PICK s : s = drained
    OBVIOUS
<1>m. PICK m : m = linesRead[s]
    OBVIOUS
<1> DEFINE sc == sessionContexts[s]
           x  == [sc EXCEPT !.lineQueue = Tail(@)]
           n  == Head(sc.lineQueue)
<1>1. /\ s = drained /\ s # NoClient /\ CanDrain(s) /\ LineFromClient(s, x, n, TRUE)
      /\ UNCHANGED <<inIteration, readyClients, readyCores, coresToRemove, drained,
                     lines, linesRead, closed, sessionIDCounter>>
    BY <1>s DEF DrainLine, loopVars, clientVars
<1>2. /\ s \in DOMAIN sessionContexts /\ s \in SessionIDs /\ m \in Nat /\ m <= Len(lines[s])
      /\ SessionOK(s, sc, m, coreIDCounter)
      /\ linesRead \in [SessionIDs -> Nat]
    BY <1>m, <1>0, <1>1 DEF LoopPart, SessionPart
<1>3. sc.lineQueue \in Seq(1..m) /\ sc.lineQueue # <<>> /\ ~IsWaitingForCoreReply(s, sc)
    BY <1>1, <1>2 DEF SessionOK, CanDrain
<1>4. Tail(sc.lineQueue) \in Seq(1..m) /\ n \in 1..m /\ Tail(sc.lineQueue) \in Seq(Nat)
    BY <1>2, <1>3 DEF SessionOK, SessionContext
<1>5. /\ SessionOK(s, x, m, coreIDCounter) /\ x.connectionType = sc.connectionType
      /\ x.curCommand = sc.curCommand /\ x.coreID = sc.coreID
    BY <1>2, <1>4 DEF SessionOK, SessionContext
<1> HIDE DEF x, n
<1>6. Handled(s, m)
    BY <1>0, <1>1, <1>2, <1>3, <1>4, <1>5, LineHandled
<1>7. linesRead' = [linesRead EXCEPT ![s] = m]
    BY <1>m, <1>1, <1>2
<1>8. /\ SessionPart' /\ CorePart' /\ FlightPart'
      /\ DOMAIN sessionContexts' = DOMAIN sessionContexts
      /\ DOMAIN coreInstances \subseteq DOMAIN coreInstances'
    <2>1. linesRead[s] <= m /\ UNCHANGED <<sessionIDCounter, lines, closed>>
        BY <1>m, <1>1, <1>2
    <2> QED
        BY <1>0, <1>2, <1>6, <1>7, <2>1, LineStep
<1>9. LoopPart'
    BY <1>0, <1>1, <1>8 DEF LoopPart, DrainedAlone
<1> QED
    BY <1>8, <1>9 DEF Parts

LEMMA DrainDoneKeeps ==
    ASSUME Parts, DrainDone
    PROVE  Parts'
<1>0. SessionPart /\ CorePart /\ FlightPart /\ LoopPart
    BY DEF Parts
<1>1. /\ drained' = NoClient
      /\ UNCHANGED <<sessionContexts, coreInstances, coreIDCounter, clientsToRemove, inIteration,
                     readyClients, readyCores, coresToRemove, lines, linesRead, closed, sessionIDCounter>>
    BY DEF DrainDone, serverVars, clientVars
<1>2. SessionPart' /\ CorePart' /\ FlightPart'
    BY <1>0, <1>1, CoresStay, SessionsStay, QuietStep
<1>3. LoopPart'
    BY <1>0, <1>1 DEF LoopPart, DrainedAlone
<1> QED
    BY <1>2, <1>3 DEF Parts

LEMMA ReadCoreEOFKeeps ==
    ASSUME Parts, ReadCoreEOF
    PROVE  Parts'
<1>0. SessionPart /\ CorePart /\ FlightPart /\ LoopPart
    BY DEF Parts
<1>1. PICK id \in First(readyCores) :
          /\ coresToRemove' = coresToRemove \union {id} /\ readyCores' = readyCores \ {id}
          /\ UNCHANGED <<sessionContexts, coreInstances, coreIDCounter, clientsToRemove, inIteration,
                         readyClients, drained, lines, linesRead, closed, sessionIDCounter>>
    BY DEF ReadCoreEOF, serverVars, clientVars
<1>2. SessionPart' /\ CorePart' /\ FlightPart'
    BY <1>0, <1>1, CoresStay, SessionsStay, QuietStep
<1>3. id \in readyCores
    BY <1>1 DEF First
<1>4. LoopPart'
    BY <1>0, <1>1, <1>3 DEF LoopPart, DrainedAlone
<1> QED
    BY <1>2, <1>4 DEF Parts

LEMMA EndIterationKeeps ==
    ASSUME Parts, EndIteration
    PROVE  Parts'
<1>0. SessionPart /\ CorePart /\ FlightPart /\ LoopPart
    BY DEF Parts
<1>1. PICK done :
          /\ sessionContexts' = [s \in DOMAIN sessionContexts |->
                                    [sessionContexts[s] EXCEPT !.shutdown = @ \/ s \in done]]
          /\ \E failed \in SUBSET (done \intersect closed) :
                clientsToRemove' = clientsToRemove \union failed
    BY DEF EndIteration
<1>2. /\ coreInstances' = [id \in DOMAIN coreInstances \ coresToRemove |-> coreInstances[id]]
      /\ coresToRemove' = {} /\ inIteration' = FALSE
      /\ readyClients = {} /\ readyCores = {} /\ drained = NoClient
      /\ UNCHANGED <<coreIDCounter, readyClients, readyCores, drained,
                     lines, linesRead, closed, sessionIDCounter>>
    BY DEF EndIteration, Restrict, clientVars
<1>3. \A id \in DOMAIN coreInstances' :
          id \in DOMAIN coreInstances /\ Quieter(coreInstances[id], coreInstances'[id])
    BY <1>0, <1>2, QuietOperators DEF CorePart
<1>4. CoresMove(0, 0)
    BY <1>0, <1>2, <1>3, CoresQuieter
<1>5. ASSUME NEW s \in DOMAIN sessionContexts'
      PROVE  /\ SessionOK(s, sessionContexts'[s], linesRead[s], coreIDCounter)
             /\ sessionContexts'[s].connectionType = sessionContexts[s].connectionType
             /\ sessionContexts'[s].coreID = sessionContexts[s].coreID
             /\ sessionContexts'[s].curCommand = sessionContexts[s].curCommand
    <2> DEFINE sc == sessionContexts[s]
               y  == [sc EXCEPT !.shutdown = @ \/ s \in done]
    <2>1. s \in DOMAIN sessionContexts /\ sessionContexts'[s] = y
        BY <1>1
    <2>2. SessionOK(s, sc, linesRead[s], coreIDCounter) /\ sc \in SessionContext
        BY <1>0, <2>1, SessionsStay DEF SessionOK
    <2>3. (sc.shutdown \/ s \in done) \in BOOLEAN
        OBVIOUS
    <2> HIDE DEF sc
    <2>4. /\ y \in SessionContext /\ y.coreID = sc.coreID /\ y.lineQueue = sc.lineQueue
          /\ y.curCommand = sc.curCommand /\ y.replies = sc.replies
          /\ y.connectionType = sc.connectionType
        BY <2>2, <2>3 DEF SessionContext
    <2> HIDE DEF y
    <2>5. SessionOK(s, y, linesRead[s], coreIDCounter)
        BY <2>2, <2>4 DEF SessionOK
    <2> QED
        BY <2>1, <2>4, <2>5 DEF sc
<1>6. DOMAIN sessionContexts' = DOMAIN sessionContexts
    BY <1>1
<1>7. closed' \union clientsToRemove' \subseteq 1..sessionIDCounter
    BY <1>0, <1>1, <1>2 DEF SessionPart
<1>8. SessionPart' /\ CorePart' /\ FlightPart'
    BY <1>0, <1>2, <1>4, <1>5, <1>6, <1>7, SessionsStay, QuietStep
<1>9. LoopPart'
    BY <1>2 DEF LoopPart, DrainedAlone
<1> QED
    BY <1>8, <1>9 DEF Parts

LEMMA FlushSessionKeeps ==
    ASSUME Parts, NEW s \in SessionIDs, FlushSession(s)
    PROVE  Parts'
<1>0. SessionPart /\ CorePart /\ FlightPart /\ LoopPart
    BY DEF Parts
<1> DEFINE sc == sessionContexts[s]
           y  == [sc EXCEPT !.writeBufferEmpty = TRUE]
<1>1. /\ s \in DOMAIN sessionContexts /\ sessionContexts' = [sessionContexts EXCEPT ![s] = y]
      /\ UNCHANGED <<coreInstances, coreIDCounter, clientsToRemove, inIteration, readyClients,
                     readyCores, coresToRemove, drained, lines, linesRead, closed, sessionIDCounter>>
    BY DEF FlushSession, loopVars, clientVars
<1>2. CoresMove(0, 0)
    BY <1>0, <1>1, CoresStay
<1>3. SessionOK(s, sc, linesRead[s], coreIDCounter) /\ sc \in SessionContext
    BY <1>0, <1>1, SessionsStay DEF SessionOK
<1>4. /\ y \in SessionContext /\ y.coreID = sc.coreID /\ y.lineQueue = sc.lineQueue
      /\ y.curCommand = sc.curCommand /\ y.replies = sc.replies
      /\ y.connectionType = sc.connectionType
    BY <1>3 DEF SessionContext
<1> HIDE DEF y
<1>5. SessionOK(s, y, linesRead[s], coreIDCounter)
    BY <1>3, <1>4 DEF SessionOK
<1>6. ASSUME NEW t \in DOMAIN sessionContexts'
      PROVE  /\ SessionOK(t, sessionContexts'[t], linesRead[t], coreIDCounter)
             /\ sessionContexts'[t].connectionType = sessionContexts[t].connectionType
             /\ sessionContexts'[t].coreID = sessionContexts[t].coreID
             /\ sessionContexts'[t].curCommand = sessionContexts[t].curCommand
    <2>1. CASE t = s
        BY <1>1, <1>4, <1>5, <2>1
    <2>2. CASE t # s
        BY <1>0, <1>1, <2>2, SessionsStay
    <2> QED
        BY <2>1, <2>2
<1>7. DOMAIN sessionContexts' = DOMAIN sessionContexts
    BY <1>1
<1>8. SessionPart' /\ CorePart' /\ FlightPart'
    BY <1>0, <1>1, <1>2, <1>6, <1>7, SessionsStay, QuietStep
<1>9. LoopPart'
    BY <1>0, <1>1, <1>7 DEF LoopPart, DrainedAlone
<1> QED
    BY <1>8, <1>9 DEF Parts

LEMMA WriteFailedKeeps ==
    ASSUME Parts, NEW s \in SessionIDs, WriteFailed(s)
    PROVE  Parts'
<1>0. SessionPart /\ CorePart /\ FlightPart /\ LoopPart
    BY DEF Parts
<1>1. /\ s \in DOMAIN sessionContexts /\ clientsToRemove' = clientsToRemove \union {s}
      /\ UNCHANGED <<sessionContexts, coreInstances, coreIDCounter, inIteration, readyClients,
                     readyCores, coresToRemove, drained, lines, linesRead, closed, sessionIDCounter>>
    BY DEF WriteFailed, loopVars, clientVars
<1>2. closed' \union clientsToRemove' \subseteq 1..sessionIDCounter
    BY <1>0, <1>1 DEF SessionPart
<1>3. SessionPart' /\ CorePart' /\ FlightPart'
    BY <1>0, <1>1, <1>2, CoresStay, SessionsStay, QuietStep
<1>4. LoopPart'
    BY <1>0, <1>1 DEF LoopPart, DrainedAlone
<1> QED
    BY <1>3, <1>4 DEF Parts

-----------------------------------------------------------------------------
(* The steps of clients and cores.                                          *)
LEMMA ConnectKeeps ==
    ASSUME Parts, NEW connectionType \in ConnectionTypes, Connect(connectionType)
    PROVE  Parts'
<1>0. SessionPart /\ CorePart /\ FlightPart /\ LoopPart
    BY DEF Parts
<1> DEFINE new == NewSession(connectionType)
<1>p. PICK s : s = sessionIDCounter + 1
    OBVIOUS
<1>1. /\ s \in SessionIDs /\ sessionIDCounter' = s
      /\ sessionContexts' = [x \in DOMAIN sessionContexts \union {s} |->
                                IF x = s THEN new ELSE sessionContexts[x]]
      /\ UNCHANGED <<coreInstances, coreIDCounter, clientsToRemove, inIteration, readyClients,
                     readyCores, coresToRemove, drained, lines, linesRead, closed>>
    BY <1>p DEF Connect, loopVars, clientVars
<1>2. sessionIDCounter \in Nat /\ s \in Nat /\ sessionIDCounter <= s /\ coreIDCounter \in Nat
      /\ 0 \notin DOMAIN coreInstances
    BY <1>0, <1>p DEF SessionPart, CorePart
<1>3. new \in SessionContext /\ new.connectionType = connectionType /\ new.coreID = 0
      /\ new.lineQueue = <<>> /\ new.curCommand = NoCommand /\ new.replies = <<>>
    <2>1. connectionType \in {"TCP", "HTTP"}
        BY BoundsAssumption
    <2>2. AccessLevels.read \in 0..2
        BY DEF AccessLevels
    <2> QED
        BY <2>1, <2>2, NoCommandTyped DEF NewSession, SessionContext
<1>4. SessionOK(s, new, linesRead[s], coreIDCounter)
    BY <1>2, <1>3 DEF SessionOK
<1> HIDE DEF new
<1>5. ASSUME NEW x \in DOMAIN sessionContexts'
      PROVE  SessionOK(x, sessionContexts'[x], linesRead[x], coreIDCounter)
    <2>1. CASE x = s
        BY <1>1, <1>4, <2>1
    <2>2. CASE x # s
        BY <1>0, <1>1, <2>2, SessionsStay
    <2> QED
        BY <2>1, <2>2
<1>6. 1..s = 1..sessionIDCounter \union {s}
    BY <1>2, <1>p
<1>7. SessionPart'
    BY <1>0, <1>1, <1>2, <1>5, <1>6 DEF SessionPart
<1>8. CoresMove(0, 0)
    BY <1>0, <1>1, CoresStay
<1>9. CorePart'
    BY <1>0, <1>1, <1>2, <1>8, CoresKept
<1>10. Idle(s)
    BY <1>0, <1>2, <1>p DEF Idle, CorePart, RunningCores
<1>11. ASSUME NEW t \in Tcp'
       PROVE  \/ Idle(t)
              \/ /\ t \in Tcp /\ sessionContexts'[t].coreID = sessionContexts[t].coreID
                 /\ sessionContexts'[t].curCommand = sessionContexts[t].curCommand
    <2>1. CASE t = s
        BY <1>10, <2>1
    <2>2. CASE t # s
        BY <1>1, <2>2 DEF Tcp
    <2> QED
        BY <2>1, <2>2
<1>12. FlightPart'
    BY <1>0, <1>2, <1>8, <1>11, FlightKept
<1>13. LoopPart'
    BY <1>0, <1>1 DEF LoopPart, DrainedAlone
<1> QED
    BY <1>7, <1>9, <1>12, <1>13 DEF Parts

LEMMA ClientSendsKeeps ==
    ASSUME Parts, NEW s \in SessionIDs, ClientSends(s)
    PROVE  Parts'
<1>0. SessionPart /\ CorePart /\ FlightPart /\ LoopPart
    BY DEF Parts
<1>1. PICK line \in Lines[s] \union Requests[s] : lines' = [lines EXCEPT ![s] = Append(@, line)]
    BY DEF ClientSends
<1>2. UNCHANGED <<sessionContexts, coreInstances, coreIDCounter, clientsToRemove, inIteration,
                  readyClients, readyCores, coresToRemove, drained, linesRead, closed, sessionIDCounter>>
    BY DEF ClientSends, serverVars, loopVars
<1>3. line \in CommandLine
    BY BoundsAssumption
<1>4. /\ lines[s] \in Seq(CommandLine) /\ linesRead \in [SessionIDs -> Nat]
      /\ lines \in [SessionIDs -> Seq(CommandLine)] /\ \A t \in SessionIDs : linesRead[t] <= Len(lines[t])
    BY <1>0 DEF SessionPart
<1>5. /\ Append(lines[s], line) \in Seq(CommandLine)
      /\ Len(Append(lines[s], line)) = Len(lines[s]) + 1 /\ Len(lines[s]) \in Nat
    BY <1>3, <1>4
<1>6. lines' \in [SessionIDs -> Seq(CommandLine)] /\ \A t \in SessionIDs : linesRead[t] <= Len(lines'[t])
    BY <1>1, <1>4, <1>5
<1>7. SessionPart' /\ CorePart' /\ FlightPart'
    BY <1>0, <1>2, <1>6, CoresStay, SessionsStay, QuietStep
<1>8. LoopPart'
    BY <1>0, <1>2 DEF LoopPart, DrainedAlone
<1> QED
    BY <1>7, <1>8 DEF Parts

LEMMA ClientClosesKeeps ==
    ASSUME Parts, NEW s \in SessionIDs, ClientCloses(s)
    PROVE  Parts'
<1>0. SessionPart /\ CorePart /\ FlightPart /\ LoopPart
    BY DEF Parts
<1>1. /\ s \in DOMAIN sessionContexts /\ closed' = closed \union {s}
      /\ UNCHANGED <<sessionContexts, coreInstances, coreIDCounter, clientsToRemove, inIteration,
                     readyClients, readyCores, coresToRemove, drained, lines, linesRead, sessionIDCounter>>
    BY DEF ClientCloses, serverVars, loopVars
<1>2. closed' \union clientsToRemove' \subseteq 1..sessionIDCounter
    BY <1>0, <1>1 DEF SessionPart
<1>3. SessionPart' /\ CorePart' /\ FlightPart'
    BY <1>0, <1>1, <1>2, CoresStay, SessionsStay, QuietStep
<1>4. LoopPart'
    BY <1>0, <1>1 DEF LoopPart, DrainedAlone
<1> QED
    BY <1>3, <1>4 DEF Parts

LEMMA CoreStepKeeps ==
    ASSUME Parts, NEW id \in DOMAIN coreInstances,
           CoreAnswers(id) \/ CoreContinues(id, TRUE) \/ CoreContinues(id, FALSE) \/ CoreExits(id)
    PROVE  Parts'
<1>0. SessionPart /\ CorePart /\ FlightPart /\ LoopPart
    BY DEF Parts
<1> DEFINE c == coreInstances[id]
<1>1. /\ Quieter(c, Exit(c))
      /\ \A b \in BOOLEAN : CanAnswer(c) => Quieter(c, Answer(c, b))
      /\ \A b \in BOOLEAN : CanContinue(c) => Quieter(c, Continue(c, b))
    BY <1>0, QuietOperators DEF CorePart
<1>2. PICK d : Quieter(c, d) /\ CoreStep(id, d)
    BY <1>1 DEF CoreAnswers, CoreContinues, CoreExits
<1>3. /\ coreInstances' = [coreInstances EXCEPT ![id] = d]
      /\ UNCHANGED <<sessionContexts, coreIDCounter, clientsToRemove, inIteration, readyClients,
                     readyCores, coresToRemove, drained, lines, linesRead, closed, sessionIDCounter>>
    BY <1>2 DEF CoreStep, loopVars, clientVars
<1>4. CoresMove(0, 0) /\ DOMAIN coreInstances' = DOMAIN coreInstances
    BY <1>0, <1>2, <1>3, CoreMoves
<1>5. SessionPart' /\ CorePart' /\ FlightPart'
    BY <1>0, <1>3, <1>4, SessionsStay, QuietStep
<1>6. LoopPart'
    BY <1>0, <1>3, <1>4 DEF LoopPart, DrainedAlone
<1> QED
    BY <1>5, <1>6 DEF Parts

-----------------------------------------------------------------------------
(* The invariant holds at first, and every step keeps it.                   *)
LEMMA InitInv == Init => Inv
<1> SUFFICES ASSUME Init PROVE Parts
    BY InvParts
<1>0. DOMAIN <<>> = {} /\ 1..0 = {}
    OBVIOUS
<1>1. DOMAIN sessionContexts = {} /\ DOMAIN coreInstances = {}
    BY <1>0 DEF Init
<1>2. SessionPart
    <2>e. <<>> \in Seq(CommandLine) /\ Len(<<>>) = 0
        OBVIOUS
    <2>i. lines = [s \in SessionIDs |-> <<>>] /\ linesRead = [s \in SessionIDs |-> 0]
        BY DEF Init
    <2>1. lines \in [SessionIDs -> Seq(CommandLine)] /\ linesRead \in [SessionIDs -> Nat]
        BY <2>e, <2>i
    <2>2. \A s \in SessionIDs : linesRead[s] <= Len(lines[s])
        BY <2>e, <2>i
    <2>3. sessionIDCounter = 0 /\ closed \union clientsToRemove = {}
        BY DEF Init
    <2> QED
        BY <1>0, <1>1, <2>1, <2>2, <2>3 DEF SessionPart
<1>3. CorePart
    BY <1>1 DEF Init, CorePart, RunningNamesUnique, RunningCores
<1>4. LoopPart
    BY DEF Init, LoopPart, DrainedAlone
<1>5. FlightPart
    BY <1>1 DEF FlightPart, Tcp
<1> QED
    BY <1>2, <1>3, <1>4, <1>5 DEF Parts

LEMMA StepInv == Inv /\ [Next]_vars => Inv'
<1>1. ASSUME Parts, Next PROVE Parts'
    <2>1. CASE ServerStep
        BY <1>1, <2>1, LoopTopKeeps, DispatchKeeps, ReadClientLineKeeps, ReadClientEOFKeeps,
           ReadCoreLineKeeps, DrainLineKeeps, DrainDoneKeeps, ReadCoreEOFKeeps, EndIterationKeeps
        DEF ServerStep
    <2>2. ASSUME NEW s \in SessionIDs,
                 FlushSession(s) \/ WriteFailed(s) \/ ClientSends(s) \/ ClientCloses(s)
          PROVE  Parts'
        BY <1>1, <2>2, FlushSessionKeeps, WriteFailedKeeps, ClientSendsKeeps, ClientClosesKeeps
    <2>3. ASSUME NEW connectionType \in ConnectionTypes, Connect(connectionType) PROVE Parts'
        BY <1>1, <2>3, ConnectKeeps
    <2>4. ASSUME NEW id \in CoreIDs,
                 CoreAnswers(id) \/ CoreContinues(id, TRUE) \/ CoreContinues(id, FALSE) \/ CoreExits(id)
          PROVE  Parts'
        BY <1>1, <2>4, CoreStepKeeps DEF CoreIDs
    <2> QED
        BY <1>1, <2>1, <2>2, <2>3, <2>4 DEF Next
<1>2. ASSUME Parts, UNCHANGED vars PROVE Parts'
    <2>1. UNCHANGED <<sessionContexts, coreInstances, coreIDCounter, clientsToRemove, inIteration,
                      readyClients, readyCores, coresToRemove, drained, lines, linesRead, closed,
                      sessionIDCounter>>
        BY <1>2 DEF vars, serverVars, loopVars, clientVars
    <2>2. SessionPart' /\ CorePart' /\ FlightPart'
        BY <1>2, <2>1, CoresStay, SessionsStay, QuietStep DEF Parts
    <2>3. LoopPart'
        BY <1>2, <2>1 DEF Parts, LoopPart, DrainedAlone
    <2> QED
        BY <2>2, <2>3 DEF Parts
<1>3. Inv' <=> Parts'
    BY InvParts, PTL
<1> QED
    BY <1>1, <1>2, <1>3, InvParts

(* A running server is always in a state in which the invariant holds: in   *)
(* particular the loops use no deleted session or core, and no session      *)
(* holds a line that it has not read.                                       *)
THEOREM Invariance == Spec => []Inv
BY InitInv, StepInv, PTL DEF Spec

THEOREM TypeCorrect == Spec => []TypeOK
<1>1. Inv => TypeOK
    BY DEF Inv
<1> QED
    BY <1>1, Invariance, PTL

(* What the reply parser of every core knows agrees with the pipes, however *)
(* many sessions share the core, and whatever they do to it.                *)
THEOREM CoresStayInStep == Spec => []CoresInStep
<1>1. Inv => CoresInStep
    BY DEF Inv
<1> QED
    BY <1>1, Invariance, PTL

(* No session is sent the reply to another session's command.               *)
THEOREM RepliesReachTheirSession == Spec => []RepliesRouted
<1>1. Inv => RepliesRouted
    BY DEF Inv
<1> QED
    BY <1>1, Invariance, PTL

(* findNamedInstance never has a choice.                                    *)
THEOREM NamesStayUnique == Spec => []RunningNamesUnique
<1>1. Inv => RunningNamesUnique
    BY DEF Inv
<1> QED
    BY <1>1, Invariance, PTL

(* A queue holds complete commands only.                                    *)
THEOREM QueuedComplete == Spec => []CommandsComplete
<1>1. ASSUME CoresTyped PROVE CommandsComplete
    <2> SUFFICES ASSUME NEW id \in DOMAIN coreInstances, NEW i \in DOMAIN coreInstances[id].commandQ
                 PROVE  Flushable(coreInstances[id].commandQ[i])
        BY DEF CommandsComplete
    <2>1. coreInstances[id].commandQ \in Seq(GivenCommand)
        BY <1>1 DEF CoresTyped, CoreRecords
    <2>2. coreInstances[id].commandQ[i] \in GivenCommand
        BY <2>1
    <2> QED
        BY <2>2 DEF GivenCommand
<1>2. Inv => CommandsComplete
    BY <1>1 DEF Inv
<1> QED
    BY <1>2, Invariance, PTL

(* All running cores together have at most one command of a TCP session.    *)
LEMMA OneDue ==
    ASSUME NEW c, WF(c), NEW s, OnceDue(c, s)
    PROVE  /\ \A i, j \in DOMAIN c.commandQ :
                  c.commandQ[i].clientID = s /\ c.commandQ[j].clientID = s => i = j
           /\ Busy(c) /\ c.lastClientID = s => \A i \in DOMAIN c.commandQ : c.commandQ[i].clientID # s
           /\ (Busy(c) /\ c.lastClientID = s) \/ (\E i \in DOMAIN c.commandQ : c.commandQ[i].clientID = s)
                  => DueTo(c, s)
<1> DEFINE q == c.commandQ
           r == RepliesDue(c)
           k == AtCore(c)
<1>1. /\ Len(q) \in Nat /\ Len(r) = Len(q) + k
      /\ Busy(c) => r[1].clientID = c.lastClientID
      /\ \A i \in 1..Len(q) : r[i + k] = q[i]
    BY DuePlaces DEF WF
<1>2. k \in 0..1 /\ (Busy(c) <=> k = 1)
    BY DEF AtCore
<1>3. DOMAIN q = 1..Len(q) /\ DOMAIN r = 1..Len(r)
    BY RepliesDueType DEF WF, WellFormed, CoreRecords
<1>4. \A i, j \in DOMAIN r : r[i].clientID = s /\ r[j].clientID = s => i = j
    BY DEF OnceDue
<1>5. DueTo(c, s) <=> \E i \in DOMAIN r : r[i].clientID = s
    BY DEF DueTo
<1> HIDE DEF q, r, k
<1>6. ASSUME NEW i \in DOMAIN q PROVE i \in Nat /\ i + k \in DOMAIN r /\ r[i + k] = q[i] /\ (k = 1 => i + k # 1)
    BY <1>1, <1>2, <1>3
<1>7. ASSUME NEW i \in DOMAIN q, NEW j \in DOMAIN q, q[i].clientID = s, q[j].clientID = s
      PROVE  i = j
    <2>1. i + k = j + k
        BY <1>4, <1>6, <1>7
    <2> QED
        BY <1>2, <1>6, <2>1
<1>8. ASSUME Busy(c), c.lastClientID = s PROVE 1 \in DOMAIN r /\ r[1].clientID = s /\ k = 1
    BY <1>1, <1>2, <1>3, <1>8
<1>9. ASSUME Busy(c), c.lastClientID = s, NEW i \in DOMAIN q PROVE q[i].clientID # s
    BY <1>4, <1>6, <1>8, <1>9
<1> QED
    BY <1>5, <1>6, <1>7, <1>8, <1>9 DEF q

THEOREM OneCommandInFlight == Spec => []OneInFlight
<1>1. ASSUME CorePart, FlightPart PROVE OneInFlight
    <2> SUFFICES ASSUME NEW s \in Tcp
                 PROVE  Cardinality(UNION {{id} \X {i \in DOMAIN coreInstances[id].commandQ :
                                              coreInstances[id].commandQ[i].clientID = s} : id \in RunningCores})
                      + Cardinality({id \in RunningCores : Busy(coreInstances[id])
                                        /\ coreInstances[id].lastClientID = s}) <= 1
        BY DEF OneInFlight
    <2> DEFINE Q(id) == {i \in DOMAIN coreInstances[id].commandQ : coreInstances[id].commandQ[i].clientID = s}
               A == UNION {{id} \X Q(id) : id \in RunningCores}
               B == {id \in RunningCores : Busy(coreInstances[id]) /\ coreInstances[id].lastClientID = s}
    <2>1. ASSUME NEW id \in RunningCores, id \in B \/ Q(id) # {}
          PROVE  /\ id = sessionContexts[s].coreID
                 /\ \A i, j \in Q(id) : i = j
                 /\ id \in B => Q(id) = {}
        <3> DEFINE c == coreInstances[id]
        <3>1. WF(c)
            BY <1>1 DEF CorePart, RunningCores
        <3>2. ASSUME DueTo(c, s) PROVE id = sessionContexts[s].coreID /\ OnceDue(c, s)
            BY <1>1, <3>2 DEF FlightPart
        <3>3. OnceDue(c, s)
            BY <3>2 DEF OnceDue, DueTo
        <3>4. /\ \A i, j \in DOMAIN c.commandQ :
                     c.commandQ[i].clientID = s /\ c.commandQ[j].clientID = s => i = j
              /\ Busy(c) /\ c.lastClientID = s => \A i \in DOMAIN c.commandQ : c.commandQ[i].clientID # s
              /\ (Busy(c) /\ c.lastClientID = s) \/ (\E i \in DOMAIN c.commandQ : c.commandQ[i].clientID = s)
                     => DueTo(c, s)
            BY <3>1, <3>3, OneDue
        <3>5. DueTo(c, s)
            BY <2>1, <3>4
        <3> QED
            BY <3>2, <3>4, <3>5
    <2>2. \A a \in A : \E id \in RunningCores : \E i \in Q(id) : a = <<id, i>>
        OBVIOUS
    <2>3. \A b \in B : b \in RunningCores
        OBVIOUS
    <2> HIDE DEF A, B, Q
    <2>4. ASSUME NEW a \in A, NEW b \in A PROVE a = b
        BY <2>1, <2>2
    <2>5. ASSUME NEW a \in B, NEW b \in B PROVE a = b
        BY <2>1, <2>3
    <2>6. ASSUME NEW a \in A, NEW b \in B PROVE FALSE
        BY <2>1, <2>2, <2>3
    <2>7. ASSUME NEW S, \A a, b \in S : a = b
          PROVE  Cardinality(S) \in 0..1 /\ (S = {} => Cardinality(S) = 0)
        <3>1. CASE S = {}
            BY <3>1, FS_EmptySet
        <3>2. CASE S # {}
            <4>1. PICK a : S = {a}
                BY <2>7, <3>2
            <4>2. Cardinality({a}) = 1
                BY FS_Singleton, Zenon
            <4> QED
                BY <3>2, <4>1, <4>2
        <3> QED
            BY <3>1, <3>2
    <2>8. Cardinality(A) \in 0..1 /\ (A = {} => Cardinality(A) = 0)
        BY <2>4, <2>7
    <2>9. Cardinality(B) \in 0..1 /\ (B = {} => Cardinality(B) = 0)
        BY <2>5, <2>7
    <2>10. A = {} \/ B = {}
        BY <2>6
    <2>11. Cardinality(A) + Cardinality(B) <= 1
        BY <2>8, <2>9, <2>10
    <2> QED
        BY <2>11 DEF A, B, Q
<1>2. Inv => OneInFlight
    BY <1>1, InvParts DEF Parts
<1> QED
    BY <1>2, Invariance, PTL

=============================================================================
