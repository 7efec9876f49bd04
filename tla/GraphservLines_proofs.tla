----------------------- MODULE GraphservLines_proofs -----------------------
(***************************************************************************)
(* What becomes of the lines a session has read, for any number of         *)
(* sessions, cores and lines and both main loops: they go with a core that  *)
(* dies or nowhere; with cores that live all are accounted for; without     *)
(* data sets the queued ones have a reply to wait for; and an HTTP          *)
(* connection of one request lives until it has been answered.              *)
(***************************************************************************)
EXTENDS GraphservOrder_proofs

-----------------------------------------------------------------------------
(* A status line answers the lines of its command, and takes back no other. *)
LEMMA AnsweredOnce ==
    ASSUME NEW sc, sc.replies \in Seq(Reply), NEW ce \in GivenCommand,
           NEW sc2, sc2.replies = Once(sc, ce)
    PROVE  sc2.replies \in Seq(Reply) /\ AnsweredLines(sc) \union EntryLines(ce) \subseteq AnsweredLines(sc2)
<1> DEFINE r == sc.replies
           u == sc2.replies
<1>1. ReplyTo(ce) \in Reply /\ EntryLines(ReplyTo(ce)) = EntryLines(ce)
    BY DEF ReplyTo, Reply, GivenCommand, Entry, EntryLines
<1>2. u \in Seq(Reply) /\ Len(r) + 1 \in DOMAIN u /\ u[Len(r) + 1] = ReplyTo(ce)
      /\ \A i \in DOMAIN r : i \in DOMAIN u /\ u[i] = r[i]
    BY <1>1 DEF Once
<1>3. ReplyTo(ce) \in Range(u) /\ Range(r) \subseteq Range(u)
    BY <1>2 DEF Range
<1> QED
    BY <1>1, <1>2, <1>3 DEF AnsweredLines

LEMMA AnsweredMore ==
    ASSUME NEW sc \in SessionContext, NEW ce \in GivenCommand, NEW sc2, Replied(sc, sc2, ce)
    PROVE  AnsweredLines(sc) \union EntryLines(ce) \subseteq AnsweredLines(sc2)
<1>0. sc.replies \in Seq(Reply)
    BY DEF SessionContext
<1>1. CASE sc2.replies = Once(sc, ce)
    BY <1>0, <1>1, AnsweredOnce
<1>2. CASE sc2.replies = Append(Once(sc, ce), ReplyTo(ce))
    <2> DEFINE z == [replies |-> Once(sc, ce)]
    <2>1. z.replies = Once(sc, ce) /\ sc2.replies = Once(z, ce)
        BY <1>2 DEF Once
    <2> HIDE DEF z
    <2>2. z.replies \in Seq(Reply) /\ AnsweredLines(sc) \union EntryLines(ce) \subseteq AnsweredLines(z)
        BY <1>0, <2>1, AnsweredOnce
    <2>3. AnsweredLines(z) \subseteq AnsweredLines(sc2)
        BY <2>1, <2>2, AnsweredOnce
    <2> QED
        BY <2>2, <2>3
<1> QED
    BY <1>1, <1>2 DEF Replied

-----------------------------------------------------------------------------
(* Core d, which core c becomes, owes all that c did, and is sending a data *)
(* set only if c was: that of the same reply.                               *)
CoreKeeps(c, d) ==
    /\ Range(RepliesDue(c)) \subseteq Range(RepliesDue(d))
    /\ d.expectingDataset => c.expectingDataset /\ RepliesDue(d)[1] = RepliesDue(c)[1]

LEMMA SameKeeps ==
    ASSUME NEW c, NEW d, RepliesDue(d) = RepliesDue(c), d.expectingDataset = c.expectingDataset
    PROVE  CoreKeeps(c, d)
BY DEF CoreKeeps

LEMMA KeepsAll ==
    ASSUME NEW s, NEW c, NEW d, CoreKeeps(c, d)
    PROVE  LinesWithCore(s, c) \subseteq LinesWithCore(s, d)
BY DEF CoreKeeps, LinesWithCore

(* Flushing a queue, an exit, a signal and the core's own steps.            *)
LEMMA QuietKeeps ==
    ASSUME NEW c, WF(c)
    PROVE  /\ CoreKeeps(c, c) /\ CoreKeeps(c, FlushCommandQ(c)) /\ CoreKeeps(c, Exit(c))
           /\ CoreKeeps(c, Terminate(c)) /\ CoreKeeps(c, NotRunning(c))
           /\ \A b \in BOOLEAN : CanAnswer(c) => CoreKeeps(c, Answer(c, b))
           /\ \A b \in BOOLEAN : CanContinue(c) => CoreKeeps(c, Continue(c, b))
<1>0. c \in CoreRecords(STRING, SessionIDs, GivenCommand)
    BY DEF WF, WellFormed
<1>1. /\ RepliesDue(FlushCommandQ(c)) = RepliesDue(c)
      /\ RepliesDue(Exit(c)) = RepliesDue(c) /\ RepliesDue(Terminate(c)) = RepliesDue(c)
      /\ RepliesDue(NotRunning(c)) = RepliesDue(c)
      /\ \A b \in BOOLEAN : CanAnswer(c) => RepliesDue(Answer(c, b)) = RepliesDue(c)
      /\ \A b \in BOOLEAN : CanContinue(c) => RepliesDue(Continue(c, b)) = RepliesDue(c)
    BY FlushDue, QuietDue DEF WF
<1>2. FlushCommandQ(c).expectingDataset = c.expectingDataset
    BY <1>0 DEF FlushCommandQ, WriteFirst, CoreRecords, Busy
<1>3. /\ Exit(c).expectingDataset = c.expectingDataset
      /\ Terminate(c).expectingDataset = c.expectingDataset
      /\ NotRunning(c).expectingDataset = c.expectingDataset
    BY <1>0 DEF Exit, Terminate, NotRunning, CoreRecords
<1>4. \A b \in BOOLEAN : Answer(c, b).expectingDataset = c.expectingDataset
    BY <1>0 DEF Answer, FinishCommand, CoreRecords
<1>5. \A b \in BOOLEAN : Continue(c, b).expectingDataset = c.expectingDataset
    BY <1>0 DEF Continue, FinishCommand, CoreRecords
<1> QED
    BY <1>1, <1>2, <1>3, <1>4, <1>5, SameKeeps

(* A core that is sending a data set owes the reply it belongs to.          *)
LEMMA SendingDue ==
    ASSUME NEW c, WF(c), c.expectingDataset
    PROVE  1 \in DOMAIN RepliesDue(c)
<1>1. RepliesDue(c) \in Seq(GivenCommand)
    BY RepliesDueType DEF WF
<1>2. Busy(c)
    BY DEF Busy
<1>3. Len(RepliesDue(c)) = Len(c.commandQ) + 1 /\ Len(c.commandQ) \in Nat
    BY <1>2, DuePlaces DEF WF, AtCore
<1> QED
    BY <1>1, <1>3

(* A command given to a core is with it afterwards.                         *)
LEMMA GivenKeeps ==
    ASSUME NEW c, WF(c), NEW ce \in GivenCommand
    PROVE  LET d == FlushCommandQ(QueueCommand(c, ce))
           IN  /\ CoreKeeps(c, d) /\ ce \in Range(RepliesDue(d))
               /\ CoreKeeps(c, NotRunning(d)) /\ ce \in Range(RepliesDue(NotRunning(d)))
<1> DEFINE q == QueueCommand(c, ce)
           d == FlushCommandQ(q)
           e == NotRunning(d)
           r == RepliesDue(c)
<1>1. WF(q) /\ RepliesDue(q) = Append(r, ce) /\ r \in Seq(GivenCommand)
    BY QueueWellFormed, QueueDue, RepliesDueType DEF WF
<1>2. q.expectingDataset = c.expectingDataset
    BY DEF QueueCommand, WF, WellFormed, CoreRecords
<1> HIDE DEF q
<1>3. WF(d) /\ RepliesDue(d) = Append(r, ce)
    BY <1>1, FlushDue, FlushWellFormed DEF WF
<1>4. d.expectingDataset = c.expectingDataset
    BY <1>1, <1>2 DEF FlushCommandQ, WriteFirst, WF, WellFormed, CoreRecords, Busy
<1> HIDE DEF d
<1>5. RepliesDue(e) = Append(r, ce)
    BY <1>3, QuietDue DEF WF
<1>6. e.expectingDataset = c.expectingDataset
    BY <1>3, <1>4 DEF NotRunning, WF, WellFormed, CoreRecords
<1>7. c.expectingDataset => 1 \in DOMAIN r
    BY SendingDue
<1> HIDE DEF e, r
<1>8. /\ \A i \in DOMAIN r : i \in DOMAIN Append(r, ce) /\ Append(r, ce)[i] = r[i]
      /\ Len(r) + 1 \in DOMAIN Append(r, ce) /\ Append(r, ce)[Len(r) + 1] = ce
    BY <1>1
<1>9. Range(r) \subseteq Range(Append(r, ce)) /\ ce \in Range(Append(r, ce))
    BY <1>8 DEF Range
<1>10. c.expectingDataset => Append(r, ce)[1] = r[1]
    BY <1>7, <1>8
<1> QED
    BY <1>3, <1>4, <1>5, <1>6, <1>9, <1>10 DEF CoreKeeps, d, e, q, r

(* Reading a line of the first reply due: it stays due, or it was the last  *)
(* line; a status line may begin a data set, of that reply.                 *)
LEMMA ReadKeeps ==
    ASSUME NEW c, WF(c), c.fromCore # <<>>
    PROVE  LET d  == LineFromCore(c)
               ce == Head(c.fromCore).cmd
           IN  /\ RepliesDue(c)[1] = ce
               /\ Range(RepliesDue(c)) \subseteq Range(RepliesDue(d)) \union {ce}
               /\ d.expectingDataset => RepliesDue(d)[1] = ce
               /\ c.expectingReply \/ c.expectingDataset
<1> DEFINE d  == LineFromCore(c)
           ce == Head(c.fromCore).cmd
           r  == RepliesDue(c)
           u  == RepliesDue(d)
<1>1. r \in Seq(GivenCommand) /\ r # <<>> /\ Head(r) = ce /\ u = IF Busy(d) THEN r ELSE Tail(r)
    BY ReadDue, RepliesDueType DEF WF
<1>2. r[1] = ce
    BY <1>1
<1>3. d.expectingDataset => Busy(d)
    BY DEF Busy
<1>4. Busy(c)
    BY ReadWellFormed DEF WF
<1>5. \A i \in DOMAIN r : i = 1 \/ (i - 1 \in DOMAIN Tail(r) /\ Tail(r)[i - 1] = r[i])
    BY <1>1
<1> HIDE DEF d, ce, r, u
<1>6. Range(r) \subseteq Range(Tail(r)) \union {ce}
    BY <1>2, <1>5 DEF Range
<1> QED
    BY <1>1, <1>2, <1>3, <1>4, <1>6 DEF Busy, d, ce, r, u

-----------------------------------------------------------------------------
(* One session.  With cores such, the lines among its first m that are known *)
(* or new are in x or in E, or with a core, if they are commands.           *)
WithCores(s, cores) == UNION {LinesWithCore(s, cores[id]) : id \in DOMAIN cores}

Found(s, x, m, E, cores) ==
    \A n \in 1..m : n \in KnownLines(s) \/ n > linesRead[s] =>
        lines[s][n].word = Blank \/ n \in LinesHeld(x) \union E \union WithCores(s, cores)

\* A session goes on as before, or is new and has read nothing.
NoLineLost ==
    \A s \in DOMAIN sessionContexts' \ clientsToRemove' :
        \/ s \notin DOMAIN sessionContexts /\ linesRead'[s] = 0
        \/ /\ s \in DOMAIN sessionContexts \ clientsToRemove
           /\ sessionContexts'[s].connectionType = sessionContexts[s].connectionType
           /\ s \in Tcp => LinesKept(s) /\ \A n \in 1..linesRead'[s] : lines'[s][n] = lines[s][n]

\* Every core goes on owing what it owes; a new one is sending nothing.
CoresKeep ==
    /\ \A id \in DOMAIN coreInstances :
           id \in DOMAIN coreInstances' /\ CoreKeeps(coreInstances[id], coreInstances'[id])
    /\ \A id \in DOMAIN coreInstances' \ DOMAIN coreInstances : ~coreInstances'[id].expectingDataset

LEMMA CoresKeepLines ==
    ASSUME NEW s, CoresKeep
    PROVE  WithCores(s, coreInstances) \subseteq WithCores(s, coreInstances')
BY KeepsAll DEF CoresKeep, WithCores

LEMMA KnownAre ==
    ASSUME NEW s
    PROVE  /\ KnownLines(s) = LinesHeld(sessionContexts[s]) \union WithCores(s, coreInstances)
           /\ KnownLines(s)' = LinesHeld(sessionContexts'[s]) \union WithCores(s, coreInstances')
BY DEF KnownLines, WithCores

LEMMA FoundKept ==
    ASSUME NEW s, NEW m, linesRead'[s] = m, Found(s, sessionContexts'[s], m, {}, coreInstances')
    PROVE  LinesKept(s)
<1>1. KnownLines(s)' = LinesHeld(sessionContexts'[s]) \union WithCores(s, coreInstances')
    BY KnownAre
<1> QED
    BY <1>1 DEF Found, LinesKept

LEMMA HeldSame ==
    ASSUME NEW sc, NEW sc2, SameOrdered(sc, sc2)
    PROVE  LinesHeld(sc2) = LinesHeld(sc) /\ AnsweredLines(sc2) = AnsweredLines(sc)
BY DEF SameOrdered, SameInput, LinesHeld, AnsweredLines

LEMMA StatusKept ==
    ASSUME NEW s, NEW sc, NEW sc2, AnsweredLines(sc) \subseteq AnsweredLines(sc2),
           NEW c, NEW d, CoreKeeps(c, d), StatusCame(s, sc, c)
    PROVE  StatusCame(s, sc2, d)
BY DEF CoreKeeps, StatusCame

LEMMA CollectsSame ==
    ASSUME NEW s, NEW sc, NEW n \in Nat, NEW k, SessionOK(s, sc, n, k), NEW sc2, SameOrdered(sc, sc2),
           NEW input, NEW input2, \A i \in 1..n : input2[i] = input[i], CollectsCommand(sc, input)
    PROVE  CollectsCommand(sc2, input2)
BY DEF SessionOK, SameOrdered, SameInput, CollectsCommand

(* A step that reads no line, and after which every core owes what it owed. *)
LEMMA LinesStay ==
    ASSUME SessionPart, LinesInv, UNCHANGED linesRead,
           \A s \in SessionIDs : \A n \in 1..linesRead[s] : lines'[s][n] = lines[s][n],
           \A s \in SessionIDs : s > sessionIDCounter' => lines'[s] = <<>>,
           \A s \in Tcp' : \A n \in DOMAIN lines'[s] : Answerable(lines'[s][n]),
           \A id \in DOMAIN coreInstances' :
               id \in DOMAIN coreInstances /\ CoreKeeps(coreInstances[id], coreInstances'[id]),
           \A s \in DOMAIN sessionContexts' :
               /\ s \in DOMAIN sessionContexts /\ SameOrdered(sessionContexts[s], sessionContexts'[s])
               /\ s \in clientsToRemove => s \in clientsToRemove'
    PROVE  LinesInv' /\ NoLineLost
<1>1. ASSUME NEW s \in Tcp'
      PROVE  /\ s \in Tcp /\ s \in SessionIDs /\ linesRead[s] \in Nat
             /\ SameOrdered(sessionContexts[s], sessionContexts'[s])
             /\ SessionOK(s, sessionContexts[s], linesRead[s], coreIDCounter)
             /\ s \notin clientsToRemove' => s \notin clientsToRemove
    <2>1. /\ s \in DOMAIN sessionContexts /\ SameOrdered(sessionContexts[s], sessionContexts'[s])
          /\ s \in clientsToRemove => s \in clientsToRemove'
        BY DEF Tcp
    <2>2. s \in Tcp
        BY <2>1 DEF Tcp, SameOrdered, SameInput
    <2> QED
        BY <2>1, <2>2, SessionsStay
<1>2. ASSUME NEW s \in Tcp'
      PROVE  CollectsCommand(sessionContexts'[s], lines'[s])
    <2>1. CollectsCommand(sessionContexts[s], lines[s]) /\ \A n \in 1..linesRead[s] : lines'[s][n] = lines[s][n]
        BY <1>1 DEF LinesInv
    <2> QED
        BY <1>1, <2>1, CollectsSame
<1>3. ASSUME NEW s \in Tcp', s \notin clientsToRemove', NEW id \in DOMAIN coreInstances'
      PROVE  StatusCame(s, sessionContexts'[s], coreInstances'[id])
    <2>1. id \in DOMAIN coreInstances /\ CoreKeeps(coreInstances[id], coreInstances'[id])
        OBVIOUS
    <2>2. StatusCame(s, sessionContexts[s], coreInstances[id])
        BY <1>1, <1>3, <2>1 DEF LinesInv
    <2>3. AnsweredLines(sessionContexts[s]) \subseteq AnsweredLines(sessionContexts'[s])
        BY <1>1, HeldSame
    <2> QED
        BY <2>1, <2>2, <2>3, StatusKept
<1>4. LinesInv'
    BY <1>2, <1>3 DEF LinesInv
<1>5. ASSUME NEW s \in Tcp, s \in DOMAIN sessionContexts', NEW n \in KnownLines(s)
      PROVE  \/ n \in KnownLines(s)'
             \/ \E id \in DOMAIN coreInstances \ DOMAIN coreInstances' : n \in LinesWithCore(s, coreInstances[id])
    <2>1. LinesHeld(sessionContexts'[s]) = LinesHeld(sessionContexts[s])
        BY <1>5, HeldSame
    <2>2. ASSUME NEW id \in DOMAIN coreInstances, id \in DOMAIN coreInstances',
                 n \in LinesWithCore(s, coreInstances[id])
          PROVE  n \in WithCores(s, coreInstances')
        BY <2>2, KeepsAll DEF WithCores
    <2> QED
        BY <2>1, <2>2, KnownAre DEF WithCores
<1>6. \A s \in Tcp : s \in SessionIDs /\ linesRead[s] \in Nat
    BY SessionsStay DEF Tcp
<1>7. \A s \in Tcp : s \in DOMAIN sessionContexts' => LinesKept(s)
    BY <1>5, <1>6 DEF LinesKept
<1>8. NoLineLost
    BY <1>6, <1>7 DEF NoLineLost, SameOrdered, SameInput
<1> QED
    BY <1>4, <1>8

-----------------------------------------------------------------------------
(* A line of session s has been handled, with m lines read.                 *)
LinesHandled(s, m) ==
    /\ CoresKeep /\ clientsToRemove \subseteq clientsToRemove'
    /\ \E sc2 :
          /\ Becomes(s, sc2) /\ sc2.connectionType = sessionContexts[s].connectionType
          /\ sc2.connectionType = "TCP" =>
                /\ CollectsCommand(sc2, lines[s])
                /\ AnsweredLines(sessionContexts[s]) \subseteq AnsweredLines(sc2)
                /\ Found(s, sc2, m, {}, coreInstances')

LEMMA LineLinesStep ==
    ASSUME SessionPart, LinesInv, NEW s \in DOMAIN sessionContexts, NEW m \in Nat, LinesHandled(s, m),
           UNCHANGED <<lines, sessionIDCounter>>, linesRead' = [linesRead EXCEPT ![s] = m]
    PROVE  LinesInv' /\ NoLineLost
<1>0. s \in SessionIDs /\ linesRead \in [SessionIDs -> Nat]
    BY DEF SessionPart
<1>1. PICK sc2 :
          /\ Becomes(s, sc2) /\ sc2.connectionType = sessionContexts[s].connectionType
          /\ sc2.connectionType = "TCP" =>
                /\ CollectsCommand(sc2, lines[s])
                /\ AnsweredLines(sessionContexts[s]) \subseteq AnsweredLines(sc2)
                /\ Found(s, sc2, m, {}, coreInstances')
    BY DEF LinesHandled
<1>2. CoresKeep /\ clientsToRemove \subseteq clientsToRemove'
    BY DEF LinesHandled
<1>3. sessionContexts' = [sessionContexts EXCEPT ![s] = sc2]
    BY <1>1 DEF Becomes
<1>4. ASSUME NEW t \in Tcp'
      PROVE  /\ t \in Tcp /\ t \in SessionIDs /\ linesRead[t] \in Nat
             /\ AnsweredLines(sessionContexts[t]) \subseteq AnsweredLines(sessionContexts'[t])
             /\ CollectsCommand(sessionContexts'[t], lines[t])
             /\ LinesKept(t)
    <2>1. t \in Tcp /\ t \in SessionIDs /\ linesRead[t] \in Nat
        BY <1>0, <1>1, <1>3 DEF Tcp, SessionPart
    <2>2. CASE t = s
        <3>1. sessionContexts'[t] = sc2 /\ sc2.connectionType = "TCP" /\ linesRead'[t] = m
            BY <1>0, <1>3, <2>2 DEF Tcp
        <3> QED
            BY <1>1, <2>1, <2>2, <3>1, FoundKept
    <2>3. CASE t # s
        <3>1. sessionContexts'[t] = sessionContexts[t] /\ linesRead'[t] = linesRead[t]
            BY <1>0, <1>3, <2>1, <2>3 DEF Tcp
        <3>2. \A n \in 1..linesRead[t] : ~(n > linesRead[t])
            BY <2>1
        <3>3. Found(t, sessionContexts'[t], linesRead[t], {}, coreInstances')
            BY <1>2, <3>1, <3>2, KnownAre, CoresKeepLines DEF Found
        <3>4. LinesKept(t)
            BY <3>1, <3>3, FoundKept
        <3> QED
            BY <2>1, <3>1, <3>4 DEF LinesInv
    <2> QED
        BY <2>2, <2>3
<1>5. ASSUME NEW t \in Tcp', t \notin clientsToRemove', NEW id \in DOMAIN coreInstances'
      PROVE  StatusCame(t, sessionContexts'[t], coreInstances'[id])
    <2>1. CASE id \in DOMAIN coreInstances
        <3>1. CoreKeeps(coreInstances[id], coreInstances'[id])
            BY <1>2, <2>1 DEF CoresKeep
        <3>2. StatusCame(t, sessionContexts[t], coreInstances[id])
            BY <1>2, <1>4, <1>5, <2>1 DEF LinesInv
        <3> QED
            BY <1>4, <3>1, <3>2, StatusKept
    <2>2. CASE id \notin DOMAIN coreInstances
        BY <1>2, <2>2 DEF CoresKeep, StatusCame
    <2> QED
        BY <2>1, <2>2
<1>6. \A t \in Tcp' : \A n \in DOMAIN lines'[t] : Answerable(lines'[t][n])
    BY <1>4 DEF LinesInv
<1>7. LinesInv'
    BY <1>4, <1>5, <1>6 DEF LinesInv
<1>8. \A t \in DOMAIN sessionContexts' :
          /\ t \in DOMAIN sessionContexts
          /\ sessionContexts'[t].connectionType = sessionContexts[t].connectionType
    BY <1>1, <1>3
<1>9. NoLineLost
    BY <1>2, <1>4, <1>8 DEF NoLineLost, Tcp
<1> QED
    BY <1>7, <1>9

-----------------------------------------------------------------------------
(* Executing a command answers it, or a core has it, unless it is one that  *)
(* is not answered.  No core loses what it had.                             *)
LEMMA ExecutedKeeps ==
    ASSUME CorePart, NEW s, NEW x \in SessionContext, NEW ce \in GivenCommand, ce.clientID = s,
           NEW line, NEW sc2, Executed(s, x, ce, line, sc2)
    PROVE  /\ CoresKeep /\ AnsweredLines(x) \subseteq AnsweredLines(sc2)
           /\ \/ EntryLines(ce) \subseteq AnsweredLines(sc2) \union WithCores(s, coreInstances')
              \/ Silent(ce, line)
<1>0. DOMAIN coreInstances \subseteq Nat /\ \A id \in DOMAIN coreInstances : WF(coreInstances[id])
    BY DEF CorePart
<1>3. /\ Replied(x, sc2, ce) => AnsweredLines(x) \union EntryLines(ce) \subseteq AnsweredLines(sc2)
      /\ sc2.replies = Once(x, ce) => AnsweredLines(x) \subseteq AnsweredLines(sc2)
      /\ sc2.replies = x.replies => AnsweredLines(x) \subseteq AnsweredLines(sc2)
    <2>1. Replied(x, sc2, ce) => AnsweredLines(x) \union EntryLines(ce) \subseteq AnsweredLines(sc2)
        BY <1>0, AnsweredMore
    <2>2. sc2.replies = Once(x, ce) => Replied(x, sc2, ce)
        BY DEF Replied
    <2>3. sc2.replies = x.replies => AnsweredLines(x) \subseteq AnsweredLines(sc2)
        BY DEF AnsweredLines
    <2> QED
        BY <2>1, <2>2, <2>3
<1>4. \A id \in DOMAIN coreInstances :
          /\ CoreKeeps(coreInstances[id], coreInstances[id])
          /\ CoreKeeps(coreInstances[id], Terminate(coreInstances[id]))
    BY <1>0, QuietKeeps
<1> DEFINE Settled ==
               /\ CoresKeep /\ AnsweredLines(x) \subseteq AnsweredLines(sc2)
               /\ \/ EntryLines(ce) \subseteq AnsweredLines(sc2) \union WithCores(s, coreInstances')
                  \/ Silent(ce, line)
<1>5. ASSUME AnsweredHere(x, sc2, ce, line) PROVE Settled
    <2>1. CoresKeep
        BY <1>4, <1>5 DEF AnsweredHere, CoresKeep
    <2> QED
        BY <1>3, <1>5, <2>1 DEF AnsweredHere
<1>6. ASSUME GivenToCore(x, sc2, ce) PROVE Settled
    <2>k. PICK k : k = x.coreID
        OBVIOUS
    <2>d. PICK d : d = FlushCommandQ(QueueCommand(coreInstances[k], ce))
        OBVIOUS
    <2>1. k \in DOMAIN coreInstances /\ WF(coreInstances[k])
        BY <1>0, <1>6, <2>k DEF GivenToCore, FindInstance
    <2>2. \A e \in {d, NotRunning(d)} : CoreKeeps(coreInstances[k], e) /\ ce \in Range(RepliesDue(e))
        BY <2>d, <2>1, GivenKeeps
    <2>3. \E e \in {d, NotRunning(d)} : coreInstances' = [coreInstances EXCEPT ![k] = e]
        BY <1>6, <2>k, <2>d DEF GivenToCore
    <2>4. PICK e : /\ coreInstances' = [coreInstances EXCEPT ![k] = e]
                   /\ CoreKeeps(coreInstances[k], e) /\ ce \in Range(RepliesDue(e))
        BY <2>2, <2>3
    <2>5. CoresKeep
        BY <1>4, <2>1, <2>4 DEF CoresKeep
    <2>6. EntryLines(ce) \subseteq LinesWithCore(s, e)
        BY <2>4 DEF LinesWithCore
    <2>7. coreInstances'[k] = e /\ k \in DOMAIN coreInstances'
        BY <2>1, <2>4
    <2>8. EntryLines(ce) \subseteq WithCores(s, coreInstances')
        BY <2>6, <2>7 DEF WithCores
    <2>9. AnsweredLines(x) \subseteq AnsweredLines(sc2)
        BY <1>3, <1>6 DEF GivenToCore
    <2> QED
        BY <2>5, <2>8, <2>9
<1>7. ASSUME CoreCreated(x, sc2, ce) PROVE Settled
    <2>1. ASSUME UNCHANGED coreInstances PROVE CoresKeep
        BY <1>4, <2>1 DEF CoresKeep
    <2>2. ASSUME NEW name,
                 coreInstances' = [id \in DOMAIN coreInstances \union {coreIDCounter + 1} |->
                                     IF id = coreIDCounter + 1 THEN StartCore(name)
                                     ELSE coreInstances[id]]
          PROVE  CoresKeep
        <3>1. coreIDCounter + 1 \notin DOMAIN coreInstances
            BY DEF CorePart
        <3>2. ~StartCore(name).expectingDataset
            BY DEF StartCore
        <3> QED
            BY <1>4, <2>2, <3>1, <3>2 DEF CoresKeep
    <2>3. CoresKeep
        BY <1>7, <2>1, <2>2 DEF CoreCreated
    <2> QED
        BY <1>3, <1>7, <2>3 DEF CoreCreated
<1>8. ASSUME CoreDropped(x, sc2, ce) PROVE Settled
    <2>1. PICK id \in RunningCores : coreInstances' = [coreInstances EXCEPT ![id] = Terminate(@)]
        BY <1>8 DEF CoreDropped
    <2>2. CoresKeep
        BY <1>4, <2>1 DEF CoresKeep, RunningCores
    <2> QED
        BY <1>3, <1>8, <2>2 DEF CoreDropped
<1> QED
    BY <1>5, <1>6, <1>7, <1>8 DEF Executed

(* The other lines of the session stay where they are.                      *)
LEMMA ExecutedLines ==
    ASSUME SessionPart, CorePart,
           NEW s \in DOMAIN sessionContexts, NEW m \in Nat, NEW x, SessionOK(s, x, m, coreIDCounter),
           x.connectionType = sessionContexts[s].connectionType, x.curCommand = NoCommand,
           NEW ce \in GivenCommand, ce.clientID = s,
           NEW line \in CommandLine, ProcessCommand(s, x, ce, line),
           x.connectionType = "TCP" =>
               /\ AnsweredLines(sessionContexts[s]) \subseteq AnsweredLines(x)
               /\ Found(s, x, m, EntryLines(ce), coreInstances)
               /\ Silent(ce, line) => \A n \in EntryLines(ce) : lines[s][n].word = Blank
    PROVE  LinesHandled(s, m)
<1>0. /\ x \in SessionContext /\ DOMAIN coreInstances \subseteq Nat
      /\ \A id \in DOMAIN coreInstances : WF(coreInstances[id])
    BY DEF SessionOK, CorePart
<1>1. PICK sc2 : Executed(s, x, ce, line, sc2)
    BY <1>0, CommandExecuted
<1>2. /\ Becomes(s, sc2) /\ SameInput(x, sc2) /\ clientsToRemove \subseteq clientsToRemove'
      /\ sc2.connectionType = x.connectionType /\ sc2.curCommand = NoCommand
    BY <1>1 DEF Executed, SameInput
<1>3. /\ CoresKeep /\ AnsweredLines(x) \subseteq AnsweredLines(sc2)
      /\ \/ EntryLines(ce) \subseteq AnsweredLines(sc2) \union WithCores(s, coreInstances')
         \/ Silent(ce, line)
    BY <1>0, <1>1, ExecutedKeeps
<1>4. CollectsCommand(sc2, lines[s])
    BY <1>2 DEF CollectsCommand
<1>5. ASSUME x.connectionType = "TCP" PROVE Found(s, sc2, m, {}, coreInstances')
    <2>1. LinesHeld(x) \subseteq LinesHeld(sc2)
        BY <1>2, <1>3 DEF LinesHeld, SameInput
    <2>2. WithCores(s, coreInstances) \subseteq WithCores(s, coreInstances')
        BY <1>3, CoresKeepLines
    <2>3. AnsweredLines(sc2) \subseteq LinesHeld(sc2)
        BY DEF LinesHeld
    <2> QED
        BY <1>3, <1>5, <2>1, <2>2, <2>3 DEF Found
<1> QED
    BY <1>2, <1>3, <1>4, <1>5 DEF LinesHandled

(* A line that only changes what the session holds.                         *)
LEMMA AnsweredHeld ==
    ASSUME CorePart, NEW s \in DOMAIN sessionContexts, NEW m, NEW y, Answered(s, y),
           y.connectionType = sessionContexts[s].connectionType,
           y.connectionType = "TCP" =>
               /\ CollectsCommand(y, lines[s])
               /\ AnsweredLines(sessionContexts[s]) \subseteq AnsweredLines(y)
               /\ Found(s, y, m, {}, coreInstances)
    PROVE  LinesHandled(s, m)
<1>1. Becomes(s, y) /\ UNCHANGED <<coreInstances, clientsToRemove>>
    BY DEF Answered
<1>2. CoresKeep
    BY <1>1, QuietKeeps DEF CoresKeep, CorePart
<1> QED
    BY <1>1, <1>2 DEF LinesHandled

(* Where a line goes that is held back.                                     *)
LEMMA HeldMore ==
    ASSUME NEW s, NEW m, NEW x, NEW n, NEW y, Found(s, x, m, {n}, coreInstances),
           \A k \in 1..m : k \in LinesHeld(x) \union {n} => k \in LinesHeld(y)
    PROVE  Found(s, y, m, {}, coreInstances)
BY DEF Found

LEMMA NoCommandLines ==
    ASSUME NEW n \in Nat, n # 0
    PROVE  n \notin EntryLines(NoCommand)
<1>1. NoCommand.tag = 0 /\ NoCommand.dataset = <<>> /\ Range(<<>>) = {}
    BY DEF NoCommand, NewCommand, Range
<1> QED
    BY <1>1 DEF EntryLines

LEMMA RangeAppended ==
    ASSUME NEW q \in Seq(Nat), NEW n \in Nat
    PROVE  Range(Append(q, n)) = Range(q) \union {n}
<1> DEFINE a == Append(q, n)
<1>1. /\ \A i \in DOMAIN q : i \in DOMAIN a /\ a[i] = q[i]
      /\ Len(q) + 1 \in DOMAIN a /\ a[Len(q) + 1] = n
      /\ \A i \in DOMAIN a : a[i] = n \/ (i \in DOMAIN q /\ a[i] = q[i])
    OBVIOUS
<1> HIDE DEF a
<1>2. Range(a) = Range(q) \union {n}
    BY <1>1 DEF Range
<1> QED
    BY <1>2 DEF a

(* A line of session s: x is the session without it.                        *)
LEMMA LineLines ==
    ASSUME SessionPart, CorePart,
           NEW s \in DOMAIN sessionContexts, NEW m \in Nat, m <= Len(lines[s]), NEW n \in 1..m,
           NEW x, SessionOK(s, x, m, coreIDCounter),
           x.connectionType = sessionContexts[s].connectionType,
           x.connectionType = "TCP" =>
               /\ \A i \in DOMAIN lines[s] : Answerable(lines[s][i])
               /\ CollectsCommand(x, lines[s])
               /\ AnsweredLines(sessionContexts[s]) \subseteq AnsweredLines(x)
               /\ Found(s, x, m, {n}, coreInstances),
           NEW queued \in BOOLEAN, LineFromClient(s, x, n, queued)
    PROVE  LinesHandled(s, m)
<1> DEFINE line == lines[s][n]
           ce   == NewCommand(s, n, line.word, line.colon)
           cur  == AppendToDataset(x.curCommand, n, line.word = Blank)
<1>0. s \in SessionIDs /\ x \in SessionContext /\ lines[s] \in Seq(CommandLine)
    BY DEF SessionPart, SessionOK
<1>1. \A i \in 1..m : i \in DOMAIN lines[s] /\ lines[s][i] \in CommandLine /\ i \in Nat /\ i # 0
    BY <1>0
<1>2. line \in CommandLine /\ n \in Nat
    BY <1>1
<1>3. /\ ce \in Entry /\ ce.clientID = s /\ ce.tag = n /\ (Flushable(ce) => ce \in GivenCommand)
      /\ ce.word = line.word /\ (~Flushable(ce) => line.colon) /\ EntryLines(ce) = {n}
    <2>1. ce.word = line.word /\ (~Flushable(ce) => line.colon) /\ ce.tag = n /\ ce.dataset = <<>>
        BY DEF NewCommand, Flushable
    <2>2. Range(<<>>) = {}
        BY DEF Range
    <2> QED
        BY <1>0, <1>2, <2>1, <2>2, CommandOfLine DEF EntryLines
<1>4. ASSUME x.curCommand # NoCommand, ~Flushable(x.curCommand)
      PROVE  /\ cur \in Entry /\ cur.clientID = s /\ cur.tag \in 1..m
             /\ cur.tag = x.curCommand.tag /\ cur.word = x.curCommand.word
             /\ Flushable(cur) => cur \in GivenCommand
             /\ EntryLines(x.curCommand) \union {n} \subseteq EntryLines(cur)
    <2>1. x.curCommand.clientID = s /\ x.curCommand.tag \in 1..m /\ x.curCommand \in Entry
        BY <1>0, <1>4 DEF SessionOK, SessionContext
    <2>2. /\ cur \in Entry /\ cur.clientID = s /\ cur.tag = x.curCommand.tag
          /\ Flushable(cur) => cur \in GivenCommand
        BY <1>0, <1>2, <2>1, CollectedCommand
    <2>3. cur.word = x.curCommand.word
        BY <2>1, CollectedWord
    <2>4. cur.dataset = Append(x.curCommand.dataset, n) /\ x.curCommand.dataset \in Seq(Nat)
        BY <1>4, <2>1 DEF AppendToDataset, Entry
    <2>5. \A q \in Seq(Nat) : Range(Append(q, n)) = Range(q) \union {n}
        BY <1>2, RangeAppended
    <2> HIDE DEF cur
    <2> QED
        BY <2>1, <2>2, <2>3, <2>4, <2>5 DEF EntryLines
<1> HIDE DEF ce, cur, line
<1>6. CASE /\ x.curCommand # NoCommand /\ ~Flushable(x.curCommand) /\ Flushable(cur)
           /\ ProcessCommand(s, [x EXCEPT !.curCommand = NoCommand], cur, lines[s][cur.tag])
    <2> DEFINE y == [x EXCEPT !.curCommand = NoCommand]
    <2>1. NoCommand \in Entry
        BY NoCommandTyped
    <2>2. /\ SessionOK(s, y, m, coreIDCounter) /\ y.curCommand = NoCommand
          /\ y.connectionType = x.connectionType /\ y.lineQueue = x.lineQueue /\ y.replies = x.replies
        BY <1>0, <2>1 DEF SessionOK, SessionContext
    <2>3. lines[s][cur.tag] \in CommandLine /\ cur.tag \in DOMAIN lines[s]
        BY <1>1, <1>4, <1>6
    <2>4. ProcessCommand(s, y, cur, lines[s][cur.tag])
        BY <1>6
    <2> HIDE DEF y
    <2>5. ASSUME x.connectionType = "TCP"
          PROVE  /\ AnsweredLines(sessionContexts[s]) \subseteq AnsweredLines(y)
                 /\ Found(s, y, m, EntryLines(cur), coreInstances)
                 /\ ~Silent(cur, lines[s][cur.tag])
        <3>1. AnsweredLines(y) = AnsweredLines(x)
            BY <2>2 DEF AnsweredLines
        <3>2. LinesHeld(x) \union {n} \subseteq LinesHeld(y) \union EntryLines(cur)
            BY <1>4, <1>6, <2>2, <3>1 DEF LinesHeld
        <3>3. Found(s, y, m, EntryLines(cur), coreInstances)
            BY <2>5, <3>2 DEF Found
        <3>4. cur.word = lines[s][cur.tag].word /\ cur.word # Blank /\ Answerable(lines[s][cur.tag])
            BY <1>4, <1>6, <2>3, <2>5 DEF CollectsCommand
        <3> QED
            BY <2>5, <3>1, <3>3, <3>4 DEF Silent, Answerable
    <2> QED
        BY <1>4, <1>6, <2>2, <2>3, <2>4, <2>5, ExecutedLines
<1>7. CASE /\ x.curCommand # NoCommand /\ ~Flushable(x.curCommand)
           /\ Answered(s, [x EXCEPT !.curCommand = cur])
    <2> DEFINE y == [x EXCEPT !.curCommand = cur]
    <2>1. /\ y.connectionType = x.connectionType /\ y.lineQueue = x.lineQueue /\ y.replies = x.replies
          /\ y.curCommand = cur
        BY <1>0 DEF SessionContext
    <2>2. Answered(s, y)
        BY <1>7
    <2> HIDE DEF y
    <2>3. AnsweredLines(y) = AnsweredLines(x)
        BY <2>1 DEF AnsweredLines
    <2>4. x.connectionType = "TCP" => CollectsCommand(y, lines[s])
        BY <1>4, <1>7, <2>1 DEF CollectsCommand
    <2>5. LinesHeld(x) \union {n} \subseteq LinesHeld(y)
        BY <1>4, <1>7, <2>1, <2>3 DEF LinesHeld
    <2>6. x.connectionType = "TCP" => Found(s, y, m, {}, coreInstances)
        BY <2>5, HeldMore
    <2> QED
        BY <2>1, <2>2, <2>3, <2>4, <2>6, AnsweredHeld
<1>8. CASE Answered(s, [x EXCEPT !.lineQueue = Append(@, n)])
    <2> DEFINE y == [x EXCEPT !.lineQueue = Append(@, n)]
    <2>1. /\ y.connectionType = x.connectionType /\ y.lineQueue = Append(x.lineQueue, n)
          /\ y.replies = x.replies /\ y.curCommand = x.curCommand /\ x.lineQueue \in Seq(Nat)
        BY <1>0 DEF SessionContext
    <2>2. Answered(s, y)
        BY <1>8
    <2> HIDE DEF y
    <2>3. AnsweredLines(y) = AnsweredLines(x)
        BY <2>1 DEF AnsweredLines
    <2>4. x.connectionType = "TCP" => CollectsCommand(y, lines[s])
        BY <2>1 DEF CollectsCommand
    <2>5. Range(y.lineQueue) = Range(x.lineQueue) \union {n}
        BY <1>2, <2>1, RangeAppended
    <2>6. LinesHeld(x) \union {n} \subseteq LinesHeld(y)
        BY <2>1, <2>3, <2>5 DEF LinesHeld
    <2>7. x.connectionType = "TCP" => Found(s, y, m, {}, coreInstances)
        BY <2>6, HeldMore
    <2> QED
        BY <2>1, <2>2, <2>3, <2>4, <2>7, AnsweredHeld
<1>9. CASE x.curCommand = NoCommand /\ Flushable(ce) /\ ProcessCommand(s, x, ce, line)
    <2>1. ASSUME x.connectionType = "TCP", Silent(ce, line)
          PROVE  \A k \in EntryLines(ce) : lines[s][k].word = Blank
        <3>1. Answerable(line)
            BY <1>1, <2>1 DEF line
        <3> QED
            BY <1>3, <2>1, <3>1 DEF Silent, Answerable, line
    <2>2. x.connectionType = "TCP" => Found(s, x, m, EntryLines(ce), coreInstances)
        BY <1>3
    <2>3. ce \in GivenCommand /\ ce.clientID = s
        BY <1>3, <1>9
    <2>4. ProcessCommand(s, x, ce, line) /\ x.curCommand = NoCommand
        BY <1>9
    <2> QED
        BY <1>2, <2>1, <2>2, <2>3, <2>4, ExecutedLines
<1>10. CASE x.curCommand = NoCommand /\ ~Flushable(ce) /\ Answered(s, [x EXCEPT !.curCommand = ce])
    <2> DEFINE y == [x EXCEPT !.curCommand = ce]
    <2>1. /\ y.connectionType = x.connectionType /\ y.lineQueue = x.lineQueue /\ y.replies = x.replies
          /\ y.curCommand = ce
        BY <1>0 DEF SessionContext
    <2>2. Answered(s, y)
        BY <1>10
    <2> HIDE DEF y
    <2>3. AnsweredLines(y) = AnsweredLines(x)
        BY <2>1 DEF AnsweredLines
    <2>4. ASSUME x.connectionType = "TCP" PROVE CollectsCommand(y, lines[s])
        <3>1. Answerable(line)
            BY <1>1, <2>4 DEF line
        <3> QED
            BY <1>3, <1>10, <2>1, <3>1 DEF CollectsCommand, Answerable, line
    <2>5. ASSUME NEW k \in 1..m, k \in LinesHeld(x) \union {n} PROVE k \in LinesHeld(y)
        <3>1. k \notin EntryLines(x.curCommand)
            BY <1>1, <1>10, NoCommandLines
        <3> QED
            BY <1>3, <2>1, <2>3, <2>5, <3>1 DEF LinesHeld
    <2>6. x.connectionType = "TCP" => Found(s, y, m, {}, coreInstances)
        BY <2>5, HeldMore
    <2> QED
        BY <2>1, <2>2, <2>3, <2>4, <2>6, AnsweredHeld
<1> QED
    BY <1>6, <1>7, <1>8, <1>9, <1>10 DEF LineFromClient, ce, cur, line

(* For an HTTP session only what becomes of the cores matters.              *)
LEMMA RequestLines ==
    ASSUME SessionPart, CorePart,
           NEW s \in DOMAIN sessionContexts, NEW m \in Nat, m <= Len(lines[s]), NEW n \in 1..m,
           SessionOK(s, sessionContexts[s], m, coreIDCounter),
           sessionContexts[s].connectionType # "TCP",
           LineFromHTTPClient(s, sessionContexts[s], n)
    PROVE  LinesHandled(s, m)
<1> DEFINE sc == sessionContexts[s]
           ce == NewCommand(s, n, lines[s][n].word, FALSE)
           y  == ForwardStatusline(sc, ce, FALSE)
<1>0. s \in SessionIDs /\ sc \in SessionContext /\ lines[s] \in Seq(CommandLine) /\ coreIDCounter \in Nat
    BY DEF SessionPart, SessionOK, CorePart
<1>1. lines[s][n] \in CommandLine /\ n \in Nat
    BY <1>0
<1>2. ce \in GivenCommand /\ ce.clientID = s
    BY <1>0, <1>1 DEF NewCommand, Entry, CommandLine, GivenCommand, Flushable
<1> HIDE DEF ce
<1>3. CASE Status(s, sc, ce)
    <2>1. SameInput(sc, y)
        BY <1>0, <1>2, Forwarding
    <2>2. Answered(s, y)
        BY <1>3 DEF Status
    <2> HIDE DEF y
    <2>3. y.connectionType = sc.connectionType /\ y.connectionType # "TCP"
        BY <2>1 DEF SameInput
    <2> QED
        BY <2>2, <2>3, AnsweredHeld
<1>4. CASE LineFromClient(s, sc, n, FALSE)
    BY <1>4, LineLines
<1>5. CASE \E id \in FindNamedInstance(lines[s][n].core) :
               LineFromClient(s, [sc EXCEPT !.coreID = id], n, FALSE)
    <2>1. PICK id \in FindNamedInstance(lines[s][n].core) :
              LineFromClient(s, [sc EXCEPT !.coreID = id], n, FALSE)
        BY <1>5
    <2>2. id \in Nat /\ id <= coreIDCounter
        BY DEF FindNamedInstance, CorePart
    <2> DEFINE x == [sc EXCEPT !.coreID = id]
    <2>3. SessionOK(s, x, m, coreIDCounter) /\ x.connectionType = sc.connectionType
        BY <1>0, <2>2 DEF SessionOK, SessionContext
    <2>4. LineFromClient(s, x, n, FALSE)
        BY <2>1
    <2> HIDE DEF x
    <2> QED
        BY <2>3, <2>4, LineLines
<1> QED
    BY <1>3, <1>4, <1>5 DEF LineFromHTTPClient, ce

-----------------------------------------------------------------------------
(* The server's own steps.                                                  *)
LEMMA ReadClientLineLines ==
    ASSUME Parts, LinesInv, ReadClientLine
    PROVE  LinesInv' /\ NoLineLost
<1>0. SessionPart /\ CorePart /\ LoopPart
    BY DEF Parts
<1>1. PICK s \in First(readyClients) :
          /\ Unread(s)
          /\ IF sessionContexts[s].connectionType = "HTTP"
             THEN LineFromHTTPClient(s, sessionContexts[s], linesRead[s] + 1)
             ELSE LineFromClient(s, sessionContexts[s], linesRead[s] + 1, FALSE)
          /\ linesRead' = [linesRead EXCEPT ![s] = linesRead[s] + 1]
          /\ UNCHANGED <<lines, sessionIDCounter>>
    BY DEF ReadClientLine
<1>m. PICK m : m = linesRead[s]
    OBVIOUS
<1> DEFINE sc == sessionContexts[s]
           n  == m + 1
<1>2. /\ s \in DOMAIN sessionContexts /\ m \in Nat /\ SessionOK(s, sc, m, coreIDCounter)
      /\ lines[s] \in Seq(CommandLine) /\ coreIDCounter \in Nat
    BY <1>m, <1>0, <1>1 DEF First, LoopPart, SessionPart, CorePart
<1>3. n \in Nat /\ n \in 1..n /\ m <= n /\ n <= Len(lines[s])
    BY <1>m, <1>1, <1>2 DEF Unread
<1>4. SessionOK(s, sc, n, coreIDCounter)
    <2>1. SameOrdered(sc, sc)
        BY DEF SameOrdered, SameInput
    <2> QED
        BY <1>2, <1>3, SessionOKMonotone
<1>5. ASSUME sc.connectionType = "TCP"
      PROVE  /\ \A i \in DOMAIN lines[s] : Answerable(lines[s][i])
             /\ CollectsCommand(sc, lines[s])
             /\ Found(s, sc, n, {n}, coreInstances)
    <2>1. s \in Tcp
        BY <1>2, <1>5 DEF Tcp
    <2>2. \A k \in 1..n : k > m => k = n
        BY <1>2
    <2>3. Found(s, sc, n, {n}, coreInstances)
        BY <1>m, <2>2, KnownAre DEF Found
    <2> QED
        BY <2>1, <2>3 DEF LinesInv
<1>6. LinesHandled(s, n)
    <2>1. CASE sc.connectionType = "HTTP"
        <3>1. LineFromHTTPClient(s, sc, n) /\ sc.connectionType # "TCP"
            BY <1>m, <1>1, <2>1
        <3> HIDE DEF n
        <3> QED
            BY <1>0, <1>2, <1>3, <1>4, <3>1, RequestLines
    <2>2. CASE sc.connectionType # "HTTP"
        <3>1. LineFromClient(s, sc, n, FALSE)
            BY <1>m, <1>1, <2>2
        <3> HIDE DEF n
        <3> QED
            BY <1>0, <1>2, <1>3, <1>4, <1>5, <3>1, LineLines
    <2> QED
        BY <2>1, <2>2
<1> HIDE DEF n
<1>7. linesRead' = [linesRead EXCEPT ![s] = n]
    BY <1>m, <1>1 DEF n
<1> QED
    BY <1>0, <1>1, <1>2, <1>3, <1>6, <1>7, LineLinesStep

LEMMA DrainLineLines ==
    ASSUME Parts, LinesInv, DrainLine
    PROVE  LinesInv' /\ NoLineLost
<1>0. SessionPart /\ CorePart /\ LoopPart
    BY DEF Parts
<1>s. PICK s : s = drained
    OBVIOUS
<1>m. PICK m : m = linesRead[s]
    OBVIOUS
<1> DEFINE sc == sessionContexts[s]
           x  == [sc EXCEPT !.lineQueue = Tail(@)]
           n  == Head(sc.lineQueue)
<1>1. /\ s # NoClient /\ s = drained /\ CanDrain(s) /\ LineFromClient(s, x, n, TRUE)
      /\ UNCHANGED <<lines, linesRead, sessionIDCounter>>
    BY <1>s DEF DrainLine, clientVars
<1>2. /\ s \in DOMAIN sessionContexts /\ s \in SessionIDs /\ m \in Nat /\ m <= Len(lines[s])
      /\ SessionOK(s, sc, m, coreIDCounter)
      /\ linesRead \in [SessionIDs -> Nat]
    BY <1>m, <1>0, <1>1 DEF LoopPart, SessionPart
<1>3. sc.lineQueue \in Seq(1..m) /\ sc.lineQueue # <<>>
    BY <1>1, <1>2 DEF SessionOK, CanDrain
<1>4. Tail(sc.lineQueue) \in Seq(1..m) /\ n \in 1..m /\ Tail(sc.lineQueue) \in Seq(Nat)
    BY <1>2, <1>3 DEF SessionOK, SessionContext
<1>5. /\ SessionOK(s, x, m, coreIDCounter) /\ x.connectionType = sc.connectionType
      /\ x.curCommand = sc.curCommand /\ x.replies = sc.replies /\ x.lineQueue = Tail(sc.lineQueue)
    BY <1>2, <1>3, <1>4 DEF SessionOK, SessionContext
<1>6. \A i \in DOMAIN sc.lineQueue :
          sc.lineQueue[i] = n \/ (i - 1 \in DOMAIN Tail(sc.lineQueue) /\ Tail(sc.lineQueue)[i - 1] = sc.lineQueue[i])
    BY <1>3
<1> HIDE DEF x, n
<1>7. ASSUME x.connectionType = "TCP"
      PROVE  /\ \A i \in DOMAIN lines[s] : Answerable(lines[s][i])
             /\ CollectsCommand(x, lines[s])
             /\ AnsweredLines(sc) \subseteq AnsweredLines(x)
             /\ Found(s, x, m, {n}, coreInstances)
    <2>1. s \in Tcp
        BY <1>2, <1>5, <1>7 DEF Tcp
    <2>2. Range(sc.lineQueue) \subseteq Range(x.lineQueue) \union {n}
        BY <1>5, <1>6 DEF Range
    <2>3. AnsweredLines(sc) = AnsweredLines(x)
        BY <1>5 DEF AnsweredLines
    <2>4. LinesHeld(sc) \subseteq LinesHeld(x) \union {n}
        BY <1>5, <2>2, <2>3 DEF LinesHeld
    <2>5. \A k \in 1..m : ~(k > m)
        BY <1>2
    <2>6. Found(s, x, m, {n}, coreInstances)
        BY <1>m, <2>4, <2>5, KnownAre DEF Found
    <2> QED
        BY <1>5, <2>1, <2>3, <2>6 DEF LinesInv, CollectsCommand
<1>8. LinesHandled(s, m)
    BY <1>0, <1>1, <1>2, <1>4, <1>5, <1>7, LineLines
<1>9. linesRead' = [linesRead EXCEPT ![s] = m]
    BY <1>m, <1>1, <1>2
<1> QED
    BY <1>0, <1>1, <1>2, <1>8, <1>9, LineLinesStep

(* The reply to a command that leaves its core has come.                    *)
LEMMA ReadCoreLineLines ==
    ASSUME Parts, LinesInv, ReadCoreLine
    PROVE  LinesInv' /\ NoLineLost
<1>0. SessionPart /\ CorePart /\ LoopPart
    BY DEF Parts
<1>1. PICK id \in First(readyCores) :
          /\ coreInstances[id].fromCore # <<>>
          /\ coreInstances' = [coreInstances EXCEPT ![id] = LineFromCore(coreInstances[id])]
          /\ LET c    == coreInstances[id]
                 line == Head(c.fromCore)
                 s    == c.lastClientID
             IN IF FindClient(s)
                THEN sessionContexts' = [sessionContexts EXCEPT ![s] =
                        CASE ForwardAs(c) = "status" -> ForwardStatusline(@, line.cmd, line.colon)
                          [] ForwardAs(c) = "data"   -> ForwardDataset(@, line.blank)
                          [] OTHER                   -> @]
                ELSE UNCHANGED sessionContexts
    <2>1. \E id \in First(readyCores) :
              /\ coreInstances[id].fromCore # <<>>
              /\ coreInstances' = [coreInstances EXCEPT ![id] = LineFromCore(coreInstances[id])]
              /\ LET c    == coreInstances[id]
                     line == Head(c.fromCore)
                     s    == c.lastClientID
                 IN IF FindClient(s)
                    THEN sessionContexts' = [sessionContexts EXCEPT ![s] =
                            CASE ForwardAs(c) = "status" -> ForwardStatusline(@, line.cmd, line.colon)
                              [] ForwardAs(c) = "data"   -> ForwardDataset(@, line.blank)
                              [] OTHER                   -> @]
                    ELSE UNCHANGED sessionContexts
        BY DEF ReadCoreLine
    <2> QED
        BY <2>1
<1>c. PICK c : c = coreInstances[id]
    OBVIOUS
<1>d. PICK d : d = LineFromCore(c)
    OBVIOUS
<1> DEFINE line == Head(c.fromCore)
           s    == c.lastClientID
           ce   == line.cmd
           sc   == sessionContexts[s]
           a    == ForwardStatusline(sc, ce, line.colon)
           b    == ForwardDataset(sc, line.blank)
<1>2. UNCHANGED <<lines, linesRead, sessionIDCounter, clientsToRemove>>
    BY DEF ReadCoreLine, clientVars
<1>3. id \in DOMAIN coreInstances /\ WF(c)
    BY <1>c, <1>0, <1>1 DEF First, LoopPart, CorePart
<1>4. /\ ce \in GivenCommand /\ ce.clientID = s
      /\ line.colon \in BOOLEAN /\ line.blank \in BOOLEAN
    BY <1>c, <1>1, <1>3, ReadQuieter
<1>5. /\ RepliesDue(c)[1] = ce
      /\ Range(RepliesDue(c)) \subseteq Range(RepliesDue(d)) \union {ce}
      /\ d.expectingDataset => RepliesDue(d)[1] = ce
      /\ c.expectingReply \/ c.expectingDataset
    BY <1>c, <1>d, <1>1, <1>3, ReadKeeps
<1>6. /\ DOMAIN coreInstances' = DOMAIN coreInstances /\ coreInstances'[id] = d
      /\ \A x \in DOMAIN coreInstances : x # id => coreInstances'[x] = coreInstances[x]
    BY <1>c, <1>d, <1>1, <1>3
<1> HIDE DEF line, ce
<1>7. FindClient(s) =>
          sessionContexts' = [sessionContexts EXCEPT ![s] =
                                 CASE ForwardAs(c) = "status" -> a [] ForwardAs(c) = "data" -> b [] OTHER -> sc]
    BY <1>c, <1>1 DEF line, ce
<1>8. ASSUME NEW t \in DOMAIN sessionContexts'
      PROVE  /\ t \in DOMAIN sessionContexts /\ SameInput(sessionContexts[t], sessionContexts'[t])
             /\ AnsweredLines(sessionContexts[t]) \subseteq AnsweredLines(sessionContexts'[t])
             /\ t = s /\ t \notin clientsToRemove /\ c.expectingReply =>
                    EntryLines(ce) \subseteq AnsweredLines(sessionContexts'[t])
    <2>0. \A x : SameInput(x, x)
        BY DEF SameInput
    <2>1. CASE ~FindClient(s)
        <3>1. UNCHANGED sessionContexts
            BY <1>c, <1>1, <2>1
        <3>2. t = s => t \in clientsToRemove
            BY <2>1, <3>1 DEF FindClient
        <3> QED
            BY <2>0, <3>1, <3>2
    <2>2. CASE FindClient(s)
        <3>1. s \in DOMAIN sessionContexts /\ sc \in SessionContext
            BY <1>0, <2>2, SessionsStay DEF FindClient, SessionOK
        <3>2. /\ SameInput(sc, a) /\ a.replies = Once(sc, ce)
              /\ SameInput(sc, b) /\ b.replies = sc.replies
            BY <1>4, <3>1, Forwarding
        <3>3. PICK y : /\ sessionContexts' = [sessionContexts EXCEPT ![s] = y]
                       /\ y = IF c.expectingReply THEN a ELSE IF ForwardAs(c) = "data" THEN b ELSE sc
            BY <1>7, <2>2 DEF ForwardAs
        <3> HIDE DEF a, b
        <3>4. SameInput(sc, y)
            BY <2>0, <3>2, <3>3
        <3>5. CASE c.expectingReply
            <4>1. y.replies = Once(sc, ce)
                BY <3>2, <3>3, <3>5
            <4>2. AnsweredLines(sc) \union EntryLines(ce) \subseteq AnsweredLines(y)
                BY <1>4, <3>1, <4>1, AnsweredMore DEF Replied
            <4> QED
                BY <2>0, <3>1, <3>3, <3>4, <4>2
        <3>6. CASE ~c.expectingReply
            <4>1. y.replies = sc.replies
                BY <3>2, <3>3, <3>6
            <4>2. AnsweredLines(sc) \subseteq AnsweredLines(y)
                BY <4>1 DEF AnsweredLines
            <4> QED
                BY <2>0, <3>1, <3>3, <3>4, <3>6, <4>2
        <3> QED
            BY <3>5, <3>6
    <2> QED
        BY <2>1, <2>2
<1>9. \A t \in Tcp' : t \in Tcp /\ t \in DOMAIN sessionContexts' /\ t \in SessionIDs /\ linesRead[t] \in Nat
    BY <1>0, <1>8, SessionsStay DEF Tcp, SameInput
<1> HIDE DEF s, sc
<1>10. ASSUME NEW t \in Tcp', t \notin clientsToRemove', t = ce.clientID
       PROVE  EntryLines(ce) \subseteq AnsweredLines(sessionContexts'[t])
    <2>1. CASE c.expectingReply
        BY <1>2, <1>4, <1>8, <1>9, <1>10, <2>1
    <2>2. CASE c.expectingDataset
        <3>1. StatusCame(t, sessionContexts[t], c)
            BY <1>c, <1>2, <1>3, <1>9, <1>10 DEF LinesInv
        <3> QED
            BY <1>5, <1>8, <1>9, <1>10, <2>2, <3>1 DEF StatusCame
    <2> QED
        BY <1>5, <2>1, <2>2
<1>11. ASSUME NEW t \in Tcp', t \notin clientsToRemove', NEW x \in DOMAIN coreInstances'
       PROVE  StatusCame(t, sessionContexts'[t], coreInstances'[x])
    <2>1. CASE x = id
        BY <1>5, <1>6, <1>10, <1>11, <2>1 DEF StatusCame
    <2>2. CASE x # id
        <3>1. coreInstances'[x] = coreInstances[x] /\ x \in DOMAIN coreInstances
            BY <1>6, <2>2
        <3>2. StatusCame(t, sessionContexts[t], coreInstances[x])
            BY <1>2, <1>9, <1>11, <3>1 DEF LinesInv
        <3> QED
            BY <1>8, <1>9, <3>1, <3>2 DEF StatusCame
    <2> QED
        BY <2>1, <2>2
<1>12. \A t \in Tcp' : CollectsCommand(sessionContexts'[t], lines'[t])
    BY <1>2, <1>8, <1>9 DEF LinesInv, CollectsCommand, SameInput
<1>13. LinesInv'
    BY <1>2, <1>9, <1>11, <1>12 DEF LinesInv
<1>14. ASSUME NEW t \in Tcp', t \notin clientsToRemove', NEW n \in KnownLines(t) PROVE n \in KnownLines(t)'
    <2>1. LinesHeld(sessionContexts[t]) \subseteq LinesHeld(sessionContexts'[t])
        BY <1>8, <1>9 DEF LinesHeld, SameInput
    <2>2. ASSUME NEW x \in DOMAIN coreInstances, n \in LinesWithCore(t, coreInstances[x])
          PROVE  n \in AnsweredLines(sessionContexts'[t]) \union WithCores(t, coreInstances')
        <3>1. CASE x = id
            <4>1. PICK e \in Range(RepliesDue(c)) : e.clientID = t /\ n \in EntryLines(e)
                BY <1>c, <2>2, <3>1 DEF LinesWithCore
            <4>2. CASE e = ce
                BY <1>10, <1>14, <4>1, <4>2
            <4>3. CASE e \in Range(RepliesDue(d))
                <5>1. n \in LinesWithCore(t, d)
                    BY <4>1, <4>3 DEF LinesWithCore
                <5> QED
                    BY <1>3, <1>6, <5>1 DEF WithCores
            <4> QED
                BY <1>5, <4>1, <4>2, <4>3
        <3>2. CASE x # id
            BY <1>6, <2>2, <3>2 DEF WithCores
        <3> QED
            BY <3>1, <3>2
    <2> QED
        BY <2>1, <2>2, KnownAre DEF WithCores, LinesHeld
<1>15. \A t \in Tcp' \ clientsToRemove' : LinesKept(t)
    BY <1>2, <1>9, <1>14 DEF LinesKept
<1>16. NoLineLost
    BY <1>2, <1>8, <1>15 DEF NoLineLost, SameInput, Tcp
<1> QED
    BY <1>13, <1>16

(* The steps that answer nothing and give no core a command.                *)
LEMMA QuietLines ==
    ASSUME SessionPart, LinesInv, UNCHANGED <<lines, linesRead, sessionIDCounter>>,
           \A id \in DOMAIN coreInstances' :
               id \in DOMAIN coreInstances /\ CoreKeeps(coreInstances[id], coreInstances'[id]),
           \A s \in DOMAIN sessionContexts' :
               /\ s \in DOMAIN sessionContexts /\ SameOrdered(sessionContexts[s], sessionContexts'[s])
               /\ s \in clientsToRemove => s \in clientsToRemove'
    PROVE  LinesInv' /\ NoLineLost
<1>1. Tcp' \subseteq Tcp
    BY DEF Tcp, SameOrdered, SameInput
<1>2. /\ \A s \in Tcp' : \A n \in DOMAIN lines'[s] : Answerable(lines'[s][n])
      /\ \A s \in SessionIDs : s > sessionIDCounter' => lines'[s] = <<>>
    BY <1>1 DEF LinesInv
<1> QED
    BY <1>2, LinesStay

LEMMA LoopTopLines ==
    ASSUME Parts, LinesInv, LoopTop
    PROVE  LinesInv' /\ NoLineLost
<1>0. SessionPart /\ CorePart
    BY DEF Parts
<1>1. /\ sessionContexts' = [s \in DOMAIN sessionContexts \ clientsToRemove |-> sessionContexts[s]]
      /\ coreInstances' = [id \in DOMAIN coreInstances |-> FlushCommandQ(coreInstances[id])]
      /\ UNCHANGED <<lines, linesRead, sessionIDCounter>>
    BY DEF LoopTop, FlushAll, Restrict, clientVars
<1>2. \A id \in DOMAIN coreInstances' :
          id \in DOMAIN coreInstances /\ CoreKeeps(coreInstances[id], coreInstances'[id])
    BY <1>0, <1>1, QuietKeeps DEF CorePart
<1>3. \A s \in DOMAIN sessionContexts' :
          /\ s \in DOMAIN sessionContexts /\ SameOrdered(sessionContexts[s], sessionContexts'[s])
          /\ s \in clientsToRemove => s \in clientsToRemove'
    BY <1>1, NothingSame
<1> QED
    BY <1>0, <1>1, <1>2, <1>3, QuietLines

LEMMA EndIterationLines ==
    ASSUME Parts, LinesInv, EndIteration
    PROVE  LinesInv' /\ NoLineLost
<1>0. SessionPart /\ CorePart
    BY DEF Parts
<1>1. PICK done : sessionContexts' = [s \in DOMAIN sessionContexts |->
                                         [sessionContexts[s] EXCEPT !.shutdown = @ \/ s \in done]]
    BY DEF EndIteration
<1>2. /\ coreInstances' = [id \in DOMAIN coreInstances \ coresToRemove |-> coreInstances[id]]
      /\ UNCHANGED <<lines, linesRead, sessionIDCounter>> /\ clientsToRemove \subseteq clientsToRemove'
    BY DEF EndIteration, Restrict, clientVars
<1>3. \A id \in DOMAIN coreInstances' :
          id \in DOMAIN coreInstances /\ CoreKeeps(coreInstances[id], coreInstances'[id])
    BY <1>0, <1>2, QuietKeeps DEF CorePart
<1>4. ASSUME NEW s \in DOMAIN sessionContexts'
      PROVE  s \in DOMAIN sessionContexts /\ SameOrdered(sessionContexts[s], sessionContexts'[s])
    <2>1. s \in DOMAIN sessionContexts /\ sessionContexts[s] \in SessionContext
        BY <1>0, <1>1, SessionsStay DEF SessionOK
    <2> QED
        BY <1>1, <2>1 DEF SessionContext, SameOrdered, SameInput
<1> QED
    BY <1>0, <1>2, <1>3, <1>4, QuietLines

LEMMA FlushSessionLines ==
    ASSUME Parts, LinesInv, NEW s \in SessionIDs, FlushSession(s)
    PROVE  LinesInv' /\ NoLineLost
<1>0. SessionPart /\ CorePart
    BY DEF Parts
<1>1. /\ s \in DOMAIN sessionContexts
      /\ sessionContexts' = [sessionContexts EXCEPT ![s] = [@ EXCEPT !.writeBufferEmpty = TRUE]]
      /\ UNCHANGED <<coreInstances, lines, linesRead, sessionIDCounter, clientsToRemove>>
    BY DEF FlushSession, clientVars
<1>2. SameOrdered(sessionContexts[s], [sessionContexts[s] EXCEPT !.writeBufferEmpty = TRUE])
    <2>1. sessionContexts[s] \in SessionContext
        BY <1>0, <1>1, SessionsStay DEF SessionOK
    <2> QED
        BY <2>1 DEF SessionContext, SameOrdered, SameInput
<1>3. \A t \in DOMAIN sessionContexts' :
          t \in DOMAIN sessionContexts /\ SameOrdered(sessionContexts[t], sessionContexts'[t])
    BY <1>1, <1>2, NothingSame
<1>4. \A id \in DOMAIN coreInstances : CoreKeeps(coreInstances[id], coreInstances[id])
    BY <1>0, QuietKeeps DEF CorePart
<1> QED
    BY <1>0, <1>1, <1>3, <1>4, QuietLines

LEMMA CoreStepLines ==
    ASSUME Parts, LinesInv, NEW id \in DOMAIN coreInstances,
           CoreAnswers(id) \/ CoreContinues(id, TRUE) \/ CoreContinues(id, FALSE) \/ CoreExits(id)
    PROVE  LinesInv' /\ NoLineLost
<1>0. SessionPart /\ CorePart
    BY DEF Parts
<1>1. /\ CoreKeeps(coreInstances[id], Exit(coreInstances[id]))
      /\ \A b \in BOOLEAN :
            /\ CanAnswer(coreInstances[id]) => CoreKeeps(coreInstances[id], Answer(coreInstances[id], b))
            /\ CanContinue(coreInstances[id]) => CoreKeeps(coreInstances[id], Continue(coreInstances[id], b))
      /\ \A x \in DOMAIN coreInstances : CoreKeeps(coreInstances[x], coreInstances[x])
    BY <1>0, QuietKeeps DEF CorePart
<1>2. PICK d : CoreKeeps(coreInstances[id], d) /\ CoreStep(id, d)
    BY <1>1 DEF CoreAnswers, CoreContinues, CoreExits
<1>3. /\ coreInstances' = [coreInstances EXCEPT ![id] = d]
      /\ UNCHANGED <<sessionContexts, lines, linesRead, sessionIDCounter, clientsToRemove>>
    BY <1>2 DEF CoreStep, clientVars
<1>4. \A x \in DOMAIN coreInstances' :
          x \in DOMAIN coreInstances /\ CoreKeeps(coreInstances[x], coreInstances'[x])
    BY <1>1, <1>2, <1>3
<1> QED
    BY <1>0, <1>3, <1>4, NothingSame, QuietLines

LEMMA UntouchedLines ==
    ASSUME Parts, LinesInv, Untouched, UNCHANGED sessionIDCounter, clientsToRemove \subseteq clientsToRemove'
    PROVE  LinesInv' /\ NoLineLost
<1>1. SessionPart /\ \A id \in DOMAIN coreInstances : CoreKeeps(coreInstances[id], coreInstances[id])
    BY QuietKeeps DEF Parts, CorePart
<1> QED
    BY <1>1, NothingSame, QuietLines DEF Untouched

LEMMA UntouchedMarks ==
    /\ Dispatch \/ ReadClientEOF \/ DrainDone \/ ReadCoreEOF =>
           UNCHANGED sessionIDCounter /\ clientsToRemove \subseteq clientsToRemove'
    /\ \A s \in SessionIDs : WriteFailed(s) \/ ClientCloses(s) =>
           UNCHANGED sessionIDCounter /\ clientsToRemove \subseteq clientsToRemove'
    /\ UNCHANGED vars => UNCHANGED sessionIDCounter /\ clientsToRemove \subseteq clientsToRemove'
BY DEF Dispatch, ReadClientEOF, DrainDone, ReadCoreEOF, WriteFailed, ClientCloses, vars, serverVars, loopVars

-----------------------------------------------------------------------------
(* The steps of the clients.                                                *)
LEMMA ConnectLines ==
    ASSUME Parts, LinesInv, NEW connectionType \in ConnectionTypes, Connect(connectionType)
    PROVE  LinesInv' /\ NoLineLost
<1>0. SessionPart /\ CorePart
    BY DEF Parts
<1>p. PICK s : s = sessionIDCounter + 1
    OBVIOUS
<1>n. PICK new : new = NewSession(connectionType)
    OBVIOUS
<1>1. /\ s \in SessionIDs /\ sessionIDCounter' = s
      /\ sessionContexts' = [x \in DOMAIN sessionContexts \union {s} |->
                                IF x = s THEN new ELSE sessionContexts[x]]
      /\ UNCHANGED <<coreInstances, lines, linesRead, clientsToRemove>>
    BY <1>p, <1>n DEF Connect, clientVars
<1>2. s \notin DOMAIN sessionContexts /\ s > sessionIDCounter /\ sessionIDCounter \in Nat
      /\ SessionIDs \subseteq Nat
    BY <1>0, <1>p, SessionIDsAssumption DEF SessionPart
<1>3. lines[s] = <<>> /\ DOMAIN <<>> = {}
    BY <1>1, <1>2 DEF LinesInv
<1>4. \A id \in DOMAIN coreInstances : ~DueTo(coreInstances[id], s) /\ WF(coreInstances[id])
    BY <1>0, <1>2 DEF CorePart
<1>5. ASSUME NEW t \in Tcp'
      PROVE  /\ \A n \in DOMAIN lines[t] : Answerable(lines[t][n])
             /\ CollectsCommand(sessionContexts'[t], lines[t])
             /\ t \notin clientsToRemove =>
                   \A id \in DOMAIN coreInstances : StatusCame(t, sessionContexts'[t], coreInstances[id])
    <2>1. CASE t = s
        <3>1. sessionContexts'[t].curCommand = NoCommand
            BY <1>n, <1>1, <2>1 DEF NewSession
        <3>2. \A id \in DOMAIN coreInstances : StatusCame(t, sessionContexts'[t], coreInstances[id])
            BY <1>4, <2>1, SendingDue DEF StatusCame, DueTo
        <3> QED
            BY <1>3, <2>1, <3>1, <3>2 DEF CollectsCommand
    <2>2. CASE t # s
        <3>1. t \in Tcp /\ sessionContexts'[t] = sessionContexts[t]
            BY <1>1, <2>2 DEF Tcp
        <3> QED
            BY <3>1 DEF LinesInv
    <2> QED
        BY <2>1, <2>2
<1>6. \A t \in SessionIDs : t > s => t > sessionIDCounter
    BY <1>p, <1>2
<1>7. LinesInv'
    BY <1>1, <1>5, <1>6 DEF LinesInv
<1>8. ASSUME NEW t \in Tcp PROVE LinesKept(t)
    <2>1. t \in DOMAIN sessionContexts /\ linesRead[t] \in Nat
        BY <1>0, SessionsStay DEF Tcp
    <2>2. sessionContexts'[t] = sessionContexts[t]
        BY <1>1, <1>2, <2>1
    <2>3. KnownLines(t)' = KnownLines(t)
        BY <1>1, <2>2, KnownAre
    <2>4. \A n \in 1..linesRead[t] : ~(n > linesRead[t])
        BY <2>1
    <2> QED
        BY <1>1, <2>3, <2>4 DEF LinesKept
<1>9. linesRead[s] = 0
    <2>1. linesRead[s] \in Nat /\ linesRead[s] <= Len(lines[s]) /\ Len(<<>>) = 0
        BY <1>0, <1>1 DEF SessionPart
    <2> QED
        BY <1>3, <2>1
<1> QED
    BY <1>1, <1>2, <1>7, <1>8, <1>9 DEF NoLineLost, Tcp

LEMMA ClientSendsLines ==
    ASSUME AllAnswerable, Parts, LinesInv, NEW s \in SessionIDs, ClientSends(s)
    PROVE  LinesInv' /\ NoLineLost
<1>0. SessionPart /\ CorePart
    BY DEF Parts
<1>1. PICK line \in IF sessionContexts[s].connectionType = "HTTP" THEN Requests[s] ELSE Lines[s] :
          lines' = [lines EXCEPT ![s] = Append(@, line)]
    BY DEF ClientSends
<1>2. UNCHANGED <<sessionContexts, coreInstances, linesRead, sessionIDCounter, clientsToRemove>>
      /\ s \in DOMAIN sessionContexts
    BY DEF ClientSends, serverVars
<1>3. s \in Tcp => Answerable(line)
    BY <1>1 DEF Tcp, AllAnswerable
<1>4. /\ lines[s] \in Seq(CommandLine) /\ lines \in [SessionIDs -> Seq(CommandLine)]
      /\ linesRead \in [SessionIDs -> Nat] /\ \A t \in SessionIDs : linesRead[t] <= Len(lines[t])
      /\ s \in 1..sessionIDCounter /\ sessionIDCounter \in Nat
    BY <1>0, <1>2 DEF SessionPart
<1>5. /\ \A n \in 1..Len(lines[s]) : Append(lines[s], line)[n] = lines[s][n]
      /\ \A n \in DOMAIN Append(lines[s], line) :
            (n \in DOMAIN lines[s] /\ Append(lines[s], line)[n] = lines[s][n]) \/ Append(lines[s], line)[n] = line
    BY <1>4
<1>6. \A t \in SessionIDs : lines'[t] = IF t = s THEN Append(lines[s], line) ELSE lines[t]
    BY <1>1, <1>4
<1>7. ASSUME NEW t \in SessionIDs, NEW n \in 1..linesRead[t] PROVE lines'[t][n] = lines[t][n]
    <2>1. CASE t = s
        <3>1. n \in 1..Len(lines[s])
            BY <1>4, <2>1
        <3> QED
            BY <1>5, <1>6, <2>1, <3>1
    <2>2. CASE t # s
        BY <1>6, <2>2
    <2> QED
        BY <2>1, <2>2
<1>8. Tcp' = Tcp /\ Tcp \subseteq SessionIDs
    BY <1>0, <1>2, SessionsStay DEF Tcp
<1>9. \A t \in Tcp' : \A n \in DOMAIN lines'[t] : Answerable(lines'[t][n])
    BY <1>3, <1>5, <1>6, <1>8 DEF LinesInv
<1>10. \A t \in SessionIDs : t > sessionIDCounter => lines'[t] = <<>>
    <2>1. ~(s > sessionIDCounter)
        BY <1>4
    <2> QED
        BY <1>6, <2>1 DEF LinesInv
<1>11. \A id \in DOMAIN coreInstances : CoreKeeps(coreInstances[id], coreInstances[id])
    BY <1>0, QuietKeeps DEF CorePart
<1> QED
    BY <1>0, <1>2, <1>7, <1>9, <1>10, <1>11, NothingSame, LinesStay

-----------------------------------------------------------------------------
LEMMA InitLines == Init => LinesInv
<1> SUFFICES ASSUME Init PROVE LinesInv
    OBVIOUS
<1>0. DOMAIN <<>> = {}
    OBVIOUS
<1>1. DOMAIN sessionContexts = {} /\ lines = [s \in SessionIDs |-> <<>>]
    BY <1>0 DEF Init
<1> QED
    BY <1>1 DEF LinesInv, Tcp

LEMMA StepLines ==
    ASSUME AllAnswerable, Inv, LinesInv, [Next]_vars
    PROVE  LinesInv' /\ NoLineLost
<1>0. Parts
    BY InvParts
<1>1. ASSUME ServerStep PROVE LinesInv' /\ NoLineLost
    BY <1>0, <1>1, LoopTopLines, ReadClientLineLines, ReadCoreLineLines, DrainLineLines, EndIterationLines,
       UntouchedSteps, UntouchedMarks, UntouchedLines
    DEF ServerStep
<1>2. ASSUME NEW s \in SessionIDs,
             FlushSession(s) \/ WriteFailed(s) \/ ClientSends(s) \/ ClientCloses(s)
      PROVE  LinesInv' /\ NoLineLost
    BY <1>0, <1>2, FlushSessionLines, ClientSendsLines, UntouchedSteps, UntouchedMarks, UntouchedLines
<1>3. ASSUME NEW connectionType \in ConnectionTypes, Connect(connectionType) PROVE LinesInv' /\ NoLineLost
    BY <1>0, <1>3, ConnectLines
<1>4. ASSUME NEW id \in CoreIDs,
             CoreAnswers(id) \/ CoreContinues(id, TRUE) \/ CoreContinues(id, FALSE) \/ CoreExits(id)
      PROVE  LinesInv' /\ NoLineLost
    BY <1>0, <1>4, CoreStepLines DEF CoreIDs
<1>5. ASSUME UNCHANGED vars PROVE LinesInv' /\ NoLineLost
    BY <1>0, <1>5, UntouchedSteps, UntouchedMarks, UntouchedLines
<1> QED
    BY <1>1, <1>2, <1>3, <1>4, <1>5 DEF Next

(* While every line TCP clients send is of a kind that is answered: a        *)
(* session that has not been given up is sent the status line of a reply    *)
(* before the core sends the data set of it, and collects real commands.    *)
THEOREM LinesInvariance == ASSUME AllAnswerable PROVE Spec => []LinesInv
<1>1. Inv /\ LinesInv /\ [Next]_vars => LinesInv'
    BY StepLines
<1> QED
    BY <1>1, InitLines, Invariance, PTL DEF Spec

(* Then a command that has been read is never lost without an answer, except *)
(* together with a core that had it: whatever sessions, cores and clients    *)
(* do, in both main loops (lineFromClient, the drain, lineFromCore, the      *)
(* removal of cores).                                                        *)
THEOREM LinesLeaveWithCores == ASSUME AllAnswerable PROVE Spec => LinesGoWithCores
<1>1. Inv /\ LinesInv /\ [Next]_vars =>
          [\A s \in (Tcp \intersect DOMAIN sessionContexts') \ clientsToRemove' : LinesKept(s)]_vars
    BY StepLines DEF NoLineLost, Tcp
<1> QED
    BY <1>1, LinesInvariance, Invariance, PTL DEF Spec, LinesGoWithCores

-----------------------------------------------------------------------------
(* Servers that lose no core.  Core c lives, and has nothing to do that      *)
(* would end it.                                                            *)
Living(c) ==
    /\ c.process # "exited" /\ ~c.killed
    /\ \A ce \in Range(RepliesDue(c)) : ce.word # "shutdown"

\* The command the process works on is the first whose reply is due.
LEMMA WorksOnDue ==
    ASSUME NEW c, WF(c), c.toCore # <<>>
    PROVE  Head(c.toCore) \in Range(RepliesDue(c))
<1> DEFINE ce == Head(c.toCore)
           q  == c.commandQ
<1>1. /\ c.toCore \in Seq(GivenCommand) /\ q \in Seq(GivenCommand)
      /\ c.fromCore \in Seq(OutputLines(GivenCommand))
    BY DEF WF, WellFormed, CoreRecords
<1>2. 1 \in 1..Len(c.toCore) /\ c.toCore[1] = ce /\ ce \in GivenCommand
    BY <1>1
<1>3. Busy(c)
    BY DEF WF, WellFormed, OneReply
<1>4. c.fromCore # <<>> => 1 \in 1..Len(c.fromCore) /\ c.fromCore[1].cmd = ce
    <2>1. c.fromCore # <<>> => 1 \in 1..Len(c.fromCore)
        BY <1>1
    <2> QED
        BY <1>2, <2>1 DEF WF, WellFormed, PipeLines
<1> HIDE DEF ce
<1>5. RepliesDue(c) = <<ce>> \o q
    BY <1>2, <1>3, <1>4 DEF RepliesDue, Outstanding
<1>6. 1 \in DOMAIN (<<ce>> \o q) /\ (<<ce>> \o q)[1] = ce
    BY <1>1, <1>2
<1> QED
    BY <1>5, <1>6 DEF Range, ce

LEMMA LivingStays ==
    ASSUME NEW c, WF(c), Living(c)
    PROVE  /\ Living(FlushCommandQ(c))
           /\ \A ce \in GivenCommand :
                  ce.word # "shutdown" => Living(FlushCommandQ(QueueCommand(c, ce)))
           /\ c.fromCore # <<>> => Living(LineFromCore(c))
           /\ \A b \in BOOLEAN : CanAnswer(c) => Living(Answer(c, b))
           /\ \A b \in BOOLEAN : CanContinue(c) => Living(Continue(c, b))
<1>0. c \in CoreRecords(STRING, SessionIDs, GivenCommand)
    BY DEF WF, WellFormed
<1>f. ASSUME NEW d, WF(d), Living(d) PROVE Living(FlushCommandQ(d))
    <2>1. RepliesDue(FlushCommandQ(d)) = RepliesDue(d)
        BY <1>f, FlushDue DEF WF
    <2>2. FlushCommandQ(d).process = d.process /\ FlushCommandQ(d).killed = d.killed
        BY <1>f DEF FlushCommandQ, WriteFirst, WF, WellFormed, CoreRecords
    <2> QED
        BY <1>f, <2>1, <2>2 DEF Living
<1>1. Living(FlushCommandQ(c))
    BY <1>f
<1>2. ASSUME NEW ce \in GivenCommand, ce.word # "shutdown" PROVE Living(FlushCommandQ(QueueCommand(c, ce)))
    <2> DEFINE d == QueueCommand(c, ce)
               r == RepliesDue(c)
    <2>1. WF(d) /\ RepliesDue(d) = Append(r, ce) /\ r \in Seq(GivenCommand)
        BY QueueWellFormed, QueueDue, RepliesDueType DEF WF
    <2>2. d.process = c.process /\ d.killed = c.killed
        BY <1>0 DEF QueueCommand, CoreRecords
    <2> HIDE DEF d
    <2>3. \A i \in DOMAIN Append(r, ce) : Append(r, ce)[i] = ce \/ (i \in DOMAIN r /\ Append(r, ce)[i] = r[i])
        BY <2>1
    <2>4. Range(Append(r, ce)) \subseteq Range(r) \union {ce}
        BY <2>3 DEF Range
    <2>5. Living(d)
        BY <1>2, <2>1, <2>2, <2>4 DEF Living
    <2>6. Living(FlushCommandQ(d))
        BY <1>f, <2>1, <2>5
    <2> QED
        BY <2>6 DEF d
<1>3. ASSUME c.fromCore # <<>> PROVE Living(LineFromCore(c))
    <2> DEFINE d == LineFromCore(c)
    <2>1. d.process = c.process /\ d.killed = c.killed
        BY <1>0 DEF LineFromCore, CoreRecords
    <2>2. Head(c.fromCore).cmd \in GivenCommand /\ OrderMove(c, d, {})
        BY <1>3, ReadQuieter, ReadOrder
    <2>3. Range(RepliesDue(d)) \subseteq Range(RepliesDue(c))
        BY <2>2 DEF OrderMove
    <2> QED
        BY <2>1, <2>3 DEF Living
<1>4. c.toCore # <<>> => Head(c.toCore).word # "shutdown"
    BY WorksOnDue DEF Living
<1>5. ASSUME NEW b \in BOOLEAN, CanAnswer(c) PROVE Living(Answer(c, b))
    <2>1. RepliesDue(Answer(c, b)) = RepliesDue(c)
        BY <1>5, QuietDue DEF WF
    <2>2. Answer(c, b).process # "exited" /\ Answer(c, b).killed = c.killed
        BY <1>0, <1>4, <1>5 DEF CanAnswer, Answer, FinishCommand, CoreRecords
    <2> QED
        BY <2>1, <2>2 DEF Living
<1>6. ASSUME NEW b \in BOOLEAN, CanContinue(c) PROVE Living(Continue(c, b))
    <2>1. RepliesDue(Continue(c, b)) = RepliesDue(c)
        BY <1>6, QuietDue DEF WF
    <2>2. c.toCore # <<>>
        BY <1>6 DEF CanContinue, WF, WellFormed, OneReply
    <2>3. Continue(c, b).process # "exited" /\ Continue(c, b).killed = c.killed
        BY <1>0, <1>4, <1>6, <2>2 DEF CanContinue, Continue, FinishCommand, CoreRecords
    <2> QED
        BY <2>1, <2>3 DEF Living
<1> QED
    BY <1>1, <1>2, <1>3, <1>5, <1>6

LEMMA NewLives ==
    ASSUME NEW name
    PROVE  Living(StartCore(name))
BY StartOrder DEF StartCore, Living

AllLiving == \A id \in DOMAIN coreInstances : Living(coreInstances[id])

LEMMA AliveParts == CoresAlive <=> coresToRemove = {} /\ AllLiving
BY DEF CoresAlive, AllLiving, Living, Range

\* No core goes, and all live on.
LiveOn == DOMAIN coreInstances \subseteq DOMAIN coreInstances' /\ AllLiving'

LEMMA ExecutedLiving ==
    ASSUME CorePart, AllLiving, NEW s, NEW x \in SessionContext,
           NEW ce \in GivenCommand, ce.word \notin StopWords, NEW line \in CommandLine,
           ProcessCommand(s, x, ce, line)
    PROVE  LiveOn
<1>1. DOMAIN coreInstances \subseteq Nat /\ \A id \in DOMAIN coreInstances : WF(coreInstances[id])
    BY DEF CorePart
<1>2. PICK sc2 : Executed(s, x, ce, line, sc2)
    BY <1>1, CommandExecuted
<1>3. ASSUME AnsweredHere(x, sc2, ce, line) PROVE LiveOn
    BY <1>3 DEF AnsweredHere, LiveOn, AllLiving
<1>4. ASSUME GivenToCore(x, sc2, ce) PROVE LiveOn
    <2>1. /\ x.coreID \in DOMAIN coreInstances
          /\ coreInstances' = [coreInstances EXCEPT ![x.coreID] = FlushCommandQ(QueueCommand(@, ce))]
        BY <1>4 DEF GivenToCore, FindInstance, StopWords
    <2>2. Living(FlushCommandQ(QueueCommand(coreInstances[x.coreID], ce)))
        BY <1>1, <2>1, LivingStays DEF StopWords, AllLiving
    <2> QED
        BY <2>1, <2>2 DEF LiveOn, AllLiving
<1>5. ASSUME CoreCreated(x, sc2, ce) PROVE LiveOn
    BY <1>5, NewLives DEF CoreCreated, LiveOn, AllLiving
<1>6. ~CoreDropped(x, sc2, ce)
    BY DEF CoreDropped, StopWords
<1> QED
    BY <1>2, <1>3, <1>4, <1>5, <1>6 DEF Executed

LEMMA LineLiving ==
    ASSUME SessionPart, CorePart, LinesSpare, AllLiving,
           NEW s \in DOMAIN sessionContexts, NEW m \in Nat, m <= Len(lines[s]), NEW n \in 1..m,
           NEW x, SessionOK(s, x, m, coreIDCounter), WordKept(x, lines[s]),
           NEW queued \in BOOLEAN, LineFromClient(s, x, n, queued)
    PROVE  LiveOn
<1> DEFINE line == lines[s][n]
           ce   == NewCommand(s, n, line.word, line.colon)
           cur  == AppendToDataset(x.curCommand, n, line.word = Blank)
<1>0. s \in SessionIDs /\ x \in SessionContext /\ lines[s] \in Seq(CommandLine)
    BY DEF SessionPart, SessionOK
<1>1. \A i \in 1..m : lines[s][i] \in CommandLine /\ i \in Nat /\ lines[s][i].word \notin StopWords
    <2>1. \A i \in 1..m : i \in DOMAIN lines[s] /\ lines[s][i] \in CommandLine /\ i \in Nat
        BY <1>0
    <2> QED
        BY <1>0, <2>1 DEF LinesSpare
<1>2. line \in CommandLine /\ n \in Nat /\ line.word \notin StopWords
    BY <1>1
<1>3. (Flushable(ce) => ce \in GivenCommand) /\ ce.word = line.word
    <2>1. ce.word = line.word
        BY DEF NewCommand
    <2> QED
        BY <1>0, <1>2, <2>1, CommandOfLine
<1>4. ASSUME x.curCommand # NoCommand
      PROVE  cur.tag \in 1..m /\ cur.word \notin StopWords /\ (Flushable(cur) => cur \in GivenCommand)
    <2>1. x.curCommand.clientID = s /\ x.curCommand.tag \in 1..m /\ x.curCommand \in Entry
        BY <1>0, <1>4 DEF SessionOK, SessionContext
    <2>2. cur.tag = x.curCommand.tag /\ (Flushable(cur) => cur \in GivenCommand)
        BY <1>0, <1>2, <2>1, CollectedCommand
    <2>3. cur.word = lines[s][x.curCommand.tag].word
        BY <1>4, <2>1, CollectedWord DEF WordKept
    <2> QED
        BY <1>1, <2>1, <2>2, <2>3
<1> HIDE DEF ce, cur, line
<1>5. ASSUME NEW y, Answered(s, y) PROVE LiveOn
    BY <1>5 DEF Answered, LiveOn, AllLiving
<1>6. CASE /\ x.curCommand # NoCommand /\ Flushable(cur)
           /\ ProcessCommand(s, [x EXCEPT !.curCommand = NoCommand], cur, lines[s][cur.tag])
    <2>1. [x EXCEPT !.curCommand = NoCommand] \in SessionContext
        BY <1>0, NoCommandTyped DEF SessionContext
    <2> QED
        BY <1>1, <1>4, <1>6, <2>1, ExecutedLiving
<1>7. CASE Flushable(ce) /\ ProcessCommand(s, x, ce, line)
    BY <1>0, <1>2, <1>3, <1>7, ExecutedLiving
<1> QED
    BY <1>5, <1>6, <1>7 DEF LineFromClient, ce, cur, line

LEMMA RequestLiving ==
    ASSUME SessionPart, CorePart, LinesSpare, AllLiving,
           NEW s \in DOMAIN sessionContexts, NEW m \in Nat, m <= Len(lines[s]), NEW n \in 1..m,
           SessionOK(s, sessionContexts[s], m, coreIDCounter), WordKept(sessionContexts[s], lines[s]),
           LineFromHTTPClient(s, sessionContexts[s], n)
    PROVE  LiveOn
<1> DEFINE sc == sessionContexts[s]
<1>1. ASSUME NEW ce, Status(s, sc, ce) PROVE LiveOn
    BY <1>1 DEF Status, Answered, LiveOn, AllLiving
<1>2. CASE LineFromClient(s, sc, n, FALSE)
    BY <1>2, LineLiving
<1>3. ASSUME NEW id \in FindNamedInstance(lines[s][n].core),
             LineFromClient(s, [sc EXCEPT !.coreID = id], n, FALSE)
      PROVE  LiveOn
    <2> DEFINE x == [sc EXCEPT !.coreID = id]
    <2>1. id \in Nat /\ id <= coreIDCounter
        BY DEF FindNamedInstance, CorePart
    <2>2. /\ x \in SessionContext /\ x.coreID = id /\ x.lineQueue = sc.lineQueue
          /\ x.curCommand = sc.curCommand /\ x.replies = sc.replies
        BY <2>1 DEF SessionOK, SessionContext
    <2>3. LineFromClient(s, x, n, FALSE)
        BY <1>3
    <2> HIDE DEF x
    <2>4. SessionOK(s, x, m, coreIDCounter) /\ WordKept(x, lines[s])
        BY <2>1, <2>2 DEF SessionOK, WordKept
    <2> QED
        BY <2>3, <2>4, LineLiving
<1> QED
    BY <1>1, <1>2, <1>3 DEF LineFromHTTPClient

LEMMA LineStepLiving ==
    ASSUME Parts, LinesSpare, \A s \in DOMAIN sessionContexts : WordKept(sessionContexts[s], lines[s]),
           AllLiving, ReadClientLine \/ DrainLine
    PROVE  LiveOn /\ UNCHANGED coresToRemove
<1>0. SessionPart /\ CorePart /\ LoopPart
    BY DEF Parts
<1>1. ASSUME ReadClientLine PROVE LiveOn
    <2>1. PICK s \in First(readyClients) :
              /\ Unread(s)
              /\ IF sessionContexts[s].connectionType = "HTTP"
                 THEN LineFromHTTPClient(s, sessionContexts[s], linesRead[s] + 1)
                 ELSE LineFromClient(s, sessionContexts[s], linesRead[s] + 1, FALSE)
        BY <1>1 DEF ReadClientLine
    <2>n. PICK n : n = linesRead[s] + 1
        OBVIOUS
    <2>2. /\ s \in DOMAIN sessionContexts /\ linesRead[s] \in Nat /\ coreIDCounter \in Nat
          /\ SessionOK(s, sessionContexts[s], linesRead[s], coreIDCounter)
          /\ lines[s] \in Seq(CommandLine)
        BY <1>0, <2>1 DEF First, LoopPart, SessionPart, CorePart
    <2>3. n \in Nat /\ n \in 1..n /\ linesRead[s] <= n /\ n <= Len(lines[s])
        BY <2>n, <2>1, <2>2 DEF Unread
    <2>4. SessionOK(s, sessionContexts[s], n, coreIDCounter)
        BY <2>2, <2>3, SessionOKMonotone
    <2>5. \/ LineFromHTTPClient(s, sessionContexts[s], n) \/ LineFromClient(s, sessionContexts[s], n, FALSE)
        BY <2>n, <2>1
    <2> QED
        BY <1>0, <2>2, <2>3, <2>4, <2>5, LineLiving, RequestLiving
<1>2. ASSUME DrainLine PROVE LiveOn
    <2>s. PICK s : s = drained
        OBVIOUS
    <2> DEFINE sc == sessionContexts[s]
               x  == [sc EXCEPT !.lineQueue = Tail(@)]
               n  == Head(sc.lineQueue)
               m  == linesRead[s]
    <2>1. s # NoClient /\ s = drained /\ CanDrain(s) /\ LineFromClient(s, x, n, TRUE)
        BY <1>2, <2>s DEF DrainLine
    <2>2. /\ s \in DOMAIN sessionContexts /\ m \in Nat /\ m <= Len(lines[s])
          /\ SessionOK(s, sc, m, coreIDCounter) /\ WordKept(sc, lines[s])
        BY <1>0, <2>1 DEF LoopPart, SessionPart
    <2>3. sc.lineQueue \in Seq(1..m) /\ sc.lineQueue # <<>>
        BY <2>1, <2>2 DEF SessionOK, CanDrain
    <2>4. Tail(sc.lineQueue) \in Seq(1..m) /\ n \in 1..m /\ Tail(sc.lineQueue) \in Seq(Nat)
        BY <2>2, <2>3 DEF SessionOK, SessionContext
    <2>5. SessionOK(s, x, m, coreIDCounter) /\ WordKept(x, lines[s])
        BY <2>2, <2>3, <2>4 DEF SessionOK, SessionContext, WordKept
    <2> HIDE DEF x, n, m
    <2> QED
        BY <1>0, <2>1, <2>2, <2>4, <2>5, LineLiving
<1>3. UNCHANGED coresToRemove
    BY DEF ReadClientLine, DrainLine, loopVars
<1> QED
    BY <1>1, <1>2, <1>3

LEMMA StepAlive ==
    ASSUME ~CoresMayFail, Inv, OrderInv, CoresAlive, [Next]_vars
    PROVE  CoresAlive' /\ DOMAIN coreInstances \subseteq DOMAIN coreInstances'
<1>0. /\ Parts /\ OrderPart /\ coresToRemove = {} /\ AllLiving
      /\ \A id \in DOMAIN coreInstances : WF(coreInstances[id]) /\ Living(coreInstances[id])
    BY InvParts, OrderParts, AliveParts DEF Parts, CorePart, AllLiving
<1> DEFINE Goal == coresToRemove' = {} /\ LiveOn
<1>1. ASSUME UNCHANGED <<coreInstances, coresToRemove>> PROVE Goal
    BY <1>0, <1>1 DEF LiveOn, AllLiving
<1>2. ASSUME UNCHANGED coresToRemove, NEW id \in DOMAIN coreInstances, NEW d, Living(d),
             coreInstances' = [coreInstances EXCEPT ![id] = d]
      PROVE  Goal
    BY <1>0, <1>2 DEF LiveOn, AllLiving
<1>3. ASSUME ServerStep PROVE Goal
    <2>1. ASSUME LoopTop PROVE Goal
        <3>1. /\ coreInstances' = [id \in DOMAIN coreInstances |-> FlushCommandQ(coreInstances[id])]
              /\ UNCHANGED coresToRemove
            BY <2>1 DEF LoopTop, FlushAll
        <3>2. \A id \in DOMAIN coreInstances : Living(FlushCommandQ(coreInstances[id]))
            BY <1>0, LivingStays
        <3> QED
            BY <1>0, <3>1, <3>2 DEF LiveOn, AllLiving
    <2>2. ASSUME ReadClientLine \/ DrainLine PROVE Goal
        BY <1>0, <2>2, LineStepLiving DEF OrderPart
    <2>3. ASSUME ReadCoreLine PROVE Goal
        <3>1. PICK id \in First(readyCores) :
                  /\ coreInstances[id].fromCore # <<>>
                  /\ coreInstances' = [coreInstances EXCEPT ![id] = LineFromCore(coreInstances[id])]
            BY <2>3 DEF ReadCoreLine
        <3>2. id \in DOMAIN coreInstances
            BY <1>0 DEF First, Parts, LoopPart
        <3>3. Living(LineFromCore(coreInstances[id]))
            BY <1>0, <3>1, <3>2, LivingStays
        <3>4. UNCHANGED coresToRemove
            BY <2>3 DEF ReadCoreLine
        <3> QED
            BY <1>2, <3>1, <3>2, <3>3, <3>4
    <2>4. ~ReadCoreEOF
        BY <1>0 DEF ReadCoreEOF, First, AtEOF, Living, Parts, LoopPart
    <2>5. ASSUME EndIteration PROVE Goal
        BY <1>0, <2>5 DEF EndIteration, Restrict, LiveOn, AllLiving
    <2>6. ASSUME Dispatch \/ ReadClientEOF \/ DrainDone PROVE Goal
        BY <1>1, <2>6 DEF Dispatch, ReadClientEOF, DrainDone, serverVars
    <2> QED
        BY <2>1, <2>2, <2>3, <2>4, <2>5, <2>6, <1>3 DEF ServerStep
<1>4. ASSUME NEW s \in SessionIDs,
             FlushSession(s) \/ WriteFailed(s) \/ ClientSends(s) \/ ClientCloses(s)
      PROVE  Goal
    BY <1>1, <1>4 DEF FlushSession, WriteFailed, ClientSends, ClientCloses, serverVars, loopVars
<1>5. ASSUME NEW connectionType \in ConnectionTypes, Connect(connectionType) PROVE Goal
    BY <1>1, <1>5 DEF Connect, loopVars
<1>6. ASSUME NEW id \in CoreIDs,
             CoreAnswers(id) \/ CoreContinues(id, TRUE) \/ CoreContinues(id, FALSE) \/ CoreExits(id)
      PROVE  Goal
    <2>1. WF(coreInstances[id]) /\ Living(coreInstances[id]) /\ id \in DOMAIN coreInstances
        BY <1>0 DEF CoreIDs
    <2>2. ~CoreExits(id)
        BY <2>1 DEF CoreExits, Living
    <2>3. PICK d : Living(d) /\ CoreStep(id, d)
        BY <1>6, <2>1, <2>2, LivingStays DEF CoreAnswers, CoreContinues
    <2> QED
        BY <1>2, <2>1, <2>3 DEF CoreStep, loopVars
<1>7. ASSUME UNCHANGED vars PROVE Goal
    BY <1>1, <1>7 DEF vars, serverVars, loopVars
<1> HIDE DEF Goal
<1>8. Goal
    BY <1>3, <1>4, <1>5, <1>6, <1>7 DEF Next
<1>9. coresToRemove' = {} /\ AllLiving' => CoresAlive'
    BY DEF CoresAlive, AllLiving, Living, Range
<1> QED
    BY <1>8, <1>9 DEF Goal, LiveOn

LEMMA InitAlive == Init => CoresAlive
<1>1. DOMAIN <<>> = {}
    OBVIOUS
<1> QED
    BY <1>1 DEF Init, CoresAlive

(* While no client sends drop-graph or shutdown and no core fails, every    *)
(* core the server has created runs on and is deleted never.                *)
THEOREM CoresStayAlive == ASSUME NoTermination, ~CoresMayFail PROVE Spec => []CoresAlive
<1>1. Inv /\ OrderInv /\ CoresAlive /\ [Next]_vars => CoresAlive'
    BY StepAlive
<1> QED
    BY <1>1, InitAlive, OrderInvariance, Invariance, PTL DEF Spec

(* So such a server accounts for every line it has read: a TCP client that  *)
(* has not been given up has had a reply to it, or it is queued, or being   *)
(* collected, or with a core (session.h of lineQueue; lineFromClient).      *)
THEOREM LinesStayAccountedFor ==
    ASSUME AllAnswerable, NoTermination, ~CoresMayFail
    PROVE  Spec => []LinesAccountedFor
<1>1. Init => LinesAccountedFor
    <2>1. DOMAIN <<>> = {}
        OBVIOUS
    <2> QED
        BY <2>1 DEF Init, LinesAccountedFor, Tcp
<1>2. ASSUME Inv, OrderInv, LinesInv, CoresAlive, LinesAccountedFor, [Next]_vars
      PROVE  LinesAccountedFor'
    <2>1. NoLineLost /\ DOMAIN coreInstances \subseteq DOMAIN coreInstances'
        BY <1>2, StepLines, StepAlive
    <2> SUFFICES ASSUME NEW s \in Tcp' \ clientsToRemove', NEW n \in 1..linesRead'[s]
                 PROVE  lines'[s][n].word = Blank \/ n \in KnownLines(s)'
        BY DEF LinesAccountedFor
    <2>2. s \in DOMAIN sessionContexts' /\ linesRead'[s] # 0
        BY DEF Tcp
    <2>3. /\ s \in Tcp \ clientsToRemove /\ LinesKept(s) /\ lines'[s][n] = lines[s][n]
        BY <2>1, <2>2 DEF NoLineLost, Tcp
    <2>4. linesRead[s] \in Nat
        BY <1>2, <2>3, InvParts, SessionsStay DEF Parts, Tcp
    <2>5. n \in Nat /\ n # 0
        BY <1>2, <2>2
    <2>6. n > linesRead[s] \/ n \in 1..linesRead[s]
        BY <2>4, <2>5
    <2>7. lines[s][n].word = Blank \/ n \in KnownLines(s) \/ n > linesRead[s]
        BY <1>2, <2>3, <2>6 DEF LinesAccountedFor
    <2> QED
        BY <2>1, <2>3, <2>7 DEF LinesKept
<1> QED
    BY <1>1, <1>2, CoresStayAlive, LinesInvariance, OrderInvariance, Invariance, PTL DEF Spec

-----------------------------------------------------------------------------
(* Plain TCP servers: queued lines have a reply to wait for.                *)
PlainInput ==
    /\ \A s \in DOMAIN sessionContexts :
           sessionContexts[s].connectionType = "TCP" /\ sessionContexts[s].curCommand = NoCommand
    /\ \A s \in SessionIDs : \A n \in DOMAIN lines[s] : ~lines[s][n].colon

AllRunning == \A id \in DOMAIN coreInstances : coreInstances[id].processRunning

LEMMA PlainParts == PlainInv <=> CoresAlive /\ QueuedWhileWaiting /\ PlainInput
BY DEF PlainInv, PlainInput, Tcp

\* A core that keeps what it owes keeps its clients waiting.
LEMMA HasKept ==
    ASSUME NEW c, WF(c), NEW d, WF(d), CoreKeeps(c, d), NEW s, HasDataForClient(c, s)
    PROVE  HasDataForClient(d, s)
<1>1. /\ HasDataForClient(c, s) => \E i \in DOMAIN RepliesDue(c) : RepliesDue(c)[i].clientID = s
      /\ (\E i \in DOMAIN RepliesDue(d) : RepliesDue(d)[i].clientID = s) => HasDataForClient(d, s)
    <2>1. \A e \in {c, d} : RepliesDue(e) \in Seq(GivenCommand)
        BY RepliesDueType DEF WF
    <2>2. \A e \in {c, d} : DOMAIN RepliesDue(e) = 1..Len(RepliesDue(e))
        BY <2>1
    <2> QED
        BY <2>2, DueToClient DEF WF
<1> QED
    BY <1>1 DEF CoreKeeps, Range

LEMMA QueuedStays ==
    ASSUME CorePart, CorePart', AllRunning',
           \A id \in DOMAIN coreInstances :
               id \in DOMAIN coreInstances' /\ CoreKeeps(coreInstances[id], coreInstances'[id]),
           \A t \in DOMAIN sessionContexts' \ (clientsToRemove' \union {drained'}) :
               sessionContexts'[t].lineQueue = <<>> \/ WaitingForCore(t, sessionContexts'[t])
    PROVE  QueuedWhileWaiting'
<1> SUFFICES ASSUME NEW t \in DOMAIN sessionContexts' \ (clientsToRemove' \union {drained'}),
                    sessionContexts'[t].lineQueue # <<>>
             PROVE  WaitingForCore(t, sessionContexts[t])'
    BY DEF QueuedWhileWaiting
<1>k. PICK k : k = sessionContexts'[t].coreID
    OBVIOUS
<1>1. k \in DOMAIN coreInstances /\ HasDataForClient(coreInstances[k], t)
    BY <1>k DEF WaitingForCore, FindInstance
<1>2. k \in DOMAIN coreInstances' /\ coreInstances'[k].processRunning
    BY <1>1 DEF AllRunning
<1>3. WF(coreInstances[k]) /\ WF(coreInstances'[k])
    BY <1>1, <1>2 DEF CorePart
<1>4. HasDataForClient(coreInstances'[k], t)
    BY <1>1, <1>3, HasKept
<1> QED
    BY <1>k, <1>2, <1>4 DEF WaitingForCore, FindInstance

(* The steps that read no line and answer none.                             *)
LEMMA PlainStays ==
    ASSUME CorePart, CorePart', AllRunning', PlainInput, QueuedWhileWaiting,
           UNCHANGED <<lines, drained>>,
           \A id \in DOMAIN coreInstances :
               id \in DOMAIN coreInstances' /\ CoreKeeps(coreInstances[id], coreInstances'[id]),
           \A t \in DOMAIN sessionContexts' :
               /\ t \in DOMAIN sessionContexts /\ SameOrdered(sessionContexts[t], sessionContexts'[t])
               /\ sessionContexts'[t].coreID = sessionContexts[t].coreID
               /\ t \in clientsToRemove => t \in clientsToRemove'
    PROVE  PlainInput' /\ QueuedWhileWaiting'
<1>1. PlainInput'
    BY DEF PlainInput, SameOrdered, SameInput
<1>2. ASSUME NEW t \in DOMAIN sessionContexts' \ (clientsToRemove' \union {drained'})
      PROVE  sessionContexts'[t].lineQueue = <<>> \/ WaitingForCore(t, sessionContexts'[t])
    <2>1. sessionContexts[t].lineQueue # <<>> => WaitingForCore(t, sessionContexts[t])
        BY <1>2 DEF QueuedWhileWaiting
    <2> QED
        BY <2>1 DEF SameOrdered, SameInput, WaitingForCore
<1>3. QueuedWhileWaiting'
    BY <1>2, QueuedStays
<1> QED
    BY <1>1, <1>3

(* A line is executed if it has nothing to wait for, else queued.           *)
LEMMA PlainLine ==
    ASSUME Parts, CorePart', AllRunning', PlainInput, QueuedWhileWaiting,
           UNCHANGED <<lines, drained>>,
           NEW s \in DOMAIN sessionContexts, NEW n \in DOMAIN lines[s],
           NEW x \in SessionContext, x.connectionType = "TCP", x.curCommand = NoCommand,
           NEW queued \in BOOLEAN, LineFromClient(s, x, n, queued),
           IF queued THEN s = drained ELSE s # drained /\ x = sessionContexts[s]
    PROVE  PlainInput' /\ QueuedWhileWaiting'
<1> DEFINE line == lines[s][n]
           ce   == NewCommand(s, n, line.word, line.colon)
<1>0. /\ SessionPart /\ CorePart /\ s \in SessionIDs /\ lines[s] \in Seq(CommandLine)
      /\ DOMAIN coreInstances \subseteq Nat
    BY SessionsStay DEF Parts, CorePart
<1>1. line \in CommandLine /\ n \in Nat /\ ~line.colon
    BY <1>0 DEF PlainInput
<1>2. Flushable(ce)
    BY <1>1 DEF NewCommand, Flushable
<1>3. ce \in GivenCommand /\ ce.clientID = s
    BY <1>0, <1>1, <1>2, CommandOfLine
<1> HIDE DEF line, ce
<1>4. \/ MustWait(s, x, queued) /\ Answered(s, [x EXCEPT !.lineQueue = Append(@, n)])
      \/ ~MustWait(s, x, queued) /\ ProcessCommand(s, x, ce, line)
    BY <1>2 DEF LineFromClient, ce, line
<1>5. \A id \in DOMAIN coreInstances : CoreKeeps(coreInstances[id], coreInstances[id])
    BY <1>0, QuietKeeps DEF CorePart
<1>6. ASSUME NEW y, Becomes(s, y), y.connectionType = "TCP", y.curCommand = NoCommand,
             clientsToRemove \subseteq clientsToRemove',
             \A id \in DOMAIN coreInstances :
                 id \in DOMAIN coreInstances' /\ CoreKeeps(coreInstances[id], coreInstances'[id]),
             s # drained /\ s \notin clientsToRemove => y.lineQueue = <<>> \/ WaitingForCore(s, y)
      PROVE  PlainInput' /\ QueuedWhileWaiting'
    <2>1. sessionContexts' = [sessionContexts EXCEPT ![s] = y]
        BY <1>6 DEF Becomes
    <2>2. PlainInput'
        BY <1>6, <2>1 DEF PlainInput
    <2>3. ASSUME NEW t \in DOMAIN sessionContexts' \ (clientsToRemove' \union {drained'})
          PROVE  sessionContexts'[t].lineQueue = <<>> \/ WaitingForCore(t, sessionContexts'[t])
        <3>1. t \in DOMAIN sessionContexts \ (clientsToRemove \union {drained})
            BY <1>6, <2>1, <2>3
        <3>2. CASE t = s
            BY <1>6, <2>1, <3>1, <3>2
        <3>3. CASE t # s
            BY <2>1, <3>1, <3>3 DEF QueuedWhileWaiting
        <3> QED
            BY <3>2, <3>3
    <2> QED
        BY <1>0, <1>6, <2>2, <2>3, QueuedStays
<1>7. CASE MustWait(s, x, queued) /\ Answered(s, [x EXCEPT !.lineQueue = Append(@, n)])
    <2> DEFINE y == [x EXCEPT !.lineQueue = Append(@, n)]
    <2>1. y.connectionType = "TCP" /\ y.curCommand = NoCommand /\ y.coreID = x.coreID
        BY DEF SessionContext
    <2>2. Becomes(s, y) /\ UNCHANGED <<coreInstances, clientsToRemove>>
        BY <1>7 DEF Answered
    <2> HIDE DEF y
    <2>3. ASSUME s # drained, s \notin clientsToRemove PROVE WaitingForCore(s, y)
        <3>1. x = sessionContexts[s] /\ ~queued
            BY <2>3
        <3>2. x.lineQueue # <<>> => WaitingForCore(s, x)
            BY <2>3, <3>1 DEF QueuedWhileWaiting
        <3>3. WaitingForCore(s, x)
            BY <1>7, <3>2 DEF MustWait, IsWaitingForCoreReply
        <3> QED
            BY <2>1, <3>3 DEF WaitingForCore
    <2>4. \A id \in DOMAIN coreInstances :
              id \in DOMAIN coreInstances' /\ CoreKeeps(coreInstances[id], coreInstances'[id])
        BY <1>5, <2>2
    <2> QED
        BY <1>6, <2>1, <2>2, <2>3, <2>4
<1>8. CASE ~MustWait(s, x, queued) /\ ProcessCommand(s, x, ce, line)
    <2>1. PICK sc2 : Executed(s, x, ce, line, sc2)
        BY <1>0, <1>1, <1>3, <1>8, CommandExecuted DEF line
    <2>2. CoresKeep
        BY <1>0, <1>3, <2>1, ExecutedKeeps
    <2>3. /\ Becomes(s, sc2) /\ clientsToRemove \subseteq clientsToRemove'
          /\ sc2.connectionType = "TCP" /\ sc2.curCommand = NoCommand /\ sc2.lineQueue = x.lineQueue
        BY <2>1 DEF Executed, SameInput
    <2>4. s # drained => sc2.lineQueue = <<>>
        BY <1>8, <2>3 DEF MustWait
    <2> QED
        BY <1>6, <2>2, <2>3, <2>4 DEF CoresKeep
<1> QED
    BY <1>4, <1>7, <1>8

(* The client that waited for the line is drained; others wait on.          *)
LEMMA ReadCoreLinePlain ==
    ASSUME Parts, CorePart', AllRunning', PlainInput, QueuedWhileWaiting, ReadCoreLine
    PROVE  PlainInput' /\ QueuedWhileWaiting'
<1>0. SessionPart /\ CorePart /\ LoopPart /\ drained = NoClient
    BY DEF Parts, ReadCoreLine
<1>1. PICK id \in First(readyCores) :
          /\ coreInstances[id].fromCore # <<>>
          /\ coreInstances' = [coreInstances EXCEPT ![id] = LineFromCore(coreInstances[id])]
          /\ LET c    == coreInstances[id]
                 line == Head(c.fromCore)
                 s    == c.lastClientID
             IN IF FindClient(s)
                THEN sessionContexts' = [sessionContexts EXCEPT ![s] =
                        CASE ForwardAs(c) = "status" -> ForwardStatusline(@, line.cmd, line.colon)
                          [] ForwardAs(c) = "data"   -> ForwardDataset(@, line.blank)
                          [] OTHER                   -> @]
                ELSE UNCHANGED sessionContexts
          /\ drained' = ClientWaiting(coreInstances[id])
    <2>1. \E id \in First(readyCores) :
              /\ coreInstances[id].fromCore # <<>>
              /\ coreInstances' = [coreInstances EXCEPT ![id] = LineFromCore(coreInstances[id])]
              /\ LET c    == coreInstances[id]
                     line == Head(c.fromCore)
                     s    == c.lastClientID
                 IN IF FindClient(s)
                    THEN sessionContexts' = [sessionContexts EXCEPT ![s] =
                            CASE ForwardAs(c) = "status" -> ForwardStatusline(@, line.cmd, line.colon)
                              [] ForwardAs(c) = "data"   -> ForwardDataset(@, line.blank)
                              [] OTHER                   -> @]
                    ELSE UNCHANGED sessionContexts
              /\ drained' = ClientWaiting(coreInstances[id])
        BY DEF ReadCoreLine
    <2> QED
        BY <2>1
<1>c. PICK c : c = coreInstances[id]
    OBVIOUS
<1>d. PICK d : d = LineFromCore(c)
    OBVIOUS
<1> DEFINE line == Head(c.fromCore)
           s    == c.lastClientID
           ce   == line.cmd
           sc   == sessionContexts[s]
           a    == ForwardStatusline(sc, ce, line.colon)
           b    == ForwardDataset(sc, line.blank)
<1>2. UNCHANGED <<lines, clientsToRemove>>
    BY DEF ReadCoreLine, clientVars
<1>3. id \in DOMAIN coreInstances /\ WF(c)
    BY <1>c, <1>0, <1>1 DEF First, LoopPart, CorePart
<1>4. /\ ce \in GivenCommand /\ line.colon \in BOOLEAN /\ line.blank \in BOOLEAN
    BY <1>c, <1>1, <1>3, ReadQuieter
<1> HIDE DEF line, ce
<1>5. ASSUME NEW t \in DOMAIN sessionContexts'
      PROVE  /\ t \in DOMAIN sessionContexts /\ SameInput(sessionContexts[t], sessionContexts'[t])
             /\ sessionContexts'[t].coreID = sessionContexts[t].coreID
    <2>0. \A x : SameInput(x, x)
        BY DEF SameInput
    <2>1. CASE ~FindClient(s)
        BY <1>c, <1>1, <2>0, <2>1
    <2>2. CASE FindClient(s)
        <3>1. s \in DOMAIN sessionContexts /\ sc \in SessionContext
            BY <1>0, <2>2, SessionsStay DEF FindClient, SessionOK
        <3>2. \A y \in {a, b, sc} : SameInput(sc, y) /\ y.coreID = sc.coreID
            BY <1>4, <2>0, <3>1, Forwarding
        <3>3. \E y \in {a, b, sc} : sessionContexts' = [sessionContexts EXCEPT ![s] = y]
            <4>1. sessionContexts' = [sessionContexts EXCEPT ![s] =
                      CASE ForwardAs(c) = "status" -> a [] ForwardAs(c) = "data" -> b [] OTHER -> sc]
                BY <1>c, <1>1, <2>2 DEF line, ce
            <4> QED
                BY <4>1
        <3> QED
            BY <2>0, <3>1, <3>2, <3>3
    <2> QED
        BY <2>1, <2>2
<1>6. PlainInput'
    BY <1>2, <1>5 DEF PlainInput, SameInput
<1>7. ASSUME NEW t \in DOMAIN sessionContexts', t \notin clientsToRemove, t # drained',
             sessionContexts'[t].lineQueue # <<>>
      PROVE  WaitingForCore(t, sessionContexts[t])'
    <2>k. PICK k : k = sessionContexts[t].coreID
        OBVIOUS
    <2>1. t \in DOMAIN sessionContexts /\ t # drained
        BY <1>0, <1>5, <1>7, SessionsStay, SessionIDsAssumption
    <2>2. WaitingForCore(t, sessionContexts[t])
        BY <1>5, <1>7, <2>1 DEF QueuedWhileWaiting, SameInput
    <2>3. k \in DOMAIN coreInstances /\ HasDataForClient(coreInstances[k], t)
        BY <2>k, <2>2 DEF WaitingForCore, FindInstance
    <2>4. k \in DOMAIN coreInstances' /\ coreInstances'[k].processRunning
        BY <1>1, <2>3 DEF AllRunning
    <2>5. HasDataForClient(coreInstances'[k], t)
        <3>1. CASE k # id
            BY <1>1, <2>3, <3>1
        <3>2. CASE k = id
            <4>1. t # c.lastClientID
                BY <1>c, <1>1, <1>7, <2>1, <2>2 DEF ClientWaiting, FindClient, IsWaitingForCoreReply
            <4>2. HasQueued(c, t)
                BY <1>c, <2>3, <3>2, <4>1 DEF HasDataForClient
            <4>3. d.commandQ = c.commandQ
                BY <1>d, <1>3 DEF LineFromCore, WF, WellFormed, CoreRecords
            <4> QED
                BY <1>c, <1>d, <1>1, <1>3, <3>2, <4>2, <4>3 DEF HasDataForClient, HasQueued
        <3> QED
            BY <3>1, <3>2
    <2> QED
        BY <1>5, <2>k, <2>4, <2>5 DEF WaitingForCore, FindInstance
<1>8. QueuedWhileWaiting'
    BY <1>2, <1>7 DEF QueuedWhileWaiting
<1> QED
    BY <1>6, <1>8

LEMMA LinesReadPlain ==
    ASSUME Parts, CorePart', AllRunning', PlainInput, QueuedWhileWaiting, ReadClientLine \/ DrainLine
    PROVE  PlainInput' /\ QueuedWhileWaiting'
<1>0. SessionPart /\ LoopPart
    BY DEF Parts
<1>1. CASE ReadClientLine
    <2>1. PICK s \in First(readyClients) :
              /\ Unread(s)
              /\ IF sessionContexts[s].connectionType = "HTTP"
                 THEN LineFromHTTPClient(s, sessionContexts[s], linesRead[s] + 1)
                 ELSE LineFromClient(s, sessionContexts[s], linesRead[s] + 1, FALSE)
              /\ UNCHANGED <<lines, drained>>
        BY <1>1 DEF ReadClientLine
    <2>2. /\ s \in DOMAIN sessionContexts /\ s \in readyClients /\ linesRead[s] \in Nat
          /\ sessionContexts[s] \in SessionContext /\ lines[s] \in Seq(CommandLine)
        BY <1>0, <2>1 DEF First, LoopPart, SessionPart, SessionOK
    <2>3. s # drained
        BY <1>0, <2>2, SessionsStay, SessionIDsAssumption DEF LoopPart, DrainedAlone
    <2>4. linesRead[s] + 1 \in DOMAIN lines[s]
        BY <2>1, <2>2 DEF Unread
    <2>5. sessionContexts[s].connectionType = "TCP" /\ sessionContexts[s].curCommand = NoCommand
        BY <2>2 DEF PlainInput
    <2>6. LineFromClient(s, sessionContexts[s], linesRead[s] + 1, FALSE)
        BY <2>1, <2>5
    <2> QED
        BY <2>1, <2>2, <2>3, <2>4, <2>5, <2>6, PlainLine
<1>2. CASE DrainLine
    <2>s. PICK s : s = drained
        OBVIOUS
    <2> DEFINE sc == sessionContexts[s]
               x  == [sc EXCEPT !.lineQueue = Tail(@)]
               n  == Head(sc.lineQueue)
    <2>1. /\ s # NoClient /\ s = drained /\ CanDrain(s) /\ LineFromClient(s, x, n, TRUE)
          /\ UNCHANGED <<lines, drained>>
        BY <1>2, <2>s DEF DrainLine, clientVars, loopVars
    <2>2. /\ s \in DOMAIN sessionContexts /\ s \in SessionIDs /\ linesRead[s] \in Nat
          /\ linesRead[s] <= Len(lines[s]) /\ lines[s] \in Seq(CommandLine)
          /\ SessionOK(s, sc, linesRead[s], coreIDCounter)
        BY <1>0, <2>1, SessionsStay DEF LoopPart, SessionPart
    <2>3. sc.lineQueue \in Seq(1..linesRead[s]) /\ sc.lineQueue # <<>> /\ sc \in SessionContext
        BY <2>1, <2>2 DEF SessionOK, CanDrain
    <2>4. n \in 1..linesRead[s] /\ Tail(sc.lineQueue) \in Seq(Nat)
        BY <2>2, <2>3 DEF SessionContext
    <2>5. n \in DOMAIN lines[s]
        BY <2>2, <2>4
    <2>6. x \in SessionContext /\ x.connectionType = "TCP" /\ x.curCommand = NoCommand
        BY <2>2, <2>3, <2>4 DEF SessionContext, PlainInput
    <2> HIDE DEF x, n
    <2> QED
        BY <2>1, <2>2, <2>5, <2>6, PlainLine
<1> QED
    BY <1>1, <1>2

LEMMA DrainDonePlain ==
    ASSUME Parts, CorePart', AllRunning', PlainInput, QueuedWhileWaiting, DrainDone
    PROVE  PlainInput' /\ QueuedWhileWaiting'
<1>0. CorePart /\ \A id \in DOMAIN coreInstances : CoreKeeps(coreInstances[id], coreInstances[id])
    BY QuietKeeps DEF Parts, CorePart
<1>1. UNCHANGED <<sessionContexts, coreInstances, lines, clientsToRemove>> /\ ~CanDrain(drained)
    BY DEF DrainDone, serverVars, clientVars
<1>2. ASSUME NEW t \in DOMAIN sessionContexts \ clientsToRemove, sessionContexts[t].lineQueue # <<>>
      PROVE  WaitingForCore(t, sessionContexts[t])
    <2>1. CASE t = drained
        BY <1>1, <1>2, <2>1 DEF CanDrain, IsWaitingForCoreReply, PlainInput
    <2>2. CASE t # drained
        BY <1>2, <2>2 DEF QueuedWhileWaiting
    <2> QED
        BY <2>1, <2>2
<1>3. PlainInput'
    BY <1>1 DEF PlainInput
<1>4. QueuedWhileWaiting'
    BY <1>0, <1>1, <1>2, QueuedStays
<1> QED
    BY <1>3, <1>4

LEMMA ConnectPlain ==
    ASSUME PlainLines, Parts, CorePart', AllRunning', PlainInput, QueuedWhileWaiting,
           NEW connectionType \in ConnectionTypes, Connect(connectionType)
    PROVE  PlainInput' /\ QueuedWhileWaiting'
<1>0. CorePart /\ \A id \in DOMAIN coreInstances : CoreKeeps(coreInstances[id], coreInstances[id])
    BY QuietKeeps DEF Parts, CorePart
<1>p. PICK s : s = sessionIDCounter + 1
    OBVIOUS
<1>n. PICK new : new = NewSession(connectionType)
    OBVIOUS
<1>1. /\ sessionContexts' = [x \in DOMAIN sessionContexts \union {s} |->
                                IF x = s THEN new ELSE sessionContexts[x]]
      /\ UNCHANGED <<coreInstances, lines, clientsToRemove, drained>>
    BY <1>p, <1>n DEF Connect, clientVars, loopVars
<1>2. new.lineQueue = <<>> /\ new.connectionType = "TCP" /\ new.curCommand = NoCommand
    BY <1>n DEF NewSession, PlainLines
<1>3. PlainInput'
    BY <1>1, <1>2 DEF PlainInput
<1>4. \A t \in DOMAIN sessionContexts' \ (clientsToRemove' \union {drained'}) :
          sessionContexts'[t].lineQueue = <<>> \/ WaitingForCore(t, sessionContexts'[t])
    BY <1>1, <1>2 DEF QueuedWhileWaiting
<1>5. QueuedWhileWaiting'
    BY <1>0, <1>1, <1>4, QueuedStays
<1> QED
    BY <1>3, <1>5

LEMMA ClientSendsPlain ==
    ASSUME PlainLines, Parts, PlainInput, QueuedWhileWaiting, NEW s \in SessionIDs, ClientSends(s)
    PROVE  PlainInput' /\ QueuedWhileWaiting'
<1>1. PICK line \in Lines[s] : lines' = [lines EXCEPT ![s] = Append(@, line)]
    BY DEF ClientSends, PlainInput
<1>2. UNCHANGED <<sessionContexts, coreInstances, clientsToRemove, drained>>
    BY DEF ClientSends, serverVars, loopVars
<1>3. ~line.colon /\ lines[s] \in Seq(CommandLine) /\ lines \in [SessionIDs -> Seq(CommandLine)]
    BY SessionsStay DEF PlainLines, Parts
<1>4. \A n \in DOMAIN Append(lines[s], line) :
          (n \in DOMAIN lines[s] /\ Append(lines[s], line)[n] = lines[s][n]) \/ Append(lines[s], line)[n] = line
    BY <1>3
<1>5. \A t \in SessionIDs : lines'[t] = IF t = s THEN Append(lines[s], line) ELSE lines[t]
    BY <1>1, <1>3
<1>6. PlainInput'
    BY <1>2, <1>3, <1>4, <1>5 DEF PlainInput
<1>7. QueuedWhileWaiting'
    BY <1>2 DEF QueuedWhileWaiting, WaitingForCore, FindInstance
<1> QED
    BY <1>6, <1>7

(* The steps of the loop, the connections and the cores that read no line.  *)
ReadsNoLine ==
    \/ LoopTop \/ Dispatch \/ ReadClientEOF \/ ReadCoreEOF \/ EndIteration \/ UNCHANGED vars
    \/ \E s \in SessionIDs : FlushSession(s) \/ WriteFailed(s) \/ ClientCloses(s)
    \/ \E id \in DOMAIN coreInstances :
           CoreAnswers(id) \/ CoreContinues(id, TRUE) \/ CoreContinues(id, FALSE) \/ CoreExits(id)

LEMMA QuietPlain ==
    ASSUME Parts, CorePart', AllRunning', PlainInput, QueuedWhileWaiting, coresToRemove = {}, ReadsNoLine
    PROVE  PlainInput' /\ QueuedWhileWaiting'
<1> DEFINE CoresAsBefore == \A id \in DOMAIN coreInstances :
                                id \in DOMAIN coreInstances' /\ CoreKeeps(coreInstances[id], coreInstances'[id])
           SessionsAsBefore == \A t \in DOMAIN sessionContexts' :
               /\ t \in DOMAIN sessionContexts /\ SameOrdered(sessionContexts[t], sessionContexts'[t])
               /\ sessionContexts'[t].coreID = sessionContexts[t].coreID
               /\ t \in clientsToRemove => t \in clientsToRemove'
           Goal == UNCHANGED <<lines, drained>> /\ CoresAsBefore /\ SessionsAsBefore
<1>0. /\ SessionPart /\ CorePart
      /\ \A t \in DOMAIN sessionContexts : sessionContexts[t] \in SessionContext
      /\ \A id \in DOMAIN coreInstances : CoreKeeps(coreInstances[id], coreInstances[id])
    BY SessionsStay, QuietKeeps DEF Parts, SessionOK, CorePart
<1>1. UNCHANGED coreInstances => CoresAsBefore
    BY <1>0
<1>2. UNCHANGED sessionContexts /\ clientsToRemove \subseteq clientsToRemove' => SessionsAsBefore
    BY NothingSame
<1>3. ASSUME LoopTop PROVE Goal
    <2>1. /\ sessionContexts' = [s \in DOMAIN sessionContexts \ clientsToRemove |-> sessionContexts[s]]
          /\ coreInstances' = [id \in DOMAIN coreInstances |-> FlushCommandQ(coreInstances[id])]
          /\ UNCHANGED <<lines, drained>>
        BY <1>3 DEF LoopTop, FlushAll, Restrict, clientVars
    <2>2. CoresAsBefore
        BY <1>0, <2>1, QuietKeeps DEF CorePart
    <2>3. SessionsAsBefore
        BY <2>1, NothingSame
    <2> QED
        BY <2>1, <2>2, <2>3
<1>4. ASSUME ReadClientEOF PROVE Goal
    <2>1. UNCHANGED <<coreInstances, lines, drained>>
        BY <1>4 DEF ReadClientEOF, clientVars
    <2>2. SessionsAsBefore
        BY <1>4, NothingSame DEF ReadClientEOF, Restrict
    <2> QED
        BY <1>1, <2>1, <2>2
<1>5. ASSUME EndIteration PROVE Goal
    <2>1. PICK done : sessionContexts' = [s \in DOMAIN sessionContexts |->
                                             [sessionContexts[s] EXCEPT !.shutdown = @ \/ s \in done]]
        BY <1>5 DEF EndIteration
    <2>2. /\ coreInstances' = [id \in DOMAIN coreInstances \ coresToRemove |-> coreInstances[id]]
          /\ UNCHANGED <<lines, drained>> /\ clientsToRemove \subseteq clientsToRemove'
        BY <1>5 DEF EndIteration, Restrict, clientVars
    <2>3. CoresAsBefore
        BY <1>0, <2>2
    <2>4. SessionsAsBefore
        BY <1>0, <2>1, <2>2 DEF SessionContext, SameOrdered, SameInput
    <2> QED
        BY <2>2, <2>3, <2>4
<1>6. ASSUME NEW s \in SessionIDs, FlushSession(s) PROVE Goal
    <2>1. /\ s \in DOMAIN sessionContexts
          /\ sessionContexts' = [sessionContexts EXCEPT ![s] = [@ EXCEPT !.writeBufferEmpty = TRUE]]
          /\ UNCHANGED <<coreInstances, lines, drained, clientsToRemove>>
        BY <1>6 DEF FlushSession, clientVars, loopVars
    <2>2. SessionsAsBefore
        BY <1>0, <2>1, NothingSame DEF SessionContext, SameOrdered, SameInput
    <2> QED
        BY <1>1, <2>1, <2>2
<1>7. ASSUME Dispatch \/ ReadCoreEOF \/ (\E s \in SessionIDs : WriteFailed(s) \/ ClientCloses(s)) \/ UNCHANGED vars
      PROVE  Goal
    <2>1. /\ UNCHANGED <<sessionContexts, coreInstances, lines, drained>>
          /\ clientsToRemove \subseteq clientsToRemove'
        BY <1>7 DEF Dispatch, ReadCoreEOF, WriteFailed, ClientCloses, vars, serverVars, loopVars, clientVars
    <2> QED
        BY <1>1, <1>2, <2>1
<1>8. ASSUME NEW id \in DOMAIN coreInstances,
             CoreAnswers(id) \/ CoreContinues(id, TRUE) \/ CoreContinues(id, FALSE) \/ CoreExits(id)
      PROVE  Goal
    <2>1. PICK d : CoreKeeps(coreInstances[id], d) /\ CoreStep(id, d)
        BY <1>0, <1>8, QuietKeeps DEF CoreAnswers, CoreContinues, CoreExits, CorePart
    <2>2. /\ coreInstances' = [coreInstances EXCEPT ![id] = d]
          /\ UNCHANGED <<sessionContexts, lines, drained, clientsToRemove>>
        BY <2>1 DEF CoreStep, clientVars, loopVars
    <2>3. CoresAsBefore
        BY <1>0, <2>1, <2>2
    <2> QED
        BY <1>2, <2>2, <2>3
<1>9. Goal
    BY <1>3, <1>4, <1>5, <1>6, <1>7, <1>8 DEF ReadsNoLine
<1> QED
    BY <1>0, <1>9, PlainStays

LEMMA StepPlain ==
    ASSUME PlainLines, ~CoresMayFail, Inv, Inv', OrderInv, OrderInv', PlainInv, [Next]_vars
    PROVE  PlainInv'
<1>0. Parts /\ PlainInput /\ QueuedWhileWaiting /\ CoresAlive /\ coresToRemove = {}
    BY InvParts, PlainParts DEF CoresAlive
<1>1. CoresAlive'
    BY <1>0, StepAlive
<1>2. CorePart'
    <2>1. Parts'
        BY InvParts, PTL
    <2> QED
        BY <2>1 DEF Parts
<1>3. AllRunning'
    <2>1. OrderPart'
        BY OrderParts, PTL
    <2> QED
        BY <2>1 DEF OrderPart, AllRunning
<1> DEFINE Goal == PlainInput' /\ QueuedWhileWaiting'
<1>4. ASSUME ServerStep PROVE Goal
    BY <1>0, <1>2, <1>3, <1>4, QuietPlain, LinesReadPlain, ReadCoreLinePlain, DrainDonePlain
    DEF ServerStep, ReadsNoLine
<1>5. ASSUME NEW s \in SessionIDs,
             FlushSession(s) \/ WriteFailed(s) \/ ClientSends(s) \/ ClientCloses(s)
      PROVE  Goal
    BY <1>0, <1>2, <1>3, <1>5, QuietPlain, ClientSendsPlain DEF ReadsNoLine
<1>6. ASSUME NEW connectionType \in ConnectionTypes, Connect(connectionType) PROVE Goal
    BY <1>0, <1>2, <1>3, <1>6, ConnectPlain
<1>7. ASSUME NEW id \in CoreIDs,
             CoreAnswers(id) \/ CoreContinues(id, TRUE) \/ CoreContinues(id, FALSE) \/ CoreExits(id)
      PROVE  Goal
    BY <1>0, <1>2, <1>3, <1>7, QuietPlain DEF ReadsNoLine, CoreIDs
<1>8. ASSUME UNCHANGED vars PROVE Goal
    BY <1>0, <1>2, <1>3, <1>8, QuietPlain DEF ReadsNoLine
<1>9. Goal
    BY <1>4, <1>5, <1>6, <1>7, <1>8 DEF Next
<1>10. CoresAlive' /\ QueuedWhileWaiting' /\ PlainInput' => PlainInv'
    BY DEF PlainInv, PlainInput, Tcp
<1> QED
    BY <1>1, <1>9, <1>10

LEMMA InitPlain == Init => PlainInv
<1>1. DOMAIN <<>> = {}
    OBVIOUS
<1>2. ASSUME Init PROVE PlainInput /\ QueuedWhileWaiting
    BY <1>1, <1>2 DEF Init, PlainInput, QueuedWhileWaiting
<1> QED
    BY <1>2, InitAlive, PlainParts

(* A server of TCP clients that send no data sets, no drop-graph and no      *)
(* shutdown, to cores that do not fail: every line of a session that is     *)
(* queued has a reply of its core to come, which makes the server drain the *)
(* queue (the drain after lineFromCore and its isWaitingForCoreReply test). *)
THEOREM PlainInvariance ==
    ASSUME PlainLines, NoTermination, ~CoresMayFail
    PROVE  Spec => []PlainInv
<1>1. Inv /\ Inv' /\ OrderInv /\ OrderInv' /\ PlainInv /\ [Next]_vars => PlainInv'
    BY StepPlain
<1> QED
    BY <1>1, InitPlain, OrderInvariance, Invariance, PTL DEF Spec

(* So no line is left in a queue that nothing will look at again: the queue *)
(* is looked at only when a line of the core's has been forwarded.          *)
THEOREM QueuedUntilAnswered ==
    ASSUME PlainLines, NoTermination, ~CoresMayFail
    PROVE  Spec => []QueuedWhileWaiting
<1>1. PlainInv => QueuedWhileWaiting
    BY PlainParts
<1> QED
    BY <1>1, PlainInvariance, PTL

-----------------------------------------------------------------------------
(* HTTP connections of one request.  Session s has its only request before   *)
(* it, or with one core, or has been answered: once its conversation is     *)
(* finished, or the connection shut down, nothing is due to it.  Its client  *)
(* may do only what every client may, so that its request gives a core one  *)
(* command at most.                                                         *)
HTTPOrderly(s) ==
    LET sc == sessionContexts[s]
    IN /\ sc.lineQueue = <<>> /\ sc.curCommand = NoCommand
       /\ linesRead[s] = 0 =>
             sc.accessLevel < AccessLevels.admin /\ ~sc.conversationFinished /\ ~sc.shutdown
       /\ \A id \in DOMAIN coreInstances : DueTo(coreInstances[id], s) =>
             /\ linesRead[s] = 1 /\ ~sc.conversationFinished /\ ~sc.shutdown
             /\ OnceDue(coreInstances[id], s)
             /\ \A id2 \in DOMAIN coreInstances : DueTo(coreInstances[id2], s) => id2 = id

HTTPInv == \A s \in Http : Len(lines[s]) <= 1 => HTTPOrderly(s)

\* A session that shows the same but for its core, replies and buffers, and is
\* shut down only if its conversation is finished.
SameConversation(sc, sc2) ==
    /\ SameInput(sc, sc2)
    /\ sc2.accessLevel = sc.accessLevel /\ sc2.conversationFinished = sc.conversationFinished
    /\ sc2.shutdown => sc.shutdown \/ sc.conversationFinished

\* A connection stays what it is, TCP or HTTP.
SameConnections ==
    \A s \in DOMAIN sessionContexts \intersect DOMAIN sessionContexts' :
        sessionContexts'[s].connectionType = sessionContexts[s].connectionType

\* What the cores do for others leaves the session in order.
LEMMA OrderlyStays ==
    ASSUME NEW s, HTTPOrderly(s), NEW k, NEW s0, CoresMove(k, s0),
           s # s0 \/ k \notin DOMAIN coreInstances, linesRead'[s] = linesRead[s],
           SameConversation(sessionContexts[s], sessionContexts'[s])
    PROVE  HTTPOrderly(s)'
<1>1. ASSUME NEW id \in DOMAIN coreInstances', DueTo(coreInstances'[id], s)
      PROVE  /\ id \in DOMAIN coreInstances /\ DueTo(coreInstances[id], s)
             /\ OnceDue(coreInstances[id], s) => OnceDue(coreInstances'[id], s)
    <2>1. CASE id \in DOMAIN coreInstances /\ Quieter(coreInstances[id], coreInstances'[id])
        BY <1>1, <2>1 DEF Quieter
    <2>2. CASE id = k /\ id \in DOMAIN coreInstances /\ Given(coreInstances[id], coreInstances'[id], s0)
        BY <1>1, <2>2 DEF Given
    <2>3. ~\E name \in STRING : coreInstances'[id] = StartCore(name)
        BY <1>1, StartQuiet
    <2> QED
        BY <2>1, <2>2, <2>3 DEF CoresMove
<1>2. /\ sessionContexts'[s].lineQueue = <<>> /\ sessionContexts'[s].curCommand = NoCommand
      /\ linesRead'[s] = 0 =>
            /\ sessionContexts'[s].accessLevel < AccessLevels.admin
            /\ ~sessionContexts'[s].conversationFinished /\ ~sessionContexts'[s].shutdown
    BY DEF HTTPOrderly, SameConversation, SameInput
<1>3. ASSUME NEW id \in DOMAIN coreInstances', DueTo(coreInstances'[id], s)
      PROVE  /\ linesRead'[s] = 1
             /\ ~sessionContexts'[s].conversationFinished /\ ~sessionContexts'[s].shutdown
             /\ OnceDue(coreInstances'[id], s)
             /\ \A id2 \in DOMAIN coreInstances' : DueTo(coreInstances'[id2], s) => id2 = id
    BY <1>1, <1>3 DEF HTTPOrderly, SameConversation
<1> QED
    BY <1>2, <1>3 DEF HTTPOrderly

(* The steps in which sessions read nothing and are told nothing.           *)
LEMMA HTTPQuiet ==
    ASSUME CorePart, HTTPInv, CoresMove(0, 0), UNCHANGED linesRead,
           \A s \in DOMAIN sessionContexts' :
               /\ s \in DOMAIN sessionContexts /\ SameConversation(sessionContexts[s], sessionContexts'[s])
               /\ Len(lines'[s]) <= 1 => Len(lines[s]) <= 1
    PROVE  HTTPInv' /\ SameConnections
<1>0. SameConnections
    BY DEF SameConnections, SameConversation, SameInput
<1> SUFFICES ASSUME NEW s \in Http', Len(lines'[s]) <= 1
             PROVE  HTTPOrderly(s)'
    BY <1>0 DEF HTTPInv
<1>1. s \in Http /\ HTTPOrderly(s) /\ 0 \notin DOMAIN coreInstances
    BY DEF Http, Tcp, HTTPInv, SameConversation, SameInput, CorePart
<1>2. SameConversation(sessionContexts[s], sessionContexts'[s])
    BY DEF Http
<1> QED
    BY <1>1, <1>2, OrderlyStays

LEMMA SameTalk == \A sc : SameConversation(sc, sc)
BY DEF SameConversation, SameInput

(* A line moves the cores for its own session only.                         *)
LineMoved(s) ==
    /\ \E k : CoresMove(k, s)
    /\ \E y : Becomes(s, y) /\ y.connectionType = sessionContexts[s].connectionType

LEMMA AnsweredMoves ==
    ASSUME CorePart, NEW s, NEW y, Answered(s, y), y.connectionType = sessionContexts[s].connectionType
    PROVE  LineMoved(s)
<1>1. CoresMove(0, 0) /\ 0 \notin DOMAIN coreInstances
    BY CoresStay DEF Answered, CorePart
<1>2. CoresMove(0, s)
    BY <1>1 DEF CoresMove
<1> QED
    BY <1>2 DEF Answered, LineMoved

LEMMA ExecutedMoves ==
    ASSUME CorePart, NEW s, NEW x \in SessionContext, x.connectionType = sessionContexts[s].connectionType,
           NEW ce \in GivenCommand, ce.clientID = s, NEW line \in CommandLine,
           ProcessCommand(s, x, ce, line)
    PROVE  LineMoved(s)
<1>1. DOMAIN coreInstances \subseteq Nat
    BY DEF CorePart
<1>2. PICK sc2 : Executed(s, x, ce, line, sc2)
    BY <1>1, CommandExecuted
<1>3. \E k : CoresMove(k, s)
    BY <1>2, ExecutedCores
<1> QED
    BY <1>2, <1>3 DEF LineMoved, Executed, SameInput

LEMMA LineMoves ==
    ASSUME SessionPart, CorePart,
           NEW s \in DOMAIN sessionContexts, NEW m \in Nat, m <= Len(lines[s]), NEW n \in 1..m,
           NEW x, SessionOK(s, x, m, coreIDCounter), x.connectionType = sessionContexts[s].connectionType,
           NEW queued \in BOOLEAN, LineFromClient(s, x, n, queued)
    PROVE  LineMoved(s)
<1> DEFINE line == lines[s][n]
           ce   == NewCommand(s, n, line.word, line.colon)
           cur  == AppendToDataset(x.curCommand, n, line.word = Blank)
<1>0. s \in SessionIDs /\ x \in SessionContext /\ lines[s] \in Seq(CommandLine)
    BY DEF SessionPart, SessionOK
<1>1. \A i \in 1..m : lines[s][i] \in CommandLine /\ i \in Nat
    BY <1>0
<1>2. line \in CommandLine /\ n \in Nat
    BY <1>1
<1>3. ce.clientID = s /\ (Flushable(ce) => ce \in GivenCommand)
    BY <1>0, <1>2, CommandOfLine
<1>4. ASSUME x.curCommand # NoCommand
      PROVE  cur.tag \in 1..m /\ cur.clientID = s /\ (Flushable(cur) => cur \in GivenCommand)
    <2>1. x.curCommand.clientID = s /\ x.curCommand.tag \in 1..m /\ x.curCommand \in Entry
        BY <1>0, <1>4 DEF SessionOK, SessionContext
    <2> QED
        BY <1>0, <1>2, <2>1, CollectedCommand
<1> HIDE DEF ce, cur, line
<1>5. CASE /\ x.curCommand # NoCommand /\ Flushable(cur)
           /\ ProcessCommand(s, [x EXCEPT !.curCommand = NoCommand], cur, lines[s][cur.tag])
    <2>1. /\ [x EXCEPT !.curCommand = NoCommand] \in SessionContext
          /\ [x EXCEPT !.curCommand = NoCommand].connectionType = x.connectionType
        BY <1>0, NoCommandTyped DEF SessionContext
    <2> QED
        BY <1>1, <1>4, <1>5, <2>1, ExecutedMoves
<1>6. CASE Flushable(ce) /\ ProcessCommand(s, x, ce, line)
    BY <1>0, <1>2, <1>3, <1>6, ExecutedMoves
<1>7. CASE \/ Answered(s, [x EXCEPT !.curCommand = cur]) \/ Answered(s, [x EXCEPT !.curCommand = ce])
           \/ Answered(s, [x EXCEPT !.lineQueue = Append(@, n)])
    <2>1. \A y \in {[x EXCEPT !.curCommand = cur], [x EXCEPT !.curCommand = ce],
                    [x EXCEPT !.lineQueue = Append(@, n)]} : y.connectionType = x.connectionType
        BY <1>0 DEF SessionContext
    <2> QED
        BY <1>7, <2>1, AnsweredMoves
<1> QED
    BY <1>5, <1>6, <1>7 DEF LineFromClient, ce, cur, line

LEMMA RequestMoves ==
    ASSUME SessionPart, CorePart,
           NEW s \in DOMAIN sessionContexts, NEW m \in Nat, m <= Len(lines[s]), NEW n \in 1..m,
           SessionOK(s, sessionContexts[s], m, coreIDCounter),
           LineFromHTTPClient(s, sessionContexts[s], n)
    PROVE  LineMoved(s)
<1> DEFINE sc == sessionContexts[s]
<1>1. ASSUME NEW ce, Status(s, sc, ce) PROVE LineMoved(s)
    <2>1. ForwardStatusline(sc, ce, FALSE).connectionType = sc.connectionType
        BY DEF ForwardStatusline, SessionOK, SessionContext
    <2> QED
        BY <1>1, <2>1, AnsweredMoves DEF Status
<1>2. CASE LineFromClient(s, sc, n, FALSE)
    BY <1>2, LineMoves
<1>3. ASSUME NEW id \in FindNamedInstance(lines[s][n].core),
             LineFromClient(s, [sc EXCEPT !.coreID = id], n, FALSE)
      PROVE  LineMoved(s)
    <2> DEFINE x == [sc EXCEPT !.coreID = id]
    <2>1. id \in Nat /\ id <= coreIDCounter
        BY DEF FindNamedInstance, CorePart
    <2>2. /\ x \in SessionContext /\ x.coreID = id /\ x.lineQueue = sc.lineQueue
          /\ x.curCommand = sc.curCommand /\ x.replies = sc.replies /\ x.connectionType = sc.connectionType
        BY <2>1 DEF SessionOK, SessionContext
    <2>3. LineFromClient(s, x, n, FALSE)
        BY <1>3
    <2> HIDE DEF x
    <2>4. SessionOK(s, x, m, coreIDCounter)
        BY <2>1, <2>2 DEF SessionOK
    <2> QED
        BY <2>2, <2>3, <2>4, LineMoves
<1> QED
    BY <1>1, <1>2, <1>3 DEF LineFromHTTPClient

\* The conversation goes on, and the connection.
SameShow(x, y) == y.conversationFinished = x.conversationFinished /\ y.shutdown = x.shutdown

(* What a session with the rights of every client has a command do: its core *)
(* is given the command and the conversation goes on, or no core changes.   *)
LEMMA ReadLevelCommand ==
    ASSUME NEW s, NEW x \in SessionContext, x.accessLevel < AccessLevels.admin,
           NEW ce, NEW line, ProcessCommand(s, x, ce, line)
    PROVE  \/ UNCHANGED coreInstances
           \/ /\ FindInstance(x.coreID)
              /\ coreInstances' = [coreInstances EXCEPT ![x.coreID] = FlushCommandQ(QueueCommand(@, ce))]
              /\ \E y : Becomes(s, y) /\ SameShow(x, y)
<1> DEFINE Goal == \/ UNCHANGED coreInstances
                   \/ /\ FindInstance(x.coreID)
                      /\ coreInstances' = [coreInstances EXCEPT ![x.coreID] =
                                               FlushCommandQ(QueueCommand(@, ce))]
                      /\ \E y : Becomes(s, y) /\ SameShow(x, y)
<1>1. ASSUME NEW y, Answered(s, y) PROVE Goal
    BY <1>1 DEF Answered
<1>2. ASSUME NEW y, Status(s, y, ce) PROVE Goal
    BY <1>1, <1>2 DEF Status
<1>3. ASSUME NEW y, y.coreID = x.coreID, SameShow(x, y),
             NEW redir, ForwardToCore(s, y, ce, redir)
      PROVE  Goal
    <2>1. CASE /\ FindInstance(y.coreID) /\ Becomes(s, y)
               /\ coreInstances' = [coreInstances EXCEPT ![y.coreID] = FlushCommandQ(QueueCommand(@, ce))]
        BY <1>3, <2>1
    <2> QED
        BY <1>1, <1>2, <1>3, <2>1 DEF ForwardToCore
<1>4. ASSUME ce.word = "help", CcHelp(s, x, ce, line.arg) PROVE Goal
    <2> DEFINE listed == ForwardStatusline(x, ce, TRUE)
    <2>1. listed.coreID = x.coreID /\ SameShow(x, listed)
        BY DEF ForwardStatusline, SessionContext, SameShow
    <2> HIDE DEF listed
    <2>2. \/ \E y : Answered(s, y)
          \/ Status(s, x, ce) \/ ForwardToCore(s, listed, ce, FALSE) \/ ForwardToCore(s, x, ce, FALSE)
        BY <1>4 DEF CcHelp, listed
    <2>3. SameShow(x, x)
        BY DEF SameShow
    <2> HIDE DEF Goal
    <2> QED
        BY <1>1, <1>2, <1>3, <2>1, <2>2, <2>3
<1>5. ASSUME ExecuteServerCommand(s, x, ce, line.arg) PROVE Goal
    <2>1. ~(x.accessLevel >= AccessLevels.admin)
        BY DEF AccessLevels, SessionContext
    <2>2. ASSUME CcUseGraph(s, x, ce, line.arg) PROVE Goal
        BY <1>2, <2>2 DEF CcUseGraph
    <2>3. ASSUME CcListGraphs(s, x, ce, line.arg) PROVE Goal
        BY <1>1, <1>2, <2>3 DEF CcListGraphs
    <2>4. ASSUME CcAuthorize(s, x, ce, line.arg) PROVE Goal
        BY <1>2, <2>4 DEF CcAuthorize
    <2>5. ASSUME CcQuit(s, x, ce, line.arg) PROVE Goal
        BY <1>1, <2>5 DEF CcQuit
    <2>6. ASSUME CcProtocolVersion(s, x, ce, line.arg) PROVE Goal
        BY <1>2, <2>6 DEF CcProtocolVersion
    <2> HIDE DEF Goal
    <2> QED
        BY <1>2, <1>4, <1>5, <2>1, <2>2, <2>3, <2>4, <2>5, <2>6 DEF ExecuteServerCommand, NeedsAdmin
<1> HIDE DEF Goal
<1>6. Goal
    BY <1>1, <1>2, <1>3, <1>5 DEF ProcessCommand, SameShow
<1> QED
    BY <1>6 DEF Goal

\* A request that only its session has an answer to.
LEMMA RequestNotGiven ==
    ASSUME NEW s \in DOMAIN sessionContexts, NEW y, Answered(s, y), linesRead'[s] = 1,
           y.lineQueue = <<>>, y.curCommand = NoCommand,
           \A id \in DOMAIN coreInstances : ~DueTo(coreInstances[id], s)
    PROVE  HTTPOrderly(s)'
<1>1. sessionContexts'[s] = y /\ UNCHANGED coreInstances
    BY DEF Answered, Becomes
<1> QED
    BY <1>1 DEF HTTPOrderly

\* A request that is executed leaves its session with one reply due, or none.
LEMMA RequestExecuted ==
    ASSUME CorePart, NEW s \in DOMAIN sessionContexts, linesRead'[s] = 1,
           NEW x \in SessionContext, x.lineQueue = <<>>, x.curCommand = NoCommand,
           x.accessLevel < AccessLevels.admin, ~x.conversationFinished, ~x.shutdown,
           NEW ce \in GivenCommand, ce.clientID = s, NEW line \in CommandLine,
           ProcessCommand(s, x, ce, line),
           \A id \in DOMAIN coreInstances : ~DueTo(coreInstances[id], s)
    PROVE  HTTPOrderly(s)'
<1>1. PICK sc2 : Executed(s, x, ce, line, sc2)
    BY CommandExecuted DEF CorePart
<1>2. sessionContexts'[s] = sc2 /\ sc2.lineQueue = <<>> /\ sc2.curCommand = NoCommand
    BY <1>1 DEF Executed, Becomes, SameInput
<1>3. CASE UNCHANGED coreInstances
    BY <1>2, <1>3 DEF HTTPOrderly
<1>4. CASE /\ FindInstance(x.coreID)
           /\ coreInstances' = [coreInstances EXCEPT ![x.coreID] = FlushCommandQ(QueueCommand(@, ce))]
           /\ \E y : Becomes(s, y) /\ SameShow(x, y)
    <2> DEFINE c == coreInstances[x.coreID]
               d == FlushCommandQ(QueueCommand(c, ce))
    <2>1. x.coreID \in DOMAIN coreInstances /\ coreInstances' = [coreInstances EXCEPT ![x.coreID] = d]
          /\ ~sc2.conversationFinished /\ ~sc2.shutdown
        BY <1>2, <1>4 DEF FindInstance, Becomes, SameShow
    <2>2. Given(c, d, s)
        BY <2>1, GivenOperators DEF CorePart
    <2>3. OnceDue(d, s)
        BY <2>1, <2>2 DEF Given, OnceDue, DueTo
    <2> HIDE DEF d
    <2>4. \A id \in DOMAIN coreInstances' : DueTo(coreInstances'[id], s) => id = x.coreID
        BY <2>1
    <2>5. coreInstances'[x.coreID] = d
        BY <2>1
    <2> QED
        BY <1>2, <2>1, <2>3, <2>4, <2>5 DEF HTTPOrderly
<1> QED
    BY <1>3, <1>4, ReadLevelCommand

LEMMA HasDataDue ==
    ASSUME NEW c, WF(c), NEW s
    PROVE  HasDataForClient(c, s) <=> DueTo(c, s)
<1>1. DOMAIN RepliesDue(c) = 1..Len(RepliesDue(c))
    <2>1. RepliesDue(c) \in Seq(GivenCommand)
        BY RepliesDueType DEF WF
    <2> QED
        BY <2>1
<1> QED
    BY <1>1, DueToClient DEF WF, DueTo

LEMMA RequestAnswered ==
    ASSUME SessionPart, CorePart, NEW s \in Http, lines[s] \in Seq(CommandLine), Len(lines[s]) = 1,
           linesRead[s] = 0, linesRead'[s] = 1, HTTPOrderly(s),
           LineFromHTTPClient(s, sessionContexts[s], 1)
    PROVE  HTTPOrderly(s)'
<1> DEFINE sc   == sessionContexts[s]
           line == lines[s][1]
           ce   == NewCommand(s, 1, line.word, line.colon)
<1>0. s \in DOMAIN sessionContexts /\ s \in SessionIDs /\ sc \in SessionContext /\ line \in CommandLine
    BY SessionsStay DEF Http, SessionOK
<1>1. /\ sc.lineQueue = <<>> /\ sc.curCommand = NoCommand
      /\ sc.accessLevel < AccessLevels.admin /\ ~sc.conversationFinished /\ ~sc.shutdown
      /\ \A id \in DOMAIN coreInstances : ~DueTo(coreInstances[id], s)
    BY DEF HTTPOrderly
<1>2. ce.clientID = s /\ (~line.colon => ce \in GivenCommand)
    <2>1. ~line.colon => Flushable(ce)
        BY DEF Flushable, NewCommand
    <2> QED
        BY <1>0, <2>1, CommandOfLine
<1> HIDE DEF sc, line, ce
<1>3. ASSUME NEW x \in SessionContext, x.lineQueue = <<>>, x.curCommand = NoCommand,
             x.accessLevel = sc.accessLevel, SameShow(sc, x),
             LineFromClient(s, x, 1, FALSE), ~line.colon
      PROVE  HTTPOrderly(s)'
    <2>1. ~MustWait(s, x, FALSE)
        <3>1. ~WaitingForCore(s, x)
            BY <1>1, HasDataDue DEF WaitingForCore, FindInstance, CorePart
        <3> QED
            BY <1>3, <3>1 DEF MustWait, IsWaitingForCoreReply
    <2>2. Flushable(ce)
        BY <1>3 DEF ce, NewCommand, Flushable
    <2>3. ProcessCommand(s, x, ce, line)
        BY <1>3, <2>1, <2>2 DEF LineFromClient, ce, line
    <2> QED
        BY <1>0, <1>1, <1>2, <1>3, <2>3, RequestExecuted DEF SameShow
<1>4. ASSUME NEW e, Status(s, sc, e) PROVE HTTPOrderly(s)'
    <2>1. /\ ForwardStatusline(sc, e, FALSE).lineQueue = <<>>
          /\ ForwardStatusline(sc, e, FALSE).curCommand = NoCommand
        BY <1>0, <1>1 DEF ForwardStatusline, SessionContext
    <2> QED
        BY <1>0, <1>1, <1>4, <2>1, RequestNotGiven DEF Status
<1>5. CASE LineFromClient(s, sc, 1, FALSE) /\ ~line.colon
    BY <1>0, <1>1, <1>3, <1>5 DEF SameShow
<1>6. ASSUME NEW id \in FindNamedInstance(line.core), ~line.colon,
             LineFromClient(s, [sc EXCEPT !.coreID = id], 1, FALSE)
      PROVE  HTTPOrderly(s)'
    <2> DEFINE x == [sc EXCEPT !.coreID = id]
    <2>1. id \in Nat
        BY DEF FindNamedInstance, CorePart
    <2>2. /\ x \in SessionContext /\ x.lineQueue = sc.lineQueue /\ x.curCommand = sc.curCommand
          /\ x.accessLevel = sc.accessLevel /\ SameShow(sc, x)
        BY <1>0, <2>1 DEF SessionContext, SameShow
    <2>3. LineFromClient(s, x, 1, FALSE)
        BY <1>6
    <2> HIDE DEF x
    <2> QED
        BY <1>1, <1>3, <1>6, <2>2, <2>3
<1> QED
    BY <1>4, <1>5, <1>6 DEF LineFromHTTPClient, sc, line

(* One line of a client's: the other HTTP sessions stay as they are.        *)
LEMMA LineOrderly ==
    ASSUME CorePart, HTTPInv, NEW s \in DOMAIN sessionContexts, LineMoved(s), UNCHANGED lines,
           \A t : t # s => linesRead'[t] = linesRead[t],
           s \in Http /\ Len(lines[s]) <= 1 => HTTPOrderly(s)'
    PROVE  HTTPInv' /\ SameConnections
<1>1. PICK k : CoresMove(k, s)
    BY DEF LineMoved
<1>2. PICK y : Becomes(s, y) /\ y.connectionType = sessionContexts[s].connectionType
    BY DEF LineMoved
<1>s. SameConnections
    BY <1>2 DEF Becomes, SameConnections
<1> SUFFICES ASSUME NEW t \in Http', Len(lines'[t]) <= 1
             PROVE  HTTPOrderly(t)'
    BY <1>s DEF HTTPInv
<1>3. t \in Http /\ Len(lines[t]) <= 1 /\ HTTPOrderly(t)
    BY <1>2 DEF Http, Tcp, Becomes, HTTPInv
<1>4. CASE t # s
    <2>1. sessionContexts'[t] = sessionContexts[t]
        BY <1>2, <1>3, <1>4 DEF Becomes, Http
    <2> QED
        BY <1>1, <1>3, <1>4, <2>1, SameTalk, OrderlyStays
<1> QED
    BY <1>3, <1>4

LEMMA ReadClientLineHTTP ==
    ASSUME Parts, HTTPInv, ReadClientLine
    PROVE  HTTPInv' /\ SameConnections
<1>0. SessionPart /\ CorePart /\ LoopPart
    BY DEF Parts
<1>1. PICK s \in First(readyClients) :
          /\ Unread(s)
          /\ IF sessionContexts[s].connectionType = "HTTP"
             THEN LineFromHTTPClient(s, sessionContexts[s], linesRead[s] + 1)
             ELSE LineFromClient(s, sessionContexts[s], linesRead[s] + 1, FALSE)
          /\ linesRead' = [linesRead EXCEPT ![s] = linesRead[s] + 1]
          /\ UNCHANGED lines
    BY DEF ReadClientLine
<1> DEFINE sc == sessionContexts[s]
           n  == linesRead[s] + 1
<1>2. /\ s \in DOMAIN sessionContexts /\ s \in SessionIDs
      /\ linesRead[s] \in Nat /\ SessionOK(s, sc, linesRead[s], coreIDCounter)
      /\ lines[s] \in Seq(CommandLine) /\ coreIDCounter \in Nat /\ linesRead \in [SessionIDs -> Nat]
    BY <1>0, <1>1 DEF First, LoopPart, SessionPart, CorePart
<1>3. n \in Nat /\ n \in 1..n /\ linesRead[s] <= n /\ n <= Len(lines[s])
    BY <1>1, <1>2 DEF Unread
<1>4. SessionOK(s, sc, n, coreIDCounter)
    BY <1>2, <1>3, SessionOKMonotone
<1>5. LineMoved(s)
    <2>1. CASE sc.connectionType = "HTTP"
        <3>1. LineFromHTTPClient(s, sc, n)
            BY <1>1, <2>1
        <3> HIDE DEF n
        <3> QED
            BY <1>0, <1>2, <1>3, <1>4, <3>1, RequestMoves
    <2>2. CASE sc.connectionType # "HTTP"
        <3>1. LineFromClient(s, sc, n, FALSE)
            BY <1>1, <2>2
        <3> HIDE DEF n
        <3> QED
            BY <1>0, <1>2, <1>3, <1>4, <3>1, LineMoves
    <2> QED
        BY <2>1, <2>2
<1>6. ASSUME s \in Http, Len(lines[s]) <= 1 PROVE HTTPOrderly(s)'
    <2>1. sc.connectionType = "HTTP"
        BY <1>2, <1>6 DEF Http, Tcp, SessionOK, SessionContext
    <2>2. linesRead[s] = 0 /\ n = 1 /\ Len(lines[s]) = 1
        <3>1. Len(lines[s]) \in Nat /\ linesRead[s] + 1 <= Len(lines[s])
            BY <1>2, <1>3
        <3>2. \A k, l \in Nat : k + 1 <= l /\ l <= 1 => k = 0 /\ k + 1 = 1 /\ l = 1
            OBVIOUS
        <3>3. linesRead[s] \in Nat /\ Len(lines[s]) <= 1
            BY <1>2, <1>6
        <3> QED
            BY <3>1, <3>2, <3>3
    <2>3. LineFromHTTPClient(s, sc, 1) /\ linesRead'[s] = 1
        BY <1>1, <1>2, <2>1, <2>2
    <2> QED
        BY <1>0, <1>2, <1>6, <2>2, <2>3, RequestAnswered DEF HTTPInv
<1>7. \A t : t # s => linesRead'[t] = linesRead[t]
    BY <1>1, <1>2
<1> QED
    BY <1>0, <1>1, <1>2, <1>5, <1>6, <1>7, LineOrderly

LEMMA DrainLineHTTP ==
    ASSUME Parts, HTTPInv, DrainLine
    PROVE  HTTPInv' /\ SameConnections
<1>0. SessionPart /\ CorePart /\ LoopPart
    BY DEF Parts
<1>s. PICK s : s = drained
    OBVIOUS
<1>m. PICK m : m = linesRead[s]
    OBVIOUS
<1> DEFINE sc == sessionContexts[s]
           x  == [sc EXCEPT !.lineQueue = Tail(@)]
           n  == Head(sc.lineQueue)
<1>1. /\ s = drained /\ s # NoClient /\ CanDrain(s) /\ LineFromClient(s, x, n, TRUE)
      /\ UNCHANGED <<lines, linesRead>>
    BY <1>s DEF DrainLine, clientVars
<1>2. /\ s \in DOMAIN sessionContexts /\ s \in SessionIDs /\ m \in Nat /\ m <= Len(lines[s])
      /\ SessionOK(s, sc, m, coreIDCounter)
    BY <1>m, <1>0, <1>1 DEF LoopPart, SessionPart
<1>3. sc.lineQueue \in Seq(1..m) /\ sc.lineQueue # <<>>
    BY <1>1, <1>2 DEF SessionOK, CanDrain
<1>4. n \in 1..m /\ Tail(sc.lineQueue) \in Seq(1..m) /\ Tail(sc.lineQueue) \in Seq(Nat)
    BY <1>2, <1>3 DEF SessionOK, SessionContext
<1>5. SessionOK(s, x, m, coreIDCounter) /\ x.connectionType = sc.connectionType
    BY <1>2, <1>4 DEF SessionOK, SessionContext
<1> HIDE DEF x, n
<1>6. LineMoved(s)
    BY <1>0, <1>1, <1>2, <1>4, <1>5, LineMoves
<1>7. ~(s \in Http /\ Len(lines[s]) <= 1)
    BY <1>3 DEF HTTPInv, HTTPOrderly
<1> QED
    BY <1>0, <1>1, <1>2, <1>6, <1>7, LineOrderly

\* What a line of core c does to the session it is for.
ToldBy(sc, c) ==
    LET line == Head(c.fromCore)
    IN CASE ForwardAs(c) = "status" -> ForwardStatusline(sc, line.cmd, line.colon)
         [] ForwardAs(c) = "data"   -> ForwardDataset(sc, line.blank)
         [] OTHER                   -> sc

\* Only the line that ends a reply ends a conversation.
LEMMA ToldOn ==
    ASSUME NEW c, WF(c), c.fromCore # <<>>, NEW sc \in SessionContext
    PROVE  /\ SameInput(sc, ToldBy(sc, c))
           /\ ToldBy(sc, c).accessLevel = sc.accessLevel /\ ToldBy(sc, c).shutdown = sc.shutdown
           /\ Busy(LineFromCore(c)) => ToldBy(sc, c).conversationFinished = sc.conversationFinished
<1> DEFINE line == Head(c.fromCore)
           d    == LineFromCore(c)
<1>0. /\ line.cmd \in GivenCommand /\ line.colon \in BOOLEAN /\ line.blank \in BOOLEAN
      /\ c \in CoreRecords(STRING, SessionIDs, GivenCommand) /\ OneReply(c)
    BY ReadQuieter DEF WF, WellFormed
<1>1. /\ ~d.expectingReply
      /\ d.expectingDataset <=> IF c.expectingReply THEN c.expectingDataset \/ line.colon
                                ELSE c.expectingDataset /\ ~line.blank
    BY <1>0 DEF LineFromCore, CoreRecords
<1>2. Busy(d) <=> d.expectingDataset
    BY <1>1 DEF Busy
<1>3. CASE c.expectingReply
    <2>1. ToldBy(sc, c) = ForwardStatusline(sc, line.cmd, line.colon)
        BY <1>3 DEF ToldBy, ForwardAs
    <2>2. Busy(d) => line.colon
        BY <1>0, <1>1, <1>2, <1>3 DEF OneReply
    <2> HIDE DEF d, line
    <2>3. SameInput(sc, ForwardStatusline(sc, line.cmd, line.colon))
        BY <1>0, Forwarding
    <2>4. /\ ForwardStatusline(sc, line.cmd, line.colon).accessLevel = sc.accessLevel
          /\ ForwardStatusline(sc, line.cmd, line.colon).shutdown = sc.shutdown
          /\ line.colon => ForwardStatusline(sc, line.cmd, line.colon).conversationFinished
                               = sc.conversationFinished
        BY <1>0 DEF ForwardStatusline, SessionContext
    <2> QED
        BY <2>1, <2>2, <2>3, <2>4 DEF d
<1>4. CASE ~c.expectingReply /\ c.expectingDataset
    <2>1. ToldBy(sc, c) = ForwardDataset(sc, line.blank)
        BY <1>4 DEF ToldBy, ForwardAs
    <2>2. Busy(d) => ~line.blank
        BY <1>1, <1>2, <1>4
    <2> HIDE DEF d, line
    <2>3. SameInput(sc, ForwardDataset(sc, line.blank))
        BY <1>0 DEF SameInput, ForwardDataset, SessionContext
    <2>4. /\ ForwardDataset(sc, line.blank).accessLevel = sc.accessLevel
          /\ ForwardDataset(sc, line.blank).shutdown = sc.shutdown
          /\ ~line.blank => ForwardDataset(sc, line.blank).conversationFinished = sc.conversationFinished
        BY <1>0 DEF ForwardDataset, SessionContext
    <2> QED
        BY <2>1, <2>2, <2>3, <2>4 DEF d
<1>5. CASE ~c.expectingReply /\ ~c.expectingDataset
    BY <1>5 DEF ToldBy, ForwardAs, SameInput
<1> QED
    BY <1>3, <1>4, <1>5

LEMMA ReadCoreLineHTTP ==
    ASSUME Parts, HTTPInv, ReadCoreLine
    PROVE  HTTPInv' /\ SameConnections
<1>0. SessionPart /\ CorePart /\ LoopPart
    BY DEF Parts
<1>1. PICK id \in First(readyCores) :
          /\ coreInstances[id].fromCore # <<>>
          /\ coreInstances' = [coreInstances EXCEPT ![id] = LineFromCore(coreInstances[id])]
          /\ LET c == coreInstances[id]
                 s == c.lastClientID
             IN IF FindClient(s)
                THEN sessionContexts' = [sessionContexts EXCEPT ![s] = ToldBy(@, c)]
                ELSE UNCHANGED sessionContexts
    <2>1. \E id \in First(readyCores) :
              /\ coreInstances[id].fromCore # <<>>
              /\ coreInstances' = [coreInstances EXCEPT ![id] = LineFromCore(coreInstances[id])]
              /\ LET c == coreInstances[id]
                     s == c.lastClientID
                 IN IF FindClient(s)
                    THEN sessionContexts' = [sessionContexts EXCEPT ![s] = ToldBy(@, c)]
                    ELSE UNCHANGED sessionContexts
        BY DEF ReadCoreLine, ToldBy
    <2> QED
        BY <2>1
<1>c. PICK c : c = coreInstances[id]
    OBVIOUS
<1>d. PICK d : d = LineFromCore(c)
    OBVIOUS
<1>2. UNCHANGED <<lines, linesRead, coreIDCounter>>
    BY DEF ReadCoreLine, clientVars
<1>3. id \in DOMAIN coreInstances /\ WF(c) /\ c.fromCore # <<>>
    BY <1>c, <1>0, <1>1 DEF First, LoopPart, CorePart
<1>4. coreInstances' = [coreInstances EXCEPT ![id] = d] /\ Quieter(c, d)
    BY <1>c, <1>d, <1>1, <1>3, ReadQuieter
<1>5. CoresMove(0, 0) /\ 0 \notin DOMAIN coreInstances
    <2>1. UNCHANGED coreIDCounter /\ Quieter(coreInstances[id], d)
        BY <1>c, <1>2, <1>4
    <2>2. CoresMove(0, 0)
        BY <1>0, <1>3, <1>4, <2>1, CoreMoves
    <2> QED
        BY <1>0, <2>2 DEF CorePart
<1> DEFINE r == RepliesDue(c)
<1>6. /\ r \in Seq(GivenCommand) /\ r # <<>> /\ r[1].clientID = c.lastClientID
      /\ ~Busy(d) => RepliesDue(d) = Tail(r)
    <2>1. r \in Seq(GivenCommand) /\ r # <<>> /\ Head(r) = Head(c.fromCore).cmd
          /\ (~Busy(d) => RepliesDue(d) = Tail(r))
        BY <1>d, <1>3, ReadDue, RepliesDueType DEF WF
    <2>2. Head(r) = r[1] /\ Head(c.fromCore).cmd.clientID = c.lastClientID
        BY <1>3, <2>1, ReadQuieter
    <2> QED
        BY <2>1, <2>2
<1>7. 1 \in DOMAIN r /\ \A i \in DOMAIN Tail(r) : i + 1 \in DOMAIN r /\ Tail(r)[i] = r[i + 1] /\ i + 1 # 1
    BY <1>6
<1> HIDE DEF r
<1>8. \A t : OnceDue(c, t) /\ t = c.lastClientID /\ ~Busy(d) => ~DueTo(d, t)
    BY <1>6, <1>7 DEF OnceDue, DueTo, r
<1>9. DueTo(c, c.lastClientID)
    BY <1>6, <1>7 DEF DueTo, r
<1>s. SameConnections
    <2>1. \A t \in DOMAIN sessionContexts :
              sessionContexts[t] \in SessionContext /\ SameInput(sessionContexts[t], ToldBy(sessionContexts[t], c))
        BY <1>0, <1>3, ToldOn, SessionsStay DEF SessionOK
    <2> QED
        BY <1>c, <1>1, <2>1 DEF SameConnections, SameInput
<1> SUFFICES ASSUME NEW t \in Http', Len(lines'[t]) <= 1
             PROVE  HTTPOrderly(t)'
    BY <1>s DEF HTTPInv
<1>10. DOMAIN sessionContexts' = DOMAIN sessionContexts /\ t \in DOMAIN sessionContexts
       /\ sessionContexts[t] \in SessionContext
    BY <1>0, <1>1, SessionsStay DEF Http, SessionOK
<1>11. CASE sessionContexts'[t] = sessionContexts[t]
    <2>1. HTTPOrderly(t)
        BY <1>2, <1>10, <1>11 DEF HTTPInv, Http, Tcp
    <2> QED
        BY <1>2, <1>5, <1>11, <2>1, SameTalk, OrderlyStays
<1>12. CASE t = c.lastClientID /\ sessionContexts'[t] = ToldBy(sessionContexts[t], c)
    <2> DEFINE sc == sessionContexts[t]
    <2>1. /\ SameInput(sc, ToldBy(sc, c))
          /\ ToldBy(sc, c).accessLevel = sc.accessLevel /\ ToldBy(sc, c).shutdown = sc.shutdown
          /\ Busy(d) => ToldBy(sc, c).conversationFinished = sc.conversationFinished
        BY <1>d, <1>3, <1>10, ToldOn
    <2>2. HTTPOrderly(t)
        BY <1>2, <1>10, <1>12, <2>1 DEF HTTPInv, Http, Tcp, SameInput
    <2>3. /\ linesRead[t] = 1 /\ OnceDue(c, t)
          /\ \A x \in DOMAIN coreInstances : DueTo(coreInstances[x], t) => x = id
          /\ sc.lineQueue = <<>> /\ sc.curCommand = NoCommand /\ ~sc.conversationFinished
        BY <1>c, <1>3, <1>9, <1>12, <2>2 DEF HTTPOrderly
    <2>4. CASE Busy(d)
        <3>1. SameConversation(sc, sessionContexts'[t])
            BY <1>12, <2>1, <2>4 DEF SameConversation
        <3> QED
            BY <1>2, <1>5, <2>2, <3>1, OrderlyStays
    <2>5. CASE ~Busy(d)
        <3>1. ~DueTo(d, t)
            BY <1>8, <1>12, <2>3, <2>5
        <3>2. \A x \in DOMAIN coreInstances' : ~DueTo(coreInstances'[x], t)
            BY <1>4, <2>3, <3>1
        <3>3. sessionContexts'[t].lineQueue = <<>> /\ sessionContexts'[t].curCommand = NoCommand
              /\ linesRead'[t] = 1
            BY <1>2, <1>12, <2>1, <2>3 DEF SameInput
        <3> QED
            BY <3>2, <3>3 DEF HTTPOrderly
    <2> QED
        BY <2>4, <2>5
<1> QED
    BY <1>c, <1>1, <1>10, <1>11, <1>12

(* The steps that read no line.                                             *)
LEMMA QuietHTTP ==
    ASSUME Parts, HTTPInv, ReadsNoLine \/ DrainDone
    PROVE  HTTPInv' /\ SameConnections
<1> DEFINE Talks == \A s \in DOMAIN sessionContexts' :
                        /\ s \in DOMAIN sessionContexts
                        /\ SameConversation(sessionContexts[s], sessionContexts'[s])
           Goal == CoresMove(0, 0) /\ UNCHANGED <<lines, linesRead>> /\ Talks
<1>0. /\ SessionPart /\ CorePart
      /\ \A t \in DOMAIN sessionContexts : sessionContexts[t] \in SessionContext
      /\ \A id \in DOMAIN coreInstances : WF(coreInstances[id])
    BY SessionsStay DEF Parts, SessionOK, CorePart
<1>1. ASSUME LoopTop PROVE Goal
    <2>1. /\ sessionContexts' = [s \in DOMAIN sessionContexts \ clientsToRemove |-> sessionContexts[s]]
          /\ coreInstances' = [id \in DOMAIN coreInstances |-> FlushCommandQ(coreInstances[id])]
          /\ UNCHANGED <<lines, linesRead, coreIDCounter>>
        BY <1>1 DEF LoopTop, FlushAll, Restrict, clientVars
    <2>2. \A id \in DOMAIN coreInstances' :
              id \in DOMAIN coreInstances /\ Quieter(coreInstances[id], coreInstances'[id])
        BY <1>0, <2>1, QuietOperators
    <2> QED
        BY <1>0, <2>1, <2>2, CoresQuieter, SameTalk
<1>2. ASSUME EndIteration PROVE Goal
    <2>1. PICK done : /\ sessionContexts' = [s \in DOMAIN sessionContexts |->
                                               [sessionContexts[s] EXCEPT !.shutdown = @ \/ s \in done]]
                      /\ \A s \in done : sessionContexts[s].conversationFinished
        <3> DEFINE swept == IF UseLibevent THEN {}
                            ELSE Finished(Restrict(coreInstances, DOMAIN coreInstances \ coresToRemove))
        <3>1. sessionContexts' = [s \in DOMAIN sessionContexts |->
                                     [sessionContexts[s] EXCEPT !.shutdown = @ \/ s \in swept]]
            BY <1>2 DEF EndIteration
        <3>2. \A cores : \A s \in Finished(cores) : sessionContexts[s].conversationFinished
            BY DEF Finished
        <3>3. \A s \in swept : sessionContexts[s].conversationFinished
            BY <3>2
        <3> HIDE DEF swept
        <3> QED
            BY <3>1, <3>3
    <2>2. /\ coreInstances' = [id \in DOMAIN coreInstances \ coresToRemove |-> coreInstances[id]]
          /\ UNCHANGED <<lines, linesRead, coreIDCounter>>
        BY <1>2 DEF EndIteration, Restrict, clientVars
    <2>3. \A id \in DOMAIN coreInstances' :
              id \in DOMAIN coreInstances /\ Quieter(coreInstances[id], coreInstances'[id])
        BY <1>0, <2>2, QuietOperators
    <2>4. Talks
        BY <1>0, <2>1 DEF SessionContext, SameConversation, SameInput
    <2> QED
        BY <1>0, <2>2, <2>3, <2>4, CoresQuieter
<1>3. ASSUME NEW s \in SessionIDs, FlushSession(s) PROVE Goal
    <2>1. /\ s \in DOMAIN sessionContexts
          /\ sessionContexts' = [sessionContexts EXCEPT ![s] = [@ EXCEPT !.writeBufferEmpty = TRUE]]
          /\ UNCHANGED <<coreInstances, coreIDCounter, lines, linesRead>>
        BY <1>3 DEF FlushSession, clientVars, loopVars
    <2>2. Talks
        BY <1>0, <2>1, SameTalk DEF SessionContext, SameConversation, SameInput
    <2> QED
        BY <1>0, <2>1, <2>2, CoresStay
<1>4. ASSUME \/ Dispatch \/ ReadClientEOF \/ DrainDone \/ ReadCoreEOF \/ UNCHANGED vars
             \/ \E s \in SessionIDs : WriteFailed(s) \/ ClientCloses(s)
      PROVE  Goal
    <2>1. Untouched
        BY <1>4, UntouchedSteps
    <2>2. UNCHANGED coreIDCounter
        BY <1>4 DEF Dispatch, ReadClientEOF, DrainDone, ReadCoreEOF, WriteFailed, ClientCloses,
                    vars, serverVars
    <2> QED
        BY <1>0, <2>1, <2>2, CoresStay, SameTalk DEF Untouched
<1>5. ASSUME NEW id \in DOMAIN coreInstances,
             CoreAnswers(id) \/ CoreContinues(id, TRUE) \/ CoreContinues(id, FALSE) \/ CoreExits(id)
      PROVE  Goal
    <2>1. PICK d : Quieter(coreInstances[id], d) /\ CoreStep(id, d)
        BY <1>0, <1>5, QuietOperators DEF CoreAnswers, CoreContinues, CoreExits
    <2>2. /\ coreInstances' = [coreInstances EXCEPT ![id] = d]
          /\ UNCHANGED <<sessionContexts, coreIDCounter, lines, linesRead>>
        BY <2>1 DEF CoreStep, clientVars
    <2> QED
        BY <1>0, <2>1, <2>2, CoreMoves, SameTalk
<1>6. Goal
    BY <1>1, <1>2, <1>3, <1>4, <1>5 DEF ReadsNoLine
<1> QED
    BY <1>0, <1>6, HTTPQuiet

LEMMA ConnectHTTP ==
    ASSUME Parts, HTTPInv, NEW connectionType \in ConnectionTypes, Connect(connectionType)
    PROVE  HTTPInv' /\ SameConnections
<1>0. SessionPart /\ CorePart
    BY DEF Parts
<1>p. PICK s : s = sessionIDCounter + 1
    OBVIOUS
<1>n. PICK new : new = NewSession(connectionType)
    OBVIOUS
<1>1. /\ sessionContexts' = [x \in DOMAIN sessionContexts \union {s} |->
                                IF x = s THEN new ELSE sessionContexts[x]]
      /\ UNCHANGED <<coreInstances, coreIDCounter, lines, linesRead>>
    BY <1>p, <1>n DEF Connect, clientVars
<1>2. /\ new.lineQueue = <<>> /\ new.curCommand = NoCommand /\ new.accessLevel < AccessLevels.admin
      /\ ~new.conversationFinished /\ ~new.shutdown
    BY <1>n DEF NewSession, AccessLevels
<1>3. s \notin DOMAIN sessionContexts /\ \A id \in DOMAIN coreInstances : ~DueTo(coreInstances[id], s)
    BY <1>0, <1>p DEF SessionPart, CorePart
<1>4. SameConnections
    BY <1>1, <1>3 DEF SameConnections
<1>5. CoresMove(0, 0) /\ 0 \notin DOMAIN coreInstances
    BY <1>0, <1>1, CoresStay DEF CorePart
<1>6. ASSUME NEW t \in Http', Len(lines'[t]) <= 1 PROVE HTTPOrderly(t)'
    <2>1. CASE t = s
        BY <1>1, <1>2, <1>3, <2>1 DEF HTTPOrderly
    <2>2. CASE t # s
        <3>1. t \in DOMAIN sessionContexts /\ sessionContexts'[t] = sessionContexts[t]
            BY <1>1, <1>6, <2>2 DEF Http
        <3>2. HTTPOrderly(t)
            BY <1>1, <1>6, <3>1 DEF HTTPInv, Http, Tcp
        <3> QED
            BY <1>1, <1>5, <3>1, <3>2, SameTalk, OrderlyStays
    <2> QED
        BY <2>1, <2>2
<1> QED
    BY <1>4, <1>6 DEF HTTPInv

LEMMA ClientSendsHTTP ==
    ASSUME Parts, HTTPInv, NEW s \in SessionIDs, ClientSends(s)
    PROVE  HTTPInv' /\ SameConnections
<1>0. SessionPart /\ CorePart
    BY DEF Parts
<1>1. PICK line : lines' = [lines EXCEPT ![s] = Append(@, line)]
    BY DEF ClientSends
<1>2. UNCHANGED <<sessionContexts, coreInstances, coreIDCounter, linesRead>>
    BY DEF ClientSends, serverVars
<1>3. lines \in [SessionIDs -> Seq(CommandLine)]
    BY <1>0, SessionsStay
<1>4. \A q \in Seq(CommandLine) : Len(Append(q, line)) <= 1 => Len(q) <= 1
    OBVIOUS
<1>5. \A t \in DOMAIN sessionContexts : Len(lines'[t]) <= 1 => Len(lines[t]) <= 1
    BY <1>1, <1>3, <1>4
<1> QED
    BY <1>0, <1>2, <1>5, CoresStay, SameTalk, HTTPQuiet

LEMMA StepHTTP == Inv /\ HTTPInv /\ [Next]_vars => HTTPInv' /\ SameConnections
<1> SUFFICES ASSUME Inv, HTTPInv, [Next]_vars PROVE HTTPInv' /\ SameConnections
    OBVIOUS
<1>0. Parts
    BY InvParts
<1>1. CASE ServerStep
    BY <1>0, <1>1, QuietHTTP, ReadClientLineHTTP, DrainLineHTTP, ReadCoreLineHTTP
    DEF ServerStep, ReadsNoLine
<1>2. ASSUME NEW s \in SessionIDs,
             FlushSession(s) \/ WriteFailed(s) \/ ClientSends(s) \/ ClientCloses(s)
      PROVE  HTTPInv' /\ SameConnections
    BY <1>0, <1>2, QuietHTTP, ClientSendsHTTP DEF ReadsNoLine
<1>3. ASSUME NEW connectionType \in ConnectionTypes, Connect(connectionType)
      PROVE  HTTPInv' /\ SameConnections
    BY <1>0, <1>3, ConnectHTTP
<1>4. ASSUME NEW id \in CoreIDs,
             CoreAnswers(id) \/ CoreContinues(id, TRUE) \/ CoreContinues(id, FALSE) \/ CoreExits(id)
      PROVE  HTTPInv' /\ SameConnections
    BY <1>0, <1>4, QuietHTTP DEF ReadsNoLine, CoreIDs
<1>5. CASE UNCHANGED vars
    BY <1>0, <1>5, QuietHTTP DEF ReadsNoLine
<1> QED
    BY <1>1, <1>2, <1>3, <1>4, <1>5 DEF Next

LEMMA InitHTTP == Init => HTTPInv
<1>1. DOMAIN <<>> = {}
    OBVIOUS
<1> QED
    BY <1>1 DEF Init, HTTPInv, Http

\* What the invariant says of connections that are shut down.
ShutDownAnswered ==
    \A s \in Http : Len(lines[s]) <= 1 /\ sessionContexts[s].shutdown =>
        /\ sessionContexts[s].lineQueue = <<>>
        /\ \A id \in DOMAIN coreInstances : ~HasDataForClient(coreInstances[id], s)

LEMMA OrderlyAnswered == Inv /\ HTTPInv => ShutDownAnswered
<1> SUFFICES ASSUME Inv, HTTPInv, NEW s \in Http, Len(lines[s]) <= 1, sessionContexts[s].shutdown
             PROVE  /\ sessionContexts[s].lineQueue = <<>>
                    /\ \A id \in DOMAIN coreInstances : ~HasDataForClient(coreInstances[id], s)
    BY DEF ShutDownAnswered
<1>1. HTTPOrderly(s) /\ \A id \in DOMAIN coreInstances : WF(coreInstances[id])
    BY InvParts DEF HTTPInv, Parts, CorePart
<1> QED
    BY <1>1, HasDataDue DEF HTTPOrderly

(* Whatever other connections do, TCP or HTTP, and whichever cores die: an   *)
(* HTTP connection that has sent one request at most has it answered by one  *)
(* core, or by the server, before its conversation is finished or it is shut *)
(* down (forwardStatusline and forwardDataset set conversationFinished, the  *)
(* sweep of the main loop and quit shut down).                              *)
THEOREM HTTPInvariance == Spec => []HTTPInv
<1>1. Inv /\ HTTPInv /\ [Next]_vars => HTTPInv'
    BY StepHTTP
<1> QED
    BY <1>1, InitHTTP, Invariance, PTL DEF Spec

(* "One command can be executed per request. The server will close the      *)
(* connection after responding to the request" (doc/usage.rst): of clients   *)
(* that send one request per connection, none is shut down by the sweep, or  *)
(* by what it executes, with the reply outstanding or half sent.            *)
THEOREM OneRequestAnswered == Spec /\ []OneRequest => HTTPResponseComplete
<1> DEFINE Complete == \A s \in Http \intersect DOMAIN sessionContexts' :
               ~sessionContexts[s].shutdown /\ sessionContexts'[s].shutdown =>
                   /\ sessionContexts'[s].lineQueue = <<>>
                   /\ \A id \in DOMAIN coreInstances' : ~HasDataForClient(coreInstances'[id], s)
<1>1. ASSUME SameConnections, OneRequest', ShutDownAnswered' PROVE Complete
    BY <1>1 DEF SameConnections, Http, Tcp, OneRequest, ShutDownAnswered
<1>2. Inv /\ HTTPInv /\ [Next]_vars => SameConnections
    BY StepHTTP
<1>3. SameConnections /\ OneRequest' /\ ShutDownAnswered' => [Complete]_vars
    BY <1>1
<1> QED
    BY <1>2, <1>3, OrderlyAnswered, HTTPInvariance, Invariance, PTL DEF Spec, HTTPResponseComplete

=============================================================================
