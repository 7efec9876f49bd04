----------------------- MODULE GraphservOrder_proofs -----------------------
(***************************************************************************)
(* The order of a session's replies, for any number of sessions, cores and  *)
(* lines, both main loops, and cores that may fail or not, as long as no    *)
(* client sends drop-graph or shutdown.                                     *)
(***************************************************************************)
EXTENDS Graphserv_proofs

-----------------------------------------------------------------------------
(* What core d, which core c becomes, owes that c did not: given, at most.  *)
OrderMove(c, d, given) ==
    /\ d.processRunning = c.processRunning
    /\ Range(RepliesDue(d)) \subseteq Range(RepliesDue(c)) \union given
    /\ Coming(d) \subseteq Coming(c) \union given

LEMMA SameOrder ==
    ASSUME NEW c, NEW d, d.processRunning = c.processRunning,
           RepliesDue(d) = RepliesDue(c), d.expectingDataset = c.expectingDataset
    PROVE  OrderMove(c, d, {})
BY DEF OrderMove, Coming

(* Flushing a queue, an exit and the core's own steps add nothing.          *)
LEMMA QuietOrder ==
    ASSUME NEW c, WF(c)
    PROVE  /\ OrderMove(c, c, {}) /\ OrderMove(c, FlushCommandQ(c), {}) /\ OrderMove(c, Exit(c), {})
           /\ \A b \in BOOLEAN : CanAnswer(c) => OrderMove(c, Answer(c, b), {})
           /\ \A b \in BOOLEAN : CanContinue(c) => OrderMove(c, Continue(c, b), {})
<1>0. c \in CoreRecords(STRING, SessionIDs, GivenCommand)
    BY DEF WF, WellFormed
<1>1. OrderMove(c, c, {})
    BY SameOrder
<1>2. OrderMove(c, FlushCommandQ(c), {})
    <2>1. RepliesDue(FlushCommandQ(c)) = RepliesDue(c)
        BY FlushDue DEF WF
    <2>2. /\ FlushCommandQ(c).processRunning = c.processRunning
          /\ FlushCommandQ(c).expectingDataset = c.expectingDataset
        BY <1>0 DEF FlushCommandQ, WriteFirst, CoreRecords, Busy
    <2> QED
        BY <2>1, <2>2, SameOrder
<1>3. OrderMove(c, Exit(c), {})
    <2>1. RepliesDue(Exit(c)) = RepliesDue(c)
        BY QuietDue DEF WF
    <2>2. Exit(c).processRunning = c.processRunning /\ Exit(c).expectingDataset = c.expectingDataset
        BY <1>0 DEF Exit, CoreRecords
    <2> QED
        BY <2>1, <2>2, SameOrder
<1>4. ASSUME NEW b \in BOOLEAN, CanAnswer(c) PROVE OrderMove(c, Answer(c, b), {})
    <2>1. RepliesDue(Answer(c, b)) = RepliesDue(c)
        BY <1>4, QuietDue DEF WF
    <2>2. /\ Answer(c, b).processRunning = c.processRunning
          /\ Answer(c, b).expectingDataset = c.expectingDataset
        BY <1>0 DEF Answer, FinishCommand, CoreRecords
    <2> QED
        BY <2>1, <2>2, SameOrder
<1>5. ASSUME NEW b \in BOOLEAN, CanContinue(c) PROVE OrderMove(c, Continue(c, b), {})
    <2>1. RepliesDue(Continue(c, b)) = RepliesDue(c)
        BY <1>5, QuietDue DEF WF
    <2>2. /\ Continue(c, b).processRunning = c.processRunning
          /\ Continue(c, b).expectingDataset = c.expectingDataset
        BY <1>0 DEF Continue, FinishCommand, CoreRecords
    <2> QED
        BY <2>1, <2>2, SameOrder
<1> QED
    BY <1>1, <1>2, <1>3, <1>4, <1>5

(* A line that is read belongs to the first reply due, and after it the      *)
(* status line of that reply is not to come (any more).                     *)
LEMMA ReadOrder ==
    ASSUME NEW c, WF(c), c.fromCore # <<>>
    PROVE  LET d    == LineFromCore(c)
               ce   == Head(c.fromCore).cmd
           IN /\ OrderMove(c, d, {}) /\ ce \in Range(RepliesDue(c))
              /\ c.expectingReply => ce \in Coming(c)
              /\ \A s : OnceDue(c, s) /\ ce.clientID = s => \A e \in Coming(d) : e.clientID # s
<1> DEFINE d  == LineFromCore(c)
           ce == Head(c.fromCore).cmd
           r  == RepliesDue(c)
           u  == RepliesDue(d)
<1>0. c \in CoreRecords(STRING, SessionIDs, GivenCommand) /\ OneReply(c)
    BY DEF WF, WellFormed
<1>1. r \in Seq(GivenCommand) /\ r # <<>> /\ Head(r) = ce /\ u = IF Busy(d) THEN r ELSE Tail(r)
    BY ReadDue, RepliesDueType DEF WF
<1>2. 1 \in DOMAIN r /\ r[1] = ce
    BY <1>1
<1>3. d.processRunning = c.processRunning /\ d.expectingReply = FALSE /\ d.expectingDataset \in BOOLEAN
    <2>1. Head(c.fromCore) \in OutputLines(GivenCommand)
        BY <1>0 DEF CoreRecords
    <2> QED
        BY <1>0, <2>1 DEF LineFromCore, CoreRecords, OutputLines
<1>4. Busy(d) <=> d.expectingDataset
    BY <1>3 DEF Busy
<1>5. c.expectingReply => ~c.expectingDataset
    BY <1>0 DEF OneReply
<1>6. DOMAIN r = 1..Len(r) /\ Len(r) \in Nat
    BY <1>1
<1>7. \A i \in DOMAIN Tail(r) : i + 1 \in DOMAIN r /\ i + 1 # 1 /\ Tail(r)[i] = r[i + 1]
    BY <1>1
<1> HIDE DEF d, ce, r, u
<1>8. ASSUME NEW e \in Coming(d) PROVE \E j \in DOMAIN r : j # 1 /\ e = r[j]
    <2>1. PICK i \in DOMAIN u : e = u[i] /\ (i = 1 => ~d.expectingDataset)
        BY DEF Coming, u
    <2>2. CASE Busy(d)
        BY <1>1, <1>4, <2>1, <2>2
    <2>3. CASE ~Busy(d)
        <3>1. u = Tail(r)
            BY <1>1, <2>3
        <3> QED
            BY <1>7, <2>1, <3>1
    <2> QED
        BY <2>2, <2>3
<1>9. Range(u) \subseteq Range(r)
    <2>1. CASE Busy(d)
        BY <1>1, <2>1
    <2>2. CASE ~Busy(d)
        <3>1. u = Tail(r)
            BY <1>1, <2>2
        <3> QED
            BY <1>7, <3>1 DEF Range
    <2> QED
        BY <2>1, <2>2
<1>10. Coming(d) \subseteq Coming(c)
    BY <1>8 DEF Coming, r
<1>11. OrderMove(c, d, {})
    BY <1>3, <1>9, <1>10 DEF OrderMove, r, u
<1>12. ce \in Range(r)
    BY <1>2 DEF Range
<1>13. c.expectingReply => ce \in Coming(c)
    BY <1>2, <1>5 DEF Coming, r
<1>14. ASSUME NEW s, OnceDue(c, s), ce.clientID = s, NEW e \in Coming(d) PROVE e.clientID # s
    <2>1. PICK j \in DOMAIN r : j # 1 /\ e = r[j]
        BY <1>8
    <2> QED
        BY <1>2, <1>14, <2>1 DEF OnceDue, r
<1> QED
    BY <1>11, <1>12, <1>13, <1>14 DEF d, ce, r

(* A command that is given to a core is what it owes in addition.           *)
LEMMA GivenOrder ==
    ASSUME NEW c, WF(c), NEW ce \in GivenCommand
    PROVE  OrderMove(c, FlushCommandQ(QueueCommand(c, ce)), {ce})
<1> DEFINE q == QueueCommand(c, ce)
           d == FlushCommandQ(q)
           r == RepliesDue(c)
           u == RepliesDue(d)
<1>1. WF(q) /\ RepliesDue(q) = Append(r, ce) /\ r \in Seq(GivenCommand)
    BY QueueWellFormed, QueueDue, RepliesDueType DEF WF
<1>2. q.processRunning = c.processRunning /\ q.expectingDataset = c.expectingDataset
    BY DEF QueueCommand, WF, WellFormed, CoreRecords
<1> HIDE DEF q
<1>3. u = Append(r, ce)
    BY <1>1, FlushDue DEF WF
<1>4. d.processRunning = c.processRunning /\ d.expectingDataset = c.expectingDataset
    BY <1>1, <1>2 DEF FlushCommandQ, WriteFirst, WF, WellFormed, CoreRecords, Busy
<1>5. \A i \in DOMAIN Append(r, ce) : (i \in DOMAIN r /\ Append(r, ce)[i] = r[i]) \/ Append(r, ce)[i] = ce
    BY <1>1
<1> HIDE DEF d, r, u
<1>6. Range(u) \subseteq Range(r) \union {ce}
    BY <1>3, <1>5 DEF Range
<1>7. Coming(d) \subseteq Coming(c) \union {ce}
    <2> SUFFICES ASSUME NEW i \in DOMAIN u, i = 1 => ~d.expectingDataset, u[i] # ce
                 PROVE  u[i] \in Coming(c)
        BY DEF Coming, u
    <2>1. i \in DOMAIN r /\ u[i] = r[i]
        BY <1>3, <1>5
    <2> QED
        BY <1>4, <2>1 DEF Coming, r
<1> QED
    BY <1>4, <1>6, <1>7 DEF OrderMove, d, q, r, u

(* A core that has just been started owes nothing.                          *)
LEMMA StartOrder ==
    ASSUME NEW name
    PROVE  /\ StartCore(name).processRunning = TRUE
           /\ Range(RepliesDue(StartCore(name))) = {} /\ Coming(StartCore(name)) = {}
<1>1. RepliesDue(StartCore(name)) = <<>>
    BY StartDue
<1>2. DOMAIN <<>> = {}
    OBVIOUS
<1>3. StartCore(name).processRunning = TRUE
    BY DEF StartCore
<1> QED
    BY <1>1, <1>2, <1>3 DEF Range, Coming

-----------------------------------------------------------------------------
(* One session: its replies, and what it is to be sent next.                *)
Ascending(r, input) ==
    \A i \in 1..Len(r) - 1 :
        \/ r[i].tag < r[i + 1].tag
        \/ r[i].tag = r[i + 1].tag /\ input[r[i].tag].word = "help"

SessionOrdered(sc, read, input) == Ascending(sc.replies, input) /\ InputOrdered(sc, read)

\* It may be sent a reply to its line n now.
MayReply(sc, n, read, input) ==
    n \in 1..read /\ NotYetReplied(sc, n, input) /\ QueuedAfter(sc, n) /\ sc.curCommand = NoCommand

(* Sending it keeps the order, and for help there may be one more.          *)
LEMMA ReplySent ==
    ASSUME NEW sc \in SessionContext, NEW sc2 \in SessionContext, NEW ce \in GivenCommand,
           NEW read \in Nat, NEW input, SameInput(sc, sc2), sc2.replies = Once(sc, ce),
           sc.lineQueue \in Seq(1..read),
           SessionOrdered(sc, read, input), MayReply(sc, ce.tag, read, input)
    PROVE  /\ SessionOrdered(sc2, read, input)
           /\ input[ce.tag].word = "help" => MayReply(sc2, ce.tag, read, input)
<1> DEFINE r == sc.replies
           u == sc2.replies
           n == ce.tag
           q == sc.lineQueue
<1>1. r \in Seq(Reply) /\ ReplyTo(ce) \in Reply /\ ReplyTo(ce).tag = n /\ n \in Nat
    BY DEF SessionContext, ReplyTo, Reply, GivenCommand, Entry
<1>2. /\ Len(r) \in Nat /\ DOMAIN r = 1..Len(r) /\ DOMAIN u = 1..(Len(r) + 1) /\ Len(u) = Len(r) + 1
      /\ \A i \in 1..Len(r) : u[i] = r[i]
      /\ u[Len(r) + 1].tag = n
    BY <1>1 DEF Once
<1>l. Len(r) \in Nat /\ Len(u) = Len(r) + 1
    BY <1>2
<1>3. \A i \in DOMAIN r : r[i].tag \in Nat
    <2>1. \A i \in DOMAIN r : r[i] \in Reply
        BY <1>1
    <2> QED
        BY <2>1 DEF Reply
<1>4. \A i \in DOMAIN r : r[i].tag < n \/ (r[i].tag = n /\ input[n].word = "help")
    BY DEF MayReply, NotYetReplied
<1>5. Ascending(r, input) /\ InputOrdered(sc, read)
    BY DEF SessionOrdered
<1>6. sc2.lineQueue = q /\ sc2.curCommand = NoCommand /\ n \in 1..read
      /\ \A j \in DOMAIN q : n < q[j]
    BY DEF SameInput, MayReply, QueuedAfter
<1>7. \A i \in DOMAIN u : u[i].tag \in Nat /\ (u[i].tag < n \/ (u[i].tag = n /\ (i \in DOMAIN r => input[n].word = "help")))
    <2> SUFFICES ASSUME NEW i \in DOMAIN u
                 PROVE  u[i].tag \in Nat /\ (u[i].tag < n \/ (u[i].tag = n /\ (i \in DOMAIN r => input[n].word = "help")))
        OBVIOUS
    <2>1. CASE i \in 1..Len(r)
        <3>1. i \in DOMAIN r /\ u[i] = r[i]
            BY <1>2, <2>1
        <3> QED
            BY <1>3, <1>4, <3>1
    <2>2. CASE i = Len(r) + 1
        <3>1. i \notin DOMAIN r /\ u[i].tag = n
            BY <1>2, <2>2
        <3> QED
            BY <1>1, <3>1
    <2> QED
        BY <1>2, <2>1, <2>2
<1>q. DOMAIN q = 1..Len(q) /\ \A j \in DOMAIN q : q[j] \in Nat
    <2>1. q \in Seq(Nat)
        BY DEF SessionContext
    <2> QED
        BY <2>1
<1>8. \A i \in DOMAIN r : r[i].tag \in 1..read
    BY <1>5 DEF InputOrdered
<1>9. \A j \in DOMAIN q : \A i \in DOMAIN r : r[i].tag < q[j]
    BY <1>5 DEF InputOrdered, RepliedBefore
<1>10. \A i, j \in DOMAIN q : i < j => q[i] < q[j]
    BY <1>5 DEF InputOrdered
<1>11. \A i \in 1..Len(r) - 1 : \/ r[i].tag < r[i + 1].tag
                                \/ r[i].tag = r[i + 1].tag /\ input[r[i].tag].word = "help"
    BY <1>5 DEF Ascending
<1> HIDE DEF r, u, n, q
<1>12. Ascending(u, input)
    <2> SUFFICES ASSUME NEW i \in 1..Len(u) - 1
                 PROVE  \/ u[i].tag < u[i + 1].tag
                        \/ u[i].tag = u[i + 1].tag /\ input[u[i].tag].word = "help"
        BY DEF Ascending
    <2>1. CASE i = Len(r)
        <3>1. i \in 1..Len(r) /\ u[i] = r[i] /\ i \in DOMAIN r
            BY <1>2, <2>1
        <3>2. u[i + 1].tag = n
            BY <1>2, <2>1
        <3> QED
            BY <1>4, <3>1, <3>2
    <2>2. CASE i # Len(r)
        <3>1. i \in 1..Len(r) - 1 /\ i \in 1..Len(r) /\ i + 1 \in 1..Len(r)
            BY <1>l, <2>2
        <3>2. u[i] = r[i] /\ u[i + 1] = r[i + 1]
            BY <1>2, <3>1
        <3> QED
            BY <1>11, <3>1, <3>2
    <2> QED
        BY <2>1, <2>2
<1>13. \A i \in DOMAIN u : u[i].tag \in 1..read
    <2> SUFFICES ASSUME NEW i \in DOMAIN u PROVE u[i].tag \in 1..read
        OBVIOUS
    <2>1. CASE i \in DOMAIN r
        BY <1>2, <1>8, <2>1
    <2>2. CASE i = Len(r) + 1
        BY <1>2, <1>6, <2>2
    <2> QED
        BY <1>2, <2>1, <2>2
<1>14. \A j \in DOMAIN q : \A i \in DOMAIN u : u[i].tag < q[j]
    BY <1>1, <1>6, <1>7, <1>q
<1>15. InputOrdered(sc2, read)
    BY <1>6, <1>10, <1>13, <1>14 DEF InputOrdered, RepliedBefore, u
<1>16. ASSUME input[n].word = "help" PROVE MayReply(sc2, n, read, input)
    BY <1>6, <1>7, <1>16 DEF MayReply, NotYetReplied, QueuedAfter, u
<1> QED
    BY <1>12, <1>15, <1>16 DEF SessionOrdered, u, n

(* Executing a command of a session to which it may reply.                  *)
LEMMA RepliesSent ==
    ASSUME NEW sc \in SessionContext, NEW sc2 \in SessionContext, NEW ce \in GivenCommand,
           NEW read \in Nat, NEW input, SameInput(sc, sc2), sc.lineQueue \in Seq(1..read),
           ce.word = input[ce.tag].word,
           SessionOrdered(sc, read, input), MayReply(sc, ce.tag, read, input),
           sc2.replies = sc.replies \/ Replied(sc, sc2, ce)
    PROVE  /\ SessionOrdered(sc2, read, input)
           /\ sc2.replies = sc.replies \/ (ce.word = "help" /\ sc2.replies = Once(sc, ce))
                  => MayReply(sc2, ce.tag, read, input)
<1>1. CASE sc2.replies = sc.replies
    <2>1. SessionOrdered(sc2, read, input)
        BY <1>1 DEF SessionOrdered, InputOrdered, RepliedBefore, QueuedAfter, SameInput
    <2>2. MayReply(sc2, ce.tag, read, input)
        BY <1>1 DEF MayReply, NotYetReplied, QueuedAfter, SameInput
    <2> QED
        BY <2>1, <2>2
<1>2. CASE sc2.replies = Once(sc, ce)
    <2>1. SessionOrdered(sc2, read, input) /\ (ce.word = "help" => MayReply(sc2, ce.tag, read, input))
        BY <1>2, ReplySent
    <2>2. sc2.replies # sc.replies
        BY <1>2 DEF Once, SessionContext
    <2> QED
        BY <2>1, <2>2
<1>3. CASE ce.word = "help" /\ sc2.replies = Append(Once(sc, ce), ReplyTo(ce))
    <2> DEFINE z == [sc EXCEPT !.replies = Once(sc, ce)]
    <2>1. ReplyTo(ce) \in Reply /\ sc.replies \in Seq(Reply)
        BY DEF ReplyTo, Reply, GivenCommand, Entry, SessionContext
    <2>2. Once(sc, ce) \in Seq(Reply)
        BY <2>1 DEF Once
    <2>3. z \in SessionContext /\ SameInput(sc, z) /\ z.replies = Once(sc, ce)
        BY <2>2 DEF SessionContext, SameInput
    <2> HIDE DEF z
    <2>4. SessionOrdered(z, read, input) /\ MayReply(z, ce.tag, read, input)
        BY <1>3, <2>3, ReplySent
    <2>5. SameInput(z, sc2) /\ sc2.replies = Once(z, ce) /\ z.lineQueue \in Seq(1..read)
        BY <1>3, <2>3 DEF SameInput, Once
    <2>6. SessionOrdered(sc2, read, input)
        BY <2>3, <2>4, <2>5, ReplySent
    <2>7. sc2.replies # sc.replies /\ sc2.replies # Once(sc, ce)
        <3>1. Len(sc2.replies) = Len(sc.replies) + 2 /\ Len(Once(sc, ce)) = Len(sc.replies) + 1
              /\ Len(sc.replies) \in Nat
            BY <1>3, <2>1, <2>2 DEF Once
        <3> QED
            BY <3>1
    <2> QED
        BY <2>6, <2>7
<1> QED
    BY <1>1, <1>2, <1>3 DEF Replied

-----------------------------------------------------------------------------
(* The parts of OrderInv, for one session and for all.                      *)
StopWords == {"drop-graph", "shutdown"}

WordKept(sc, input) == sc.curCommand # NoCommand => sc.curCommand.word = input[sc.curCommand.tag].word

LinesSpare == \A s \in SessionIDs : \A n \in DOMAIN lines[s] : lines[s][n].word \notin StopWords

OrderPart ==
    /\ \A id \in DOMAIN coreInstances : coreInstances[id].processRunning
    /\ LinesSpare
    /\ \A s \in DOMAIN sessionContexts : WordKept(sessionContexts[s], lines[s])
    /\ \A s \in Tcp :
           /\ SessionOrdered(sessionContexts[s], linesRead[s], lines[s])
           /\ \A id \in DOMAIN coreInstances :
                  DueOrdered(s, sessionContexts[s], linesRead[s], lines[s], coreInstances[id])

LEMMA OrderParts == OrderInv <=> OrderPart
<1>1. RunningCores = DOMAIN coreInstances <=> \A id \in DOMAIN coreInstances : coreInstances[id].processRunning
    BY DEF RunningCores
<1>2. RepliesInOrder <=> \A s \in Tcp : Ascending(sessionContexts[s].replies, lines[s])
    BY DEF RepliesInOrder, Ascending
<1>3. LinesSpare <=> \A s \in SessionIDs : \A n \in DOMAIN lines[s] :
                        lines[s][n].word \notin {"drop-graph", "shutdown"}
    BY DEF LinesSpare, StopWords
<1>4. (\A s \in DOMAIN sessionContexts : WordKept(sessionContexts[s], lines[s])) <=>
          \A s \in DOMAIN sessionContexts :
              LET cur == sessionContexts[s].curCommand
              IN cur # NoCommand => cur.word = lines[s][cur.tag].word
    BY DEF WordKept
<1>5. ASSUME OrderInv PROVE OrderPart
    BY <1>1, <1>2, <1>3, <1>4, <1>5 DEF OrderInv, OrderPart, SessionOrdered
<1>6. ASSUME OrderPart PROVE OrderInv
    BY <1>1, <1>2, <1>3, <1>4, <1>6 DEF OrderInv, OrderPart, SessionOrdered
<1> QED
    BY <1>5, <1>6

\* What the order of replies depends on.
SameOrdered(sc, sc2) == SameInput(sc, sc2) /\ sc2.replies = sc.replies

(* A session that is sent nothing stays in order while it reads on and      *)
(* cores get commands of others.                                            *)
LEMMA SessionMonotone ==
    ASSUME NEW sc \in SessionContext, NEW sc2, SameOrdered(sc, sc2), NEW n \in Nat, NEW n2 \in Nat, n <= n2,
           NEW input, NEW input2, \A k \in 1..n : input2[k] = input[k], SessionOrdered(sc, n, input)
    PROVE  SessionOrdered(sc2, n2, input2)
<1>1. sc2.replies = sc.replies /\ sc2.lineQueue = sc.lineQueue /\ sc2.curCommand = sc.curCommand
    BY DEF SameOrdered, SameInput
<1>2. Ascending(sc.replies, input) /\ InputOrdered(sc, n)
    BY DEF SessionOrdered
<1>3. \A i \in DOMAIN sc.replies : sc.replies[i].tag \in 1..n /\ sc.replies[i].tag \in 1..n2
    BY <1>2 DEF InputOrdered
<1>4. InputOrdered(sc2, n2)
    BY <1>1, <1>2, <1>3 DEF InputOrdered, RepliedBefore, QueuedAfter
<1>5. sc.replies \in Seq(Reply)
    BY DEF SessionContext
<1>6. \A i \in 1..Len(sc.replies) - 1 : i \in DOMAIN sc.replies
    BY <1>5
<1>7. Ascending(sc.replies, input2)
    BY <1>2, <1>3, <1>6 DEF Ascending
<1> QED
    BY <1>1, <1>4, <1>7 DEF SessionOrdered

LEMMA DueMonotone ==
    ASSUME NEW s, NEW sc, NEW sc2, SameOrdered(sc, sc2), NEW n \in Nat, NEW n2 \in Nat, n <= n2,
           NEW input, NEW input2, \A k \in 1..n : input2[k] = input[k],
           NEW c, NEW d, NEW given, OrderMove(c, d, given), \A ce \in given : ce.clientID # s,
           DueOrdered(s, sc, n, input, c)
    PROVE  DueOrdered(s, sc2, n2, input2, d)
<1>1. sc2.replies = sc.replies /\ sc2.lineQueue = sc.lineQueue
    BY DEF SameOrdered, SameInput
<1>2. ASSUME NEW ce \in Range(RepliesDue(d)), ce.clientID = s
      PROVE  ce.tag \in 1..n2 /\ QueuedAfter(sc2, ce.tag)
    <2>1. ce \in Range(RepliesDue(c))
        BY <1>2 DEF OrderMove
    <2>2. ce.tag \in 1..n /\ QueuedAfter(sc, ce.tag)
        BY <1>2, <2>1 DEF DueOrdered
    <2>3. ce.tag \in 1..n2
        BY <2>2
    <2> QED
        BY <1>1, <2>2, <2>3 DEF QueuedAfter
<1>3. ASSUME NEW ce \in Coming(d), ce.clientID = s
      PROVE  NotYetReplied(sc2, ce.tag, input2)
    <2>1. ce \in Coming(c)
        BY <1>3 DEF OrderMove
    <2>2. ce \in Range(RepliesDue(c))
        BY <2>1 DEF Coming, Range
    <2>3. ce.tag \in 1..n /\ NotYetReplied(sc, ce.tag, input)
        BY <1>3, <2>1, <2>2 DEF DueOrdered
    <2> QED
        BY <1>1, <2>3 DEF NotYetReplied
<1> QED
    BY <1>2, <1>3 DEF DueOrdered

LEMMA WordMonotone ==
    ASSUME NEW s, NEW sc, NEW n \in Nat, NEW k, SessionOK(s, sc, n, k), NEW sc2, SameOrdered(sc, sc2),
           NEW input, NEW input2, \A i \in 1..n : input2[i] = input[i], WordKept(sc, input)
    PROVE  WordKept(sc2, input2)
BY DEF SessionOK, SameOrdered, SameInput, WordKept

LEMMA NoDue ==
    ASSUME NEW name, NEW s, NEW sc, NEW n, NEW input
    PROVE  DueOrdered(s, sc, n, input, StartCore(name))
BY StartOrder DEF DueOrdered

(* A step that gives no command and sends no reply.                         *)
LEMMA OrderStays ==
    ASSUME SessionPart, OrderPart, UNCHANGED linesRead,
           \A s \in SessionIDs : \A n \in 1..linesRead[s] : lines'[s][n] = lines[s][n],
           LinesSpare',
           \A id \in DOMAIN coreInstances' :
               id \in DOMAIN coreInstances /\ OrderMove(coreInstances[id], coreInstances'[id], {}),
           \A s \in DOMAIN sessionContexts' :
               /\ s \in DOMAIN sessionContexts
               /\ SameOrdered(sessionContexts[s], sessionContexts'[s])
    PROVE  OrderPart'
<1>1. \A id \in DOMAIN coreInstances' : coreInstances'[id].processRunning
    BY DEF OrderPart, OrderMove
<1>2. ASSUME NEW s \in DOMAIN sessionContexts'
      PROVE  /\ s \in SessionIDs /\ linesRead[s] \in Nat /\ sessionContexts[s] \in SessionContext
             /\ SessionOK(s, sessionContexts[s], linesRead[s], coreIDCounter)
    <2>1. SessionOK(s, sessionContexts[s], linesRead[s], coreIDCounter) /\ s \in SessionIDs /\ linesRead[s] \in Nat
        BY SessionsStay
    <2> QED
        BY <2>1 DEF SessionOK
<1>3. ASSUME NEW s \in DOMAIN sessionContexts' PROVE WordKept(sessionContexts'[s], lines'[s])
    <2>1. WordKept(sessionContexts[s], lines[s])
        BY DEF OrderPart
    <2> QED
        BY <1>2, <2>1, WordMonotone
<1>4. ASSUME NEW s \in Tcp'
      PROVE  /\ SessionOrdered(sessionContexts'[s], linesRead'[s], lines'[s])
             /\ \A id \in DOMAIN coreInstances' :
                    DueOrdered(s, sessionContexts'[s], linesRead'[s], lines'[s], coreInstances'[id])
    <2>1. s \in DOMAIN sessionContexts' /\ s \in Tcp
        BY DEF Tcp, SameOrdered, SameInput
    <2>2. SessionOrdered(sessionContexts'[s], linesRead'[s], lines'[s])
        <3>1. SessionOrdered(sessionContexts[s], linesRead[s], lines[s])
            BY <2>1 DEF OrderPart
        <3> QED
            BY <1>2, <2>1, <3>1, SessionMonotone
    <2>3. ASSUME NEW id \in DOMAIN coreInstances'
          PROVE  DueOrdered(s, sessionContexts'[s], linesRead'[s], lines'[s], coreInstances'[id])
        <3>1. DueOrdered(s, sessionContexts[s], linesRead[s], lines[s], coreInstances[id])
            BY <2>1 DEF OrderPart
        <3>2. OrderMove(coreInstances[id], coreInstances'[id], {}) /\ \A ce \in {} : ce.clientID # s
            OBVIOUS
        <3> QED
            BY <1>2, <2>1, <3>1, <3>2, DueMonotone
    <2> QED
        BY <2>2, <2>3
<1> QED
    BY <1>1, <1>3, <1>4 DEF OrderPart

-----------------------------------------------------------------------------
(* A line of session s has been handled, with m lines read.                 *)
CoresGiven(s) ==
    \A id \in DOMAIN coreInstances' :
        \/ /\ id \in DOMAIN coreInstances
           /\ \E given : (\A ce \in given : ce.clientID = s)
                         /\ OrderMove(coreInstances[id], coreInstances'[id], given)
        \/ \E name : coreInstances'[id] = StartCore(name)

OrderHandled(s, m) ==
    /\ CoresGiven(s)
    /\ \E sc2 :
          /\ Becomes(s, sc2) /\ sc2.connectionType = sessionContexts[s].connectionType
          /\ WordKept(sc2, lines[s])
          /\ sc2.connectionType = "TCP" =>
                /\ SessionOrdered(sc2, m, lines[s])
                /\ \A id \in DOMAIN coreInstances' : DueOrdered(s, sc2, m, lines[s], coreInstances'[id])

LEMMA LineOrderStep ==
    ASSUME SessionPart, OrderPart, NEW s \in DOMAIN sessionContexts, NEW m \in Nat, OrderHandled(s, m),
           UNCHANGED lines, linesRead' = [linesRead EXCEPT ![s] = m]
    PROVE  OrderPart'
<1>0. s \in SessionIDs /\ linesRead \in [SessionIDs -> Nat]
    BY DEF SessionPart
<1>1. \A id \in DOMAIN coreInstances' : coreInstances'[id].processRunning
    BY StartOrder DEF OrderPart, OrderHandled, CoresGiven, OrderMove
<1>2. PICK sc2 :
          /\ Becomes(s, sc2) /\ sc2.connectionType = sessionContexts[s].connectionType
          /\ WordKept(sc2, lines[s])
          /\ sc2.connectionType = "TCP" =>
                /\ SessionOrdered(sc2, m, lines[s])
                /\ \A id \in DOMAIN coreInstances' : DueOrdered(s, sc2, m, lines[s], coreInstances'[id])
    BY DEF OrderHandled
<1>3. LinesSpare'
    BY DEF OrderPart, LinesSpare
<1>4. sessionContexts' = [sessionContexts EXCEPT ![s] = sc2]
    BY <1>2 DEF Becomes
<1>5. \A t \in DOMAIN sessionContexts' : WordKept(sessionContexts'[t], lines'[t])
    BY <1>2, <1>4 DEF OrderPart
<1>6. ASSUME NEW t \in Tcp'
      PROVE  /\ SessionOrdered(sessionContexts'[t], linesRead'[t], lines'[t])
             /\ \A id \in DOMAIN coreInstances' :
                    DueOrdered(t, sessionContexts'[t], linesRead'[t], lines'[t], coreInstances'[id])
    <2>1. CASE t = s
        <3>1. sessionContexts'[t] = sc2 /\ sc2.connectionType = "TCP" /\ linesRead'[t] = m /\ lines'[t] = lines[s]
            BY <1>0, <1>4, <2>1 DEF Tcp
        <3> QED
            BY <1>2, <2>1, <3>1
    <2>2. CASE t # s
        <3>1. /\ t \in Tcp /\ t \in SessionIDs /\ sessionContexts'[t] = sessionContexts[t]
              /\ linesRead'[t] = linesRead[t] /\ lines'[t] = lines[t] /\ linesRead[t] \in Nat
            BY <1>0, <1>4, <2>2 DEF Tcp, SessionPart
        <3>2. ASSUME NEW id \in DOMAIN coreInstances'
              PROVE  DueOrdered(t, sessionContexts[t], linesRead[t], lines[t], coreInstances'[id])
            <4>1. CASE \E name : coreInstances'[id] = StartCore(name)
                BY <4>1, NoDue
            <4>2. ASSUME id \in DOMAIN coreInstances, NEW given, \A ce \in given : ce.clientID = s,
                         OrderMove(coreInstances[id], coreInstances'[id], given)
                  PROVE  DueOrdered(t, sessionContexts[t], linesRead[t], lines[t], coreInstances'[id])
                <5>1. DueOrdered(t, sessionContexts[t], linesRead[t], lines[t], coreInstances[id])
                    BY <3>1, <4>2 DEF OrderPart
                <5>2. SameOrdered(sessionContexts[t], sessionContexts[t]) /\ \A ce \in given : ce.clientID # t
                    BY <2>2, <4>2 DEF SameOrdered, SameInput
                <5> QED
                    BY <3>1, <4>2, <5>1, <5>2, DueMonotone
            <4> QED
                BY <4>1, <4>2 DEF OrderHandled, CoresGiven
        <3>3. SessionOrdered(sessionContexts[t], linesRead[t], lines[t])
            BY <3>1 DEF OrderPart
        <3> QED
            BY <3>1, <3>2, <3>3
    <2> QED
        BY <2>1, <2>2
<1> QED
    BY <1>1, <1>3, <1>5, <1>6 DEF OrderPart

-----------------------------------------------------------------------------
(* Executing a command.  A core that owed session s nothing owes it the     *)
(* command it is given, and that only.                                      *)
LEMMA OnlyDue ==
    ASSUME NEW s, NEW c, NEW d, NEW given, ~DueTo(c, s), OrderMove(c, d, given),
           NEW sc, NEW m, NEW input,
           \A ce \in given : ce.clientID = s => MayReply(sc, ce.tag, m, input)
    PROVE  DueOrdered(s, sc, m, input, d)
<1>1. \A ce \in Range(RepliesDue(c)) : ce.clientID # s
    BY DEF DueTo, Range
<1>2. \A ce \in Coming(c) : ce.clientID # s
    BY DEF DueTo, Coming
<1>3. ASSUME NEW ce \in Range(RepliesDue(d)), ce.clientID = s
      PROVE  ce.tag \in 1..m /\ QueuedAfter(sc, ce.tag)
    BY <1>1, <1>3 DEF OrderMove, MayReply
<1>4. ASSUME NEW ce \in Coming(d), ce.clientID = s
      PROVE  NotYetReplied(sc, ce.tag, input)
    BY <1>2, <1>4 DEF OrderMove, MayReply
<1> QED
    BY <1>3, <1>4 DEF DueOrdered

\* The session is owed nothing and may be sent a reply to its line n.
Ready(s, sc, n, m) ==
    sc.connectionType = "TCP" =>
        Idle(s) /\ SessionOrdered(sc, m, lines[s]) /\ MayReply(sc, n, m, lines[s])

LEMMA ExecutedOrder ==
    ASSUME SessionPart, CorePart, OrderPart,
           NEW s \in DOMAIN sessionContexts, NEW m \in Nat, NEW x, SessionOK(s, x, m, coreIDCounter),
           x.connectionType = sessionContexts[s].connectionType, x.curCommand = NoCommand,
           NEW ce \in GivenCommand, ce.clientID = s, ce.word = lines[s][ce.tag].word,
           ce.word \notin StopWords, Ready(s, x, ce.tag, m),
           NEW line \in CommandLine, ProcessCommand(s, x, ce, line)
    PROVE  OrderHandled(s, m)
<1>0. /\ x \in SessionContext /\ x.lineQueue \in Seq(1..m) /\ DOMAIN coreInstances \subseteq Nat
      /\ \A id \in DOMAIN coreInstances : WF(coreInstances[id]) /\ id \in RunningCores
      /\ 0 \notin DOMAIN coreInstances
    BY DEF SessionOK, CorePart, OrderPart, RunningCores
<1>1. PICK sc2 : Executed(s, x, ce, line, sc2)
    BY <1>0, CommandExecuted
<1>2. /\ Becomes(s, sc2) /\ sc2 \in SessionContext /\ SameInput(x, sc2)
      /\ sc2.connectionType = x.connectionType /\ sc2.curCommand = NoCommand
    BY <1>1 DEF Executed, SameInput
<1>3. AnsweredHere(x, sc2, ce, line) \/ GivenToCore(x, sc2, ce) \/ CoreCreated(x, sc2, ce)
    BY <1>1 DEF Executed, CoreDropped, StopWords
<1>4. WordKept(sc2, lines[s])
    BY <1>2 DEF WordKept
<1>5. sc2.replies = x.replies \/ Replied(x, sc2, ce)
    BY <1>3 DEF AnsweredHere, GivenToCore, CoreCreated, Replied, StopWords
<1>6. ASSUME x.connectionType = "TCP"
      PROVE  /\ SessionOrdered(sc2, m, lines[s])
             /\ sc2.replies = x.replies \/ (ce.word = "help" /\ sc2.replies = Once(x, ce))
                    => MayReply(sc2, ce.tag, m, lines[s])
    <2>1. SessionOrdered(x, m, lines[s]) /\ MayReply(x, ce.tag, m, lines[s])
        BY <1>6 DEF Ready
    <2> QED
        BY <1>0, <1>2, <1>5, <2>1, RepliesSent
<1>7. ASSUME NEW id \in DOMAIN coreInstances'
      PROVE  \/ \E name : coreInstances'[id] = StartCore(name)
             \/ /\ id \in DOMAIN coreInstances
                /\ \/ OrderMove(coreInstances[id], coreInstances'[id], {})
                   \/ /\ OrderMove(coreInstances[id], coreInstances'[id], {ce})
                      /\ sc2.replies = x.replies \/ (ce.word = "help" /\ sc2.replies = Once(x, ce))
    <2>1. CASE id \in DOMAIN coreInstances /\ coreInstances'[id] = coreInstances[id]
        BY <2>1, SameOrder
    <2>2. CASE GivenToCore(x, sc2, ce)
        <3>1. /\ x.coreID \in DOMAIN coreInstances
              /\ coreInstances' = [coreInstances EXCEPT ![x.coreID] = FlushCommandQ(QueueCommand(@, ce))]
              /\ sc2.replies = x.replies \/ (ce.word = "help" /\ sc2.replies = Once(x, ce))
            BY <2>2 DEF GivenToCore, FindInstance, StopWords
        <3>2. CASE id = x.coreID
            <4>1. coreInstances'[id] = FlushCommandQ(QueueCommand(coreInstances[id], ce))
                BY <3>1, <3>2
            <4> QED
                BY <1>0, <3>1, <3>2, <4>1, GivenOrder
        <3>3. CASE id # x.coreID
            BY <2>1, <3>1, <3>3
        <3> QED
            BY <3>2, <3>3
    <2>3. CASE CoreCreated(x, sc2, ce) \/ AnsweredHere(x, sc2, ce, line)
        BY <2>1, <2>3 DEF CoreCreated, AnsweredHere
    <2> QED
        BY <1>3, <2>2, <2>3
<1>8. CoresGiven(s)
    <2> SUFFICES ASSUME NEW id \in DOMAIN coreInstances', ~ \E name : coreInstances'[id] = StartCore(name)
                 PROVE  /\ id \in DOMAIN coreInstances
                        /\ \E given : (\A e \in given : e.clientID = s)
                              /\ OrderMove(coreInstances[id], coreInstances'[id], given)
        BY DEF CoresGiven
    <2>1. PICK given \in {{}, {ce}} : OrderMove(coreInstances[id], coreInstances'[id], given)
        BY <1>7
    <2>2. \A e \in given : e.clientID = s
        OBVIOUS
    <2> QED
        BY <1>7, <2>1, <2>2
<1>9. ASSUME x.connectionType = "TCP", NEW id \in DOMAIN coreInstances'
      PROVE  DueOrdered(s, sc2, m, lines[s], coreInstances'[id])
    <2>1. CASE \E name : coreInstances'[id] = StartCore(name)
        BY <2>1, NoDue
    <2>2. ASSUME id \in DOMAIN coreInstances PROVE ~DueTo(coreInstances[id], s)
        BY <1>0, <1>9, <2>2 DEF Ready, Idle
    <2>3. CASE id \in DOMAIN coreInstances /\ OrderMove(coreInstances[id], coreInstances'[id], {})
        BY <2>2, <2>3, OnlyDue
    <2>4. CASE /\ id \in DOMAIN coreInstances /\ OrderMove(coreInstances[id], coreInstances'[id], {ce})
               /\ sc2.replies = x.replies \/ (ce.word = "help" /\ sc2.replies = Once(x, ce))
        <3>1. \A e \in {ce} : e.clientID = s => MayReply(sc2, e.tag, m, lines[s])
            BY <1>6, <1>9, <2>4
        <3> QED
            BY <2>2, <2>4, <3>1, OnlyDue
    <2> QED
        BY <1>7, <2>1, <2>3, <2>4
<1> QED
    BY <1>2, <1>4, <1>6, <1>8, <1>9 DEF OrderHandled

-----------------------------------------------------------------------------
(* A line that only changes what the session holds.                         *)
LEMMA AnsweredOrder ==
    ASSUME NEW s \in DOMAIN sessionContexts, NEW m, NEW y, Answered(s, y),
           y.connectionType = sessionContexts[s].connectionType, WordKept(y, lines[s]),
           y.connectionType = "TCP" =>
               /\ SessionOrdered(y, m, lines[s])
               /\ \A id \in DOMAIN coreInstances : DueOrdered(s, y, m, lines[s], coreInstances[id])
    PROVE  OrderHandled(s, m)
<1>1. Becomes(s, y) /\ UNCHANGED coreInstances
    BY DEF Answered
<1>2. \A id \in DOMAIN coreInstances : OrderMove(coreInstances[id], coreInstances[id], {})
    BY SameOrder
<1>3. \A ce \in {} : ce.clientID = s
    OBVIOUS
<1>4. CoresGiven(s)
    BY <1>1, <1>2, <1>3 DEF CoresGiven
<1> QED
    BY <1>1, <1>4 DEF OrderHandled

\* Line n is the one session s is to handle: x is the session without it.
NextLine(s, x, n, m, queued) ==
    x.connectionType = "TCP" =>
        /\ SessionOrdered(x, m, lines[s]) /\ RepliedBefore(x, n)
        /\ \A id \in DOMAIN coreInstances : DueOrdered(s, x, m, lines[s], coreInstances[id])
        /\ queued => QueuedAfter(x, n)
        /\ ~queued =>
              /\ \A i \in DOMAIN x.lineQueue : x.lineQueue[i] < n
              /\ x.curCommand # NoCommand => x.curCommand.tag < n
              /\ \A id \in DOMAIN coreInstances : \A ce \in Range(RepliesDue(coreInstances[id])) :
                     ce.clientID = s => ce.tag < n

(* Keeping it in the queue, or as (part of) a command with a data set.      *)
LEMMA LineQueued ==
    ASSUME NEW s, NEW m \in Nat, NEW n \in 1..m, NEW x, SessionOK(s, x, m, coreIDCounter),
           NextLine(s, x, n, m, FALSE), x.connectionType = "TCP",
           NEW y, y.lineQueue = Append(x.lineQueue, n), y.replies = x.replies, y.curCommand = x.curCommand
    PROVE  /\ SessionOrdered(y, m, lines[s])
           /\ \A id \in DOMAIN coreInstances : DueOrdered(s, y, m, lines[s], coreInstances[id])
<1> DEFINE q == x.lineQueue
           u == y.lineQueue
<1>1. q \in Seq(Nat) /\ n \in Nat /\ u = Append(q, n)
    BY DEF SessionOK, SessionContext
<1>2. \A i \in DOMAIN u : (i \in DOMAIN q /\ u[i] = q[i]) \/ (i = Len(q) + 1 /\ u[i] = n)
    BY <1>1
<1>3. Len(q) \in Nat /\ DOMAIN q = 1..Len(q) /\ DOMAIN u = 1..(Len(q) + 1)
    BY <1>1
<1>4. /\ Ascending(x.replies, lines[s]) /\ InputOrdered(x, m) /\ RepliedBefore(x, n)
      /\ \A i \in DOMAIN q : q[i] < n
    BY DEF NextLine, SessionOrdered
<1> HIDE DEF q, u
<1>5. \A k : QueuedAfter(x, k) /\ k < n => QueuedAfter(y, k)
    BY <1>2 DEF QueuedAfter, q, u
<1>6. \A k : RepliedBefore(x, k) => RepliedBefore(y, k)
    BY DEF RepliedBefore
<1>7. InputOrdered(y, m)
    <2>1. \A i \in DOMAIN y.replies : y.replies[i].tag \in 1..m
        BY <1>4 DEF InputOrdered
    <2>2. \A i \in DOMAIN u : RepliedBefore(y, u[i])
        BY <1>2, <1>4, <1>6 DEF InputOrdered, q
    <2>3. \A i, j \in DOMAIN u : i < j => u[i] < u[j]
        <3>1. \A i, j \in DOMAIN q : i < j => q[i] < q[j]
            BY <1>4 DEF InputOrdered, q
        <3> SUFFICES ASSUME NEW i \in DOMAIN u, NEW j \in DOMAIN u, i < j PROVE u[i] < u[j]
            OBVIOUS
        <3>2. i \in DOMAIN q /\ u[i] = q[i]
            BY <1>2, <1>3
        <3> QED
            BY <1>2, <1>4, <3>1, <3>2
    <2>4. y.curCommand # NoCommand => RepliedBefore(y, y.curCommand.tag) /\ QueuedAfter(y, y.curCommand.tag)
        BY <1>4, <1>5, <1>6 DEF InputOrdered, NextLine
    <2> QED
        BY <2>1, <2>2, <2>3, <2>4 DEF InputOrdered, u
<1>8. ASSUME NEW id \in DOMAIN coreInstances PROVE DueOrdered(s, y, m, lines[s], coreInstances[id])
    <2>1. /\ DueOrdered(s, x, m, lines[s], coreInstances[id])
          /\ \A ce \in Range(RepliesDue(coreInstances[id])) : ce.clientID = s => ce.tag < n
        BY DEF NextLine
    <2> QED
        BY <1>5, <2>1 DEF DueOrdered, NotYetReplied
<1> QED
    BY <1>4, <1>7, <1>8 DEF SessionOrdered

LEMMA LineCollected ==
    ASSUME NEW s, NEW m, NEW x, NEW y, NEW cur, SessionOrdered(x, m, lines[s]),
           \A id \in DOMAIN coreInstances : DueOrdered(s, x, m, lines[s], coreInstances[id]),
           RepliedBefore(x, cur.tag), QueuedAfter(x, cur.tag),
           y.curCommand = cur, y.lineQueue = x.lineQueue, y.replies = x.replies
    PROVE  /\ SessionOrdered(y, m, lines[s])
           /\ \A id \in DOMAIN coreInstances : DueOrdered(s, y, m, lines[s], coreInstances[id])
BY DEF SessionOrdered, InputOrdered, RepliedBefore, QueuedAfter, DueOrdered, NotYetReplied

(* Taking the command out of it, complete.                                  *)
LEMMA LineTaken ==
    ASSUME NEW s, NEW m, NEW x, NEW y, NEW n \in 1..m, NEW input, SessionOrdered(x, m, input),
           RepliedBefore(x, n), QueuedAfter(x, n),
           y.curCommand = NoCommand, y.lineQueue = x.lineQueue, y.replies = x.replies
    PROVE  SessionOrdered(y, m, input) /\ MayReply(y, n, m, input)
<1>1. SessionOrdered(y, m, input)
    BY DEF SessionOrdered, InputOrdered, RepliedBefore
<1>2. MayReply(y, n, m, input)
    BY DEF MayReply, NotYetReplied, RepliedBefore, QueuedAfter
<1> QED
    BY <1>1, <1>2

LEMMA CollectedWord ==
    ASSUME NEW cur \in Entry, NEW n, NEW b
    PROVE  AppendToDataset(cur, n, b).word = cur.word
BY DEF AppendToDataset, Entry

(* A line of session s, which has read m: x is the session without it.      *)
LEMMA LineOrdered ==
    ASSUME SessionPart, CorePart, FlightPart, OrderPart,
           NEW s \in DOMAIN sessionContexts, NEW m \in Nat, m <= Len(lines[s]), NEW n \in 1..m,
           NEW x, SessionOK(s, x, m, coreIDCounter),
           x.connectionType = sessionContexts[s].connectionType,
           x.curCommand = sessionContexts[s].curCommand,
           x.connectionType = "TCP" => x.coreID = sessionContexts[s].coreID,
           NEW queued \in BOOLEAN, queued => ~IsWaitingForCoreReply(s, sessionContexts[s]),
           NextLine(s, x, n, m, queued), LineFromClient(s, x, n, queued)
    PROVE  OrderHandled(s, m)
<1> DEFINE line == lines[s][n]
           ce   == NewCommand(s, n, line.word, line.colon)
           cur  == AppendToDataset(x.curCommand, n, line.word = Blank)
<1>0. /\ s \in SessionIDs /\ x \in SessionContext /\ lines[s] \in Seq(CommandLine)
      /\ x.connectionType = "TCP" => s \in Tcp
      /\ x.curCommand # NoCommand => x.curCommand.word = lines[s][x.curCommand.tag].word
    BY DEF SessionPart, SessionOK, Tcp, OrderPart, WordKept
<1>1. \A i \in 1..m : lines[s][i] \in CommandLine /\ i \in Nat /\ lines[s][i].word \notin StopWords
    <2>1. \A i \in 1..m : i \in DOMAIN lines[s] /\ lines[s][i] \in CommandLine /\ i \in Nat
        BY <1>0
    <2> QED
        BY <1>0, <2>1 DEF OrderPart, LinesSpare
<1>2. line \in CommandLine /\ n \in Nat
    BY <1>1
<1>3. /\ ce \in Entry /\ ce.clientID = s /\ ce.tag = n /\ (Flushable(ce) => ce \in GivenCommand)
      /\ ce.word = line.word
    <2>1. ce.word = line.word
        BY DEF NewCommand
    <2> QED
        BY <1>0, <1>2, <2>1, CommandOfLine
<1>4. ASSUME x.curCommand # NoCommand
      PROVE  /\ x.curCommand.clientID = s /\ x.curCommand.tag \in 1..m /\ ~queued
             /\ cur \in Entry /\ cur.clientID = s /\ cur.tag = x.curCommand.tag
             /\ cur.word = lines[s][cur.tag].word
             /\ Flushable(cur) => cur \in GivenCommand
             /\ x.connectionType = "TCP" =>
                   /\ Idle(s) /\ SessionOrdered(x, m, lines[s])
                   /\ RepliedBefore(x, cur.tag) /\ QueuedAfter(x, cur.tag)
    <2>1. x.curCommand.clientID = s /\ x.curCommand.tag \in 1..m /\ x.curCommand \in Entry
        BY <1>0, <1>4 DEF SessionOK, SessionContext
    <2>2. /\ cur \in Entry /\ cur.clientID = s /\ cur.tag = x.curCommand.tag
          /\ Flushable(cur) => cur \in GivenCommand
        BY <1>0, <1>2, <2>1, CollectedCommand
    <2>3. cur.word = lines[s][cur.tag].word
        BY <1>0, <1>4, <2>1, <2>2, CollectedWord
    <2>4. x.connectionType = "TCP" => Idle(s)
        BY <1>0, <1>4, IdleSession
    <2>5. x.connectionType = "TCP" =>
              /\ SessionOrdered(x, m, lines[s])
              /\ RepliedBefore(x, cur.tag) /\ QueuedAfter(x, cur.tag)
        BY <1>4, <2>2 DEF NextLine, SessionOrdered, InputOrdered
    <2>6. ~queued
        BY <1>4 DEF IsWaitingForCoreReply
    <2> QED
        BY <2>1, <2>2, <2>3, <2>4, <2>5, <2>6
<1>5. ASSUME x.curCommand = NoCommand, ~MustWait(s, x, queued)
      PROVE  x.connectionType = "TCP" =>
                 /\ Idle(s) /\ SessionOrdered(x, m, lines[s])
                 /\ RepliedBefore(x, n) /\ QueuedAfter(x, n)
    <2> SUFFICES ASSUME x.connectionType = "TCP"
                 PROVE  /\ Idle(s) /\ SessionOrdered(x, m, lines[s])
                        /\ RepliedBefore(x, n) /\ QueuedAfter(x, n)
        OBVIOUS
    <2>1. SessionOrdered(x, m, lines[s]) /\ RepliedBefore(x, n)
        BY DEF NextLine
    <2>2. CASE queued
        <3>1. Idle(s)
            BY <1>0, <2>2, IdleSession DEF IsWaitingForCoreReply
        <3> QED
            BY <2>1, <2>2, <3>1 DEF NextLine
    <2>3. CASE ~queued
        <3>1. ~WaitingForCore(s, x) /\ x.lineQueue = <<>>
            BY <1>5, <2>3 DEF MustWait, IsWaitingForCoreReply
        <3>2. ~WaitingForCore(s, sessionContexts[s])
            BY <3>1 DEF WaitingForCore
        <3>3. Idle(s)
            BY <1>0, <3>2, IdleSession
        <3>4. QueuedAfter(x, n)
            <4>1. DOMAIN <<>> = {}
                OBVIOUS
            <4> QED
                BY <3>1, <4>1 DEF QueuedAfter
        <3> QED
            BY <2>1, <3>3, <3>4
    <2> QED
        BY <2>2, <2>3
<1>d. x.connectionType = "TCP" =>
          \A id \in DOMAIN coreInstances : DueOrdered(s, x, m, lines[s], coreInstances[id])
    BY DEF NextLine
<1>w. WordKept(x, lines[s])
    BY <1>0 DEF WordKept
<1> HIDE DEF ce, cur, line
<1>6. CASE x.curCommand # NoCommand /\ Flushable(cur)
           /\ ProcessCommand(s, [x EXCEPT !.curCommand = NoCommand], cur, lines[s][cur.tag])
    <2> DEFINE y == [x EXCEPT !.curCommand = NoCommand]
    <2>1. NoCommand \in Entry
        BY NoCommandTyped
    <2>2. /\ SessionOK(s, y, m, coreIDCounter) /\ y.curCommand = NoCommand
          /\ y.connectionType = x.connectionType /\ y.lineQueue = x.lineQueue /\ y.replies = x.replies
        BY <1>0, <2>1 DEF SessionOK, SessionContext
    <2>3. lines[s][cur.tag] \in CommandLine /\ cur.word \notin StopWords /\ cur.tag \in 1..m
        BY <1>1, <1>4, <1>6
    <2>4. ProcessCommand(s, y, cur, lines[s][cur.tag])
        BY <1>6
    <2> HIDE DEF y
    <2>5. ASSUME x.connectionType = "TCP"
          PROVE  Idle(s) /\ SessionOrdered(y, m, lines[s]) /\ MayReply(y, cur.tag, m, lines[s])
        BY <1>4, <1>6, <2>2, <2>3, <2>5, LineTaken
    <2>6. Ready(s, y, cur.tag, m)
        BY <2>2, <2>5 DEF Ready
    <2> QED
        BY <1>4, <1>6, <2>2, <2>3, <2>4, <2>6, ExecutedOrder
<1>7. CASE x.curCommand # NoCommand /\ Answered(s, [x EXCEPT !.curCommand = cur])
    <2> DEFINE y == [x EXCEPT !.curCommand = cur]
    <2>1. /\ y.connectionType = x.connectionType /\ y.lineQueue = x.lineQueue /\ y.replies = x.replies
          /\ y.curCommand = cur
        BY <1>0 DEF SessionContext
    <2>2. Answered(s, y)
        BY <1>7
    <2> HIDE DEF y
    <2>3. WordKept(y, lines[s])
        BY <1>4, <1>7, <2>1 DEF WordKept
    <2>4. y.connectionType = "TCP" =>
              /\ SessionOrdered(y, m, lines[s])
              /\ \A id \in DOMAIN coreInstances : DueOrdered(s, y, m, lines[s], coreInstances[id])
        BY <1>4, <1>7, <1>d, <2>1, LineCollected
    <2> QED
        BY <2>1, <2>2, <2>3, <2>4, AnsweredOrder
<1>8. CASE ~queued /\ Answered(s, [x EXCEPT !.lineQueue = Append(@, n)])
    <2> DEFINE y == [x EXCEPT !.lineQueue = Append(@, n)]
    <2>1. /\ y.connectionType = x.connectionType /\ y.lineQueue = Append(x.lineQueue, n)
          /\ y.replies = x.replies /\ y.curCommand = x.curCommand
        BY <1>0 DEF SessionContext
    <2>2. Answered(s, y)
        BY <1>8
    <2> HIDE DEF y
    <2>3. WordKept(y, lines[s])
        BY <1>w, <2>1 DEF WordKept
    <2>4. NextLine(s, x, n, m, FALSE)
        BY <1>8
    <2>5. y.connectionType = "TCP" =>
              /\ SessionOrdered(y, m, lines[s])
              /\ \A id \in DOMAIN coreInstances : DueOrdered(s, y, m, lines[s], coreInstances[id])
        BY <2>1, <2>4, LineQueued
    <2> QED
        BY <2>1, <2>2, <2>3, <2>5, AnsweredOrder
<1>9. CASE /\ x.curCommand = NoCommand /\ ~MustWait(s, x, queued)
           /\ Flushable(ce) /\ ProcessCommand(s, x, ce, line)
    <2>1. ce.word = lines[s][ce.tag].word /\ ce.word \notin StopWords
        BY <1>1, <1>3 DEF line
    <2>2. ASSUME x.connectionType = "TCP"
          PROVE  Idle(s) /\ SessionOrdered(x, m, lines[s]) /\ MayReply(x, n, m, lines[s])
        BY <1>5, <1>9, <2>2, LineTaken
    <2>3. Ready(s, x, ce.tag, m)
        BY <1>3, <2>2 DEF Ready
    <2> QED
        BY <1>2, <1>3, <1>9, <2>1, <2>3, ExecutedOrder
<1>10. CASE /\ x.curCommand = NoCommand /\ ~MustWait(s, x, queued)
            /\ Answered(s, [x EXCEPT !.curCommand = ce])
    <2> DEFINE y == [x EXCEPT !.curCommand = ce]
    <2>1. /\ y.connectionType = x.connectionType /\ y.lineQueue = x.lineQueue /\ y.replies = x.replies
          /\ y.curCommand = ce
        BY <1>0 DEF SessionContext
    <2>2. Answered(s, y)
        BY <1>10
    <2> HIDE DEF y
    <2>3. WordKept(y, lines[s])
        BY <1>3, <2>1 DEF WordKept, line
    <2>4. y.connectionType = "TCP" =>
              /\ SessionOrdered(y, m, lines[s])
              /\ \A id \in DOMAIN coreInstances : DueOrdered(s, y, m, lines[s], coreInstances[id])
        BY <1>3, <1>5, <1>10, <1>d, <2>1, LineCollected
    <2> QED
        BY <2>1, <2>2, <2>3, <2>4, AnsweredOrder
<1> QED
    BY <1>4, <1>6, <1>7, <1>8, <1>9, <1>10 DEF LineFromClient, MustWait, ce, cur, line

(* A request is refused, or handled like a line.                            *)
LEMMA RequestOrdered ==
    ASSUME SessionPart, CorePart, FlightPart, OrderPart,
           NEW s \in DOMAIN sessionContexts, NEW m \in Nat, m <= Len(lines[s]), NEW n \in 1..m,
           SessionOK(s, sessionContexts[s], m, coreIDCounter),
           sessionContexts[s].connectionType # "TCP",
           LineFromHTTPClient(s, sessionContexts[s], n)
    PROVE  OrderHandled(s, m)
<1> DEFINE sc == sessionContexts[s]
           ce == NewCommand(s, n, lines[s][n].word, FALSE)
           y  == ForwardStatusline(sc, ce, FALSE)
<1>0. s \in SessionIDs /\ sc \in SessionContext /\ lines[s] \in Seq(CommandLine) /\ coreIDCounter \in Nat
      /\ WordKept(sc, lines[s])
    BY DEF SessionPart, SessionOK, CorePart, OrderPart
<1>1. lines[s][n] \in CommandLine /\ n \in Nat
    BY <1>0
<1>2. ce \in GivenCommand /\ ce.clientID = s
    BY <1>0, <1>1 DEF NewCommand, Entry, CommandLine, GivenCommand, Flushable
<1> HIDE DEF ce
<1>3. CASE Status(s, sc, ce)
    <2>1. SameInput(sc, y)
        BY <1>0, <1>2, Forwarding
    <2>2. Answered(s, y)
        BY <1>3 DEF Status
    <2> HIDE DEF y
    <2>3. y.connectionType = sc.connectionType /\ y.connectionType # "TCP" /\ WordKept(y, lines[s])
        BY <1>0, <2>1 DEF SameInput, WordKept
    <2> QED
        BY <2>2, <2>3, AnsweredOrder
<1>4. CASE LineFromClient(s, sc, n, FALSE)
    <2>1. NextLine(s, sc, n, m, FALSE)
        BY DEF NextLine
    <2> QED
        BY <1>4, <2>1, LineOrdered
<1>5. ASSUME NEW id \in FindNamedInstance(lines[s][n].core),
             LineFromClient(s, [sc EXCEPT !.coreID = id], n, FALSE)
      PROVE  OrderHandled(s, m)
    <2> DEFINE x == [sc EXCEPT !.coreID = id]
    <2>1. id \in Nat /\ id <= coreIDCounter
        BY DEF FindNamedInstance, CorePart
    <2>2. /\ x \in SessionContext /\ x.coreID = id /\ x.lineQueue = sc.lineQueue
          /\ x.curCommand = sc.curCommand /\ x.replies = sc.replies
          /\ x.connectionType = sc.connectionType
        BY <1>0, <2>1 DEF SessionContext
    <2>3. LineFromClient(s, x, n, FALSE)
        BY <1>5
    <2> HIDE DEF x
    <2>4. SessionOK(s, x, m, coreIDCounter) /\ x.connectionType # "TCP" /\ NextLine(s, x, n, m, FALSE)
        BY <2>1, <2>2 DEF SessionOK, NextLine
    <2> QED
        BY <2>2, <2>3, <2>4, LineOrdered
<1> QED
    BY <1>3, <1>4, <1>5 DEF LineFromHTTPClient, ce

-----------------------------------------------------------------------------
(* The server's own steps.                                                  *)
LEMMA ReadClientLineOrder ==
    ASSUME Parts, OrderPart, ReadClientLine
    PROVE  OrderPart'
<1>0. SessionPart /\ CorePart /\ FlightPart /\ LoopPart
    BY DEF Parts
<1>1. PICK s \in First(readyClients) :
          /\ Unread(s)
          /\ IF sessionContexts[s].connectionType = "HTTP"
             THEN LineFromHTTPClient(s, sessionContexts[s], linesRead[s] + 1)
             ELSE LineFromClient(s, sessionContexts[s], linesRead[s] + 1, FALSE)
          /\ linesRead' = [linesRead EXCEPT ![s] = linesRead[s] + 1]
          /\ UNCHANGED lines
    BY DEF ReadClientLine
<1>m. PICK m : m = linesRead[s]
    OBVIOUS
<1> DEFINE sc == sessionContexts[s]
           n  == m + 1
<1>2. /\ s \in DOMAIN sessionContexts /\ s \in SessionIDs
      /\ m \in Nat /\ SessionOK(s, sc, m, coreIDCounter)
      /\ lines[s] \in Seq(CommandLine) /\ coreIDCounter \in Nat
    BY <1>m, <1>0, <1>1 DEF First, LoopPart, SessionPart, CorePart
<1>3. n \in Nat /\ n \in 1..n /\ m <= n /\ n <= Len(lines[s])
    BY <1>m, <1>1, <1>2 DEF Unread
<1>4. SessionOK(s, sc, n, coreIDCounter) /\ sc \in SessionContext
    BY <1>2, <1>3, SessionOKMonotone DEF SessionOK
<1>5. SameOrdered(sc, sc) /\ \A k \in 1..m : lines[s][k] = lines[s][k]
    BY DEF SameOrdered, SameInput
<1>6. NextLine(s, sc, n, n, FALSE)
    <2> SUFFICES ASSUME sc.connectionType = "TCP"
                 PROVE  /\ SessionOrdered(sc, n, lines[s]) /\ RepliedBefore(sc, n)
                        /\ \A id \in DOMAIN coreInstances :
                               DueOrdered(s, sc, n, lines[s], coreInstances[id])
                        /\ \A i \in DOMAIN sc.lineQueue : sc.lineQueue[i] < n
                        /\ sc.curCommand # NoCommand => sc.curCommand.tag < n
                        /\ \A id \in DOMAIN coreInstances : \A ce \in Range(RepliesDue(coreInstances[id])) :
                               ce.clientID = s => ce.tag < n
        BY DEF NextLine
    <2>1. /\ SessionOrdered(sc, m, lines[s])
          /\ \A id \in DOMAIN coreInstances : DueOrdered(s, sc, m, lines[s], coreInstances[id])
        BY <1>m, <1>2 DEF OrderPart, Tcp
    <2>2. \A k \in 1..m : k < n
        BY <1>2
    <2>3. sc.lineQueue \in Seq(1..m) /\ (sc.curCommand # NoCommand => sc.curCommand.tag \in 1..m)
        BY <1>2 DEF SessionOK
    <2> HIDE DEF sc, n
    <2>4. \A i \in DOMAIN sc.lineQueue : sc.lineQueue[i] \in 1..m
        BY <1>2, <2>3
    <2>5. SessionOrdered(sc, n, lines[s])
        BY <1>2, <1>3, <1>4, <1>5, <2>1, SessionMonotone
    <2>6. RepliedBefore(sc, n)
        BY <2>1, <2>2 DEF SessionOrdered, InputOrdered, RepliedBefore
    <2>7. ASSUME NEW id \in DOMAIN coreInstances
          PROVE  DueOrdered(s, sc, n, lines[s], coreInstances[id])
        <3>1. OrderMove(coreInstances[id], coreInstances[id], {}) /\ \A ce \in {} : ce.clientID # s
            BY SameOrder
        <3>2. DueOrdered(s, sc, m, lines[s], coreInstances[id])
            BY <2>1
        <3> QED
            BY <1>2, <1>3, <1>5, <3>1, <3>2, DueMonotone
    <2>8. \A id \in DOMAIN coreInstances : \A ce \in Range(RepliesDue(coreInstances[id])) :
              ce.clientID = s => ce.tag < n
        BY <2>1, <2>2 DEF DueOrdered
    <2> QED
        BY <2>2, <2>3, <2>4, <2>5, <2>6, <2>7, <2>8
<1>7. OrderHandled(s, n)
    <2>1. CASE sc.connectionType = "HTTP"
        <3>1. LineFromHTTPClient(s, sc, n) /\ sc.connectionType # "TCP"
            BY <1>m, <1>1, <2>1
        <3> HIDE DEF n
        <3> QED
            BY <1>0, <1>2, <1>3, <1>4, <3>1, RequestOrdered
    <2>2. CASE sc.connectionType # "HTTP"
        <3>1. LineFromClient(s, sc, n, FALSE)
            BY <1>m, <1>1, <2>2
        <3> HIDE DEF n
        <3> QED
            BY <1>0, <1>2, <1>3, <1>4, <1>6, <3>1, LineOrdered
    <2> QED
        BY <2>1, <2>2
<1> HIDE DEF n
<1>8. linesRead' = [linesRead EXCEPT ![s] = n]
    BY <1>m, <1>1 DEF n
<1> QED
    BY <1>0, <1>1, <1>2, <1>3, <1>7, <1>8, LineOrderStep

LEMMA DrainLineOrder ==
    ASSUME Parts, OrderPart, DrainLine
    PROVE  OrderPart'
<1>0. SessionPart /\ CorePart /\ FlightPart /\ LoopPart
    BY DEF Parts
<1>s. PICK s : s = drained
    OBVIOUS
<1>m. PICK m : m = linesRead[s]
    OBVIOUS
<1> DEFINE sc == sessionContexts[s]
           x  == [sc EXCEPT !.lineQueue = Tail(@)]
           n  == Head(sc.lineQueue)
<1>1. /\ s = drained /\ s # NoClient /\ CanDrain(s) /\ LineFromClient(s, x, n, TRUE)
      /\ UNCHANGED <<lines, linesRead>>
    BY <1>s DEF DrainLine, clientVars
<1>2. /\ s \in DOMAIN sessionContexts /\ s \in SessionIDs /\ m \in Nat /\ m <= Len(lines[s])
      /\ SessionOK(s, sc, m, coreIDCounter)
      /\ linesRead \in [SessionIDs -> Nat]
    BY <1>m, <1>0, <1>1 DEF LoopPart, SessionPart
<1>3. sc.lineQueue \in Seq(1..m) /\ sc.lineQueue # <<>> /\ ~IsWaitingForCoreReply(s, sc)
    BY <1>1, <1>2 DEF SessionOK, CanDrain
<1>4. Tail(sc.lineQueue) \in Seq(1..m) /\ n \in 1..m /\ Tail(sc.lineQueue) \in Seq(Nat)
    BY <1>2, <1>3 DEF SessionOK, SessionContext
<1>5. /\ SessionOK(s, x, m, coreIDCounter) /\ x.connectionType = sc.connectionType
      /\ x.curCommand = sc.curCommand /\ x.coreID = sc.coreID /\ x.replies = sc.replies
      /\ x.lineQueue = Tail(sc.lineQueue) /\ sc.curCommand = NoCommand
    BY <1>2, <1>3, <1>4 DEF SessionOK, SessionContext, IsWaitingForCoreReply
<1>6. /\ 1 \in DOMAIN sc.lineQueue /\ n = sc.lineQueue[1]
      /\ \A i \in DOMAIN Tail(sc.lineQueue) :
            /\ i + 1 \in DOMAIN sc.lineQueue /\ Tail(sc.lineQueue)[i] = sc.lineQueue[i + 1] /\ 1 < i + 1
            /\ i \in Int
    BY <1>3
<1> HIDE DEF x, n
<1>7. NextLine(s, x, n, m, TRUE)
    <2> SUFFICES ASSUME x.connectionType = "TCP"
                 PROVE  /\ SessionOrdered(x, m, lines[s]) /\ RepliedBefore(x, n)
                        /\ \A id \in DOMAIN coreInstances : DueOrdered(s, x, m, lines[s], coreInstances[id])
                        /\ QueuedAfter(x, n)
        BY DEF NextLine
    <2>1. /\ SessionOrdered(sc, m, lines[s])
          /\ \A id \in DOMAIN coreInstances : DueOrdered(s, sc, m, lines[s], coreInstances[id])
        BY <1>m, <1>2, <1>5 DEF OrderPart, Tcp
    <2> HIDE DEF sc
    <2>2. Ascending(sc.replies, lines[s]) /\ InputOrdered(sc, m)
        BY <2>1 DEF SessionOrdered
    <2>3. RepliedBefore(x, n)
        BY <1>5, <1>6, <2>2 DEF InputOrdered, RepliedBefore
    <2>4. \A i, j \in DOMAIN sc.lineQueue : i < j => sc.lineQueue[i] < sc.lineQueue[j]
        BY <2>2 DEF InputOrdered
    <2>5. QueuedAfter(x, n)
        BY <1>5, <1>6, <2>4 DEF QueuedAfter
    <2>6. InputOrdered(x, m)
        <3>1. \A i \in DOMAIN x.replies : x.replies[i].tag \in 1..m
            BY <1>5, <2>2 DEF InputOrdered
        <3>2. \A i \in DOMAIN x.lineQueue : RepliedBefore(x, x.lineQueue[i])
            BY <1>5, <1>6, <2>2 DEF InputOrdered, RepliedBefore
        <3>3. \A i, j \in DOMAIN x.lineQueue : i < j => x.lineQueue[i] < x.lineQueue[j]
            BY <1>5, <1>6, <2>4
        <3> QED
            BY <1>5, <3>1, <3>2, <3>3 DEF InputOrdered
    <2>7. ASSUME NEW id \in DOMAIN coreInstances PROVE DueOrdered(s, x, m, lines[s], coreInstances[id])
        <3>1. DueOrdered(s, sc, m, lines[s], coreInstances[id])
            BY <2>1
        <3>2. \A k : QueuedAfter(sc, k) => QueuedAfter(x, k)
            BY <1>5, <1>6 DEF QueuedAfter
        <3> QED
            BY <1>5, <3>1, <3>2 DEF DueOrdered, NotYetReplied
    <2> QED
        BY <1>5, <2>2, <2>3, <2>5, <2>6, <2>7 DEF SessionOrdered
<1>8. OrderHandled(s, m)
    BY <1>0, <1>1, <1>2, <1>3, <1>4, <1>5, <1>7, LineOrdered
<1>9. linesRead' = [linesRead EXCEPT ![s] = m]
    BY <1>m, <1>1, <1>2
<1> QED
    BY <1>0, <1>1, <1>2, <1>8, <1>9, LineOrderStep

(* The status line a core sends is the next the session is to see.          *)
LEMMA ReadCoreLineOrder ==
    ASSUME Parts, OrderPart, ReadCoreLine
    PROVE  OrderPart'
<1>0. SessionPart /\ CorePart /\ FlightPart /\ LoopPart
    BY DEF Parts
<1>1. PICK id \in First(readyCores) :
          /\ coreInstances[id].fromCore # <<>>
          /\ coreInstances' = [coreInstances EXCEPT ![id] = LineFromCore(coreInstances[id])]
          /\ LET c    == coreInstances[id]
                 line == Head(c.fromCore)
                 s    == c.lastClientID
             IN IF FindClient(s)
                THEN sessionContexts' = [sessionContexts EXCEPT ![s] =
                        CASE ForwardAs(c) = "status" -> ForwardStatusline(@, line.cmd, line.colon)
                          [] ForwardAs(c) = "data"   -> ForwardDataset(@, line.blank)
                          [] OTHER                   -> @]
                ELSE UNCHANGED sessionContexts
    <2>1. \E id \in First(readyCores) :
              /\ coreInstances[id].fromCore # <<>>
              /\ coreInstances' = [coreInstances EXCEPT ![id] = LineFromCore(coreInstances[id])]
              /\ LET c    == coreInstances[id]
                     line == Head(c.fromCore)
                     s    == c.lastClientID
                 IN IF FindClient(s)
                    THEN sessionContexts' = [sessionContexts EXCEPT ![s] =
                            CASE ForwardAs(c) = "status" -> ForwardStatusline(@, line.cmd, line.colon)
                              [] ForwardAs(c) = "data"   -> ForwardDataset(@, line.blank)
                              [] OTHER                   -> @]
                    ELSE UNCHANGED sessionContexts
        BY DEF ReadCoreLine
    <2> QED
        BY <2>1
<1>c. PICK c : c = coreInstances[id]
    OBVIOUS
<1>d. PICK d : d = LineFromCore(c)
    OBVIOUS
<1> DEFINE line == Head(c.fromCore)
           s    == c.lastClientID
           ce   == line.cmd
           sc   == sessionContexts[s]
           a    == ForwardStatusline(sc, ce, line.colon)
           b    == ForwardDataset(sc, line.blank)
<1>2. UNCHANGED <<lines, linesRead>>
    BY DEF ReadCoreLine, clientVars
<1>3. id \in DOMAIN coreInstances /\ id \in RunningCores /\ WF(c)
    BY <1>c, <1>0, <1>1 DEF First, LoopPart, CorePart, OrderPart, RunningCores
<1>4. /\ ce \in GivenCommand /\ ce.clientID = s
      /\ line.colon \in BOOLEAN /\ line.blank \in BOOLEAN
    BY <1>c, <1>1, <1>3, ReadQuieter
<1>5. /\ OrderMove(c, d, {}) /\ ce \in Range(RepliesDue(c))
      /\ c.expectingReply => ce \in Coming(c)
      /\ OnceDue(c, s) => \A e \in Coming(d) : e.clientID # s
    BY <1>c, <1>d, <1>1, <1>3, <1>4, ReadOrder
<1>6. /\ DOMAIN coreInstances' = DOMAIN coreInstances /\ coreInstances'[id] = d
      /\ \A x \in DOMAIN coreInstances : x # id => coreInstances'[x] = coreInstances[x]
    BY <1>c, <1>d, <1>1, <1>3
<1>7. \A x \in DOMAIN coreInstances : OrderMove(coreInstances[x], coreInstances'[x], {})
    <2> SUFFICES ASSUME NEW x \in DOMAIN coreInstances PROVE OrderMove(coreInstances[x], coreInstances'[x], {})
        OBVIOUS
    <2>1. CASE x = id
        BY <1>c, <1>5, <1>6, <2>1
    <2>2. CASE x # id
        BY <1>6, <2>2, SameOrder
    <2> QED
        BY <2>1, <2>2
<1> HIDE DEF line, ce
<1>8. FindClient(s) =>
          sessionContexts' = [sessionContexts EXCEPT ![s] =
                                 CASE ForwardAs(c) = "status" -> a [] ForwardAs(c) = "data" -> b [] OTHER -> sc]
    BY <1>c, <1>1 DEF line, ce
<1>9. FindClient(s) => /\ s \in DOMAIN sessionContexts /\ s \in SessionIDs /\ linesRead[s] \in Nat
                       /\ SessionOK(s, sc, linesRead[s], coreIDCounter) /\ sc \in SessionContext
    BY <1>0, SessionsStay DEF FindClient, SessionOK
<1>10. CASE FindClient(s) /\ c.expectingReply
    <2>m. PICK m : m = linesRead[s]
        OBVIOUS
    <2>1. /\ s \in DOMAIN sessionContexts /\ s \in SessionIDs /\ m \in Nat
          /\ SessionOK(s, sc, m, coreIDCounter) /\ sc \in SessionContext
          /\ sc.lineQueue \in Seq(1..m)
        BY <1>9, <1>10, <2>m DEF SessionOK
    <2>2. Becomes(s, a)
        BY <1>8, <1>10 DEF Becomes, ForwardAs
    <2>3. a \in SessionContext /\ SameInput(sc, a) /\ a.replies = Once(sc, ce)
        BY <1>4, <2>1, Forwarding
    <2> HIDE DEF a
    <2>4. ASSUME sc.connectionType = "TCP"
          PROVE  /\ SessionOrdered(a, m, lines[s])
                 /\ \A x \in DOMAIN coreInstances : DueOrdered(s, a, m, lines[s], coreInstances'[x])
        <3>1. s \in Tcp /\ SessionOrdered(sc, m, lines[s]) /\ DueOrdered(s, sc, m, lines[s], c)
            BY <1>c, <1>3, <2>m, <2>1, <2>4 DEF Tcp, OrderPart
        <3>2. DueTo(c, s)
            BY <1>4, <1>5 DEF DueTo, Range
        <3>3. sc.coreID = id /\ sc.curCommand = NoCommand /\ OnceDue(c, s)
            BY <1>c, <1>0, <1>3, <3>1, <3>2 DEF FlightPart
        <3>4. MayReply(sc, ce.tag, m, lines[s])
            BY <1>4, <1>5, <1>10, <3>1, <3>3 DEF MayReply, DueOrdered
        <3>5. SessionOrdered(a, m, lines[s])
            BY <1>4, <2>1, <2>3, <3>1, <3>4, ReplySent
        <3>6. DueOrdered(s, a, m, lines[s], d)
            <4>1. \A e \in Coming(d) : e.clientID # s
                BY <1>5, <3>3
            <4>2. \A e \in Range(RepliesDue(d)) : e \in Range(RepliesDue(c))
                BY <1>5 DEF OrderMove
            <4>3. \A k : QueuedAfter(sc, k) => QueuedAfter(a, k)
                BY <2>3 DEF SameInput, QueuedAfter
            <4> QED
                BY <3>1, <4>1, <4>2, <4>3 DEF DueOrdered
        <3>7. ASSUME NEW x \in DOMAIN coreInstances, x # id
              PROVE  DueOrdered(s, a, m, lines[s], coreInstances'[x])
            <4>1. x \in RunningCores
                BY DEF OrderPart, RunningCores
            <4>2. ~DueTo(coreInstances[x], s)
                BY <1>0, <3>1, <3>3, <3>7, <4>1 DEF FlightPart
            <4>3. OrderMove(coreInstances[x], coreInstances'[x], {})
                  /\ \A e \in {} : e.clientID = s => MayReply(a, e.tag, m, lines[s])
                BY <1>7
            <4> QED
                BY <4>2, <4>3, OnlyDue
        <3> QED
            BY <1>6, <3>5, <3>6, <3>7
    <2>5. CoresGiven(s)
        <3>1. \A e \in {} : e.clientID = s
            OBVIOUS
        <3> QED
            BY <1>6, <1>7, <3>1 DEF CoresGiven
    <2>6. WordKept(a, lines[s]) /\ a.connectionType = sc.connectionType
        <3>1. WordKept(sc, lines[s])
            BY <2>1 DEF OrderPart
        <3> QED
            BY <2>3, <3>1 DEF WordKept, SameInput
    <2>7. OrderHandled(s, m)
        BY <1>6, <2>2, <2>4, <2>5, <2>6 DEF OrderHandled
    <2>8. linesRead' = [linesRead EXCEPT ![s] = m]
        BY <1>0, <1>2, <2>m, <2>1 DEF SessionPart
    <2> QED
        BY <1>0, <1>2, <2>1, <2>7, <2>8, LineOrderStep
<1>11. CASE ~(FindClient(s) /\ c.expectingReply)
    <2>1. ASSUME NEW t \in DOMAIN sessionContexts'
          PROVE  /\ t \in DOMAIN sessionContexts
                 /\ SameOrdered(sessionContexts[t], sessionContexts'[t])
        <3>1. CASE ~FindClient(s)
            BY <1>c, <1>1, <3>1 DEF SameOrdered, SameInput
        <3>2. CASE FindClient(s)
            <4>1. sessionContexts' = [sessionContexts EXCEPT ![s] = IF ForwardAs(c) = "data" THEN b ELSE sc]
                BY <1>8, <1>11, <3>2 DEF ForwardAs
            <4>2. SameOrdered(sc, b)
                BY <1>4, <1>9, <3>2, Forwarding DEF SameOrdered
            <4>3. \A x : SameOrdered(x, x)
                BY DEF SameOrdered, SameInput
            <4> HIDE DEF b, sc
            <4> QED
                BY <1>9, <3>2, <4>1, <4>2, <4>3 DEF sc
        <3> QED
            BY <3>1, <3>2
    <2>2. LinesSpare'
        BY <1>2 DEF OrderPart, LinesSpare
    <2>3. \A x \in DOMAIN coreInstances' :
              x \in DOMAIN coreInstances /\ OrderMove(coreInstances[x], coreInstances'[x], {})
        BY <1>6, <1>7
    <2> QED
        BY <1>0, <1>2, <2>1, <2>2, <2>3, OrderStays
<1> QED
    BY <1>10, <1>11

(* The steps that send a session nothing and give no core a command.        *)
LEMMA QuietlyOrdered ==
    ASSUME SessionPart, OrderPart, UNCHANGED <<lines, linesRead>>,
           \A id \in DOMAIN coreInstances' :
               id \in DOMAIN coreInstances /\ OrderMove(coreInstances[id], coreInstances'[id], {}),
           \A s \in DOMAIN sessionContexts' :
               s \in DOMAIN sessionContexts /\ SameOrdered(sessionContexts[s], sessionContexts'[s])
    PROVE  OrderPart'
<1>1. LinesSpare'
    BY DEF OrderPart, LinesSpare
<1> QED
    BY <1>1, OrderStays

LEMMA NothingSame ==
    /\ \A sc : SameOrdered(sc, sc)
    /\ \A c : OrderMove(c, c, {})
BY SameOrder DEF SameOrdered, SameInput

LEMMA LoopTopOrder ==
    ASSUME Parts, OrderPart, LoopTop
    PROVE  OrderPart'
<1>0. SessionPart /\ CorePart
    BY DEF Parts
<1>1. /\ sessionContexts' = [s \in DOMAIN sessionContexts \ clientsToRemove |-> sessionContexts[s]]
      /\ coreInstances' = [id \in DOMAIN coreInstances |-> FlushCommandQ(coreInstances[id])]
      /\ UNCHANGED <<lines, linesRead>>
    BY DEF LoopTop, FlushAll, Restrict, clientVars
<1>2. \A id \in DOMAIN coreInstances' :
          id \in DOMAIN coreInstances /\ OrderMove(coreInstances[id], coreInstances'[id], {})
    BY <1>0, <1>1, QuietOrder DEF CorePart
<1>3. \A s \in DOMAIN sessionContexts' :
          s \in DOMAIN sessionContexts /\ SameOrdered(sessionContexts[s], sessionContexts'[s])
    BY <1>1, NothingSame
<1> QED
    BY <1>0, <1>1, <1>2, <1>3, QuietlyOrdered

LEMMA EndIterationOrder ==
    ASSUME Parts, OrderPart, EndIteration
    PROVE  OrderPart'
<1>0. SessionPart /\ CorePart
    BY DEF Parts
<1>1. PICK done : sessionContexts' = [s \in DOMAIN sessionContexts |->
                                         [sessionContexts[s] EXCEPT !.shutdown = @ \/ s \in done]]
    BY DEF EndIteration
<1>2. /\ coreInstances' = [id \in DOMAIN coreInstances \ coresToRemove |-> coreInstances[id]]
      /\ UNCHANGED <<lines, linesRead>>
    BY DEF EndIteration, Restrict, clientVars
<1>3. \A id \in DOMAIN coreInstances' :
          id \in DOMAIN coreInstances /\ OrderMove(coreInstances[id], coreInstances'[id], {})
    BY <1>2, NothingSame
<1>4. ASSUME NEW s \in DOMAIN sessionContexts'
      PROVE  s \in DOMAIN sessionContexts /\ SameOrdered(sessionContexts[s], sessionContexts'[s])
    <2>1. s \in DOMAIN sessionContexts /\ sessionContexts[s] \in SessionContext
        BY <1>0, <1>1, SessionsStay DEF SessionOK
    <2> QED
        BY <1>1, <2>1 DEF SessionContext, SameOrdered, SameInput
<1> QED
    BY <1>0, <1>2, <1>3, <1>4, QuietlyOrdered

LEMMA FlushSessionOrder ==
    ASSUME Parts, OrderPart, NEW s \in SessionIDs, FlushSession(s)
    PROVE  OrderPart'
<1>0. SessionPart /\ CorePart
    BY DEF Parts
<1>1. /\ s \in DOMAIN sessionContexts
      /\ sessionContexts' = [sessionContexts EXCEPT ![s] = [@ EXCEPT !.writeBufferEmpty = TRUE]]
      /\ UNCHANGED <<coreInstances, lines, linesRead>>
    BY DEF FlushSession, clientVars
<1>2. SameOrdered(sessionContexts[s], [sessionContexts[s] EXCEPT !.writeBufferEmpty = TRUE])
    <2>1. sessionContexts[s] \in SessionContext
        BY <1>0, <1>1, SessionsStay DEF SessionOK
    <2> QED
        BY <2>1 DEF SessionContext, SameOrdered, SameInput
<1>3. \A t \in DOMAIN sessionContexts' :
          t \in DOMAIN sessionContexts /\ SameOrdered(sessionContexts[t], sessionContexts'[t])
    BY <1>1, <1>2, NothingSame
<1> QED
    BY <1>0, <1>1, <1>3, NothingSame, QuietlyOrdered

LEMMA CoreStepOrder ==
    ASSUME Parts, OrderPart, NEW id \in DOMAIN coreInstances,
           CoreAnswers(id) \/ CoreContinues(id, TRUE) \/ CoreContinues(id, FALSE) \/ CoreExits(id)
    PROVE  OrderPart'
<1>0. SessionPart /\ CorePart
    BY DEF Parts
<1>1. /\ OrderMove(coreInstances[id], Exit(coreInstances[id]), {})
      /\ \A b \in BOOLEAN :
            /\ CanAnswer(coreInstances[id]) => OrderMove(coreInstances[id], Answer(coreInstances[id], b), {})
            /\ CanContinue(coreInstances[id]) => OrderMove(coreInstances[id], Continue(coreInstances[id], b), {})
    BY <1>0, QuietOrder DEF CorePart
<1>2. PICK d : OrderMove(coreInstances[id], d, {}) /\ CoreStep(id, d)
    BY <1>1 DEF CoreAnswers, CoreContinues, CoreExits
<1>3. /\ coreInstances' = [coreInstances EXCEPT ![id] = d]
      /\ UNCHANGED <<sessionContexts, lines, linesRead>>
    BY <1>2 DEF CoreStep, clientVars
<1>4. \A x \in DOMAIN coreInstances' :
          x \in DOMAIN coreInstances /\ OrderMove(coreInstances[x], coreInstances'[x], {})
    BY <1>2, <1>3, NothingSame
<1> QED
    BY <1>0, <1>3, <1>4, NothingSame, QuietlyOrdered

\* Nothing that the order depends on changes, except that sessions may go.
Untouched ==
    /\ UNCHANGED <<coreInstances, lines, linesRead>>
    /\ \A s \in DOMAIN sessionContexts' :
          s \in DOMAIN sessionContexts /\ sessionContexts'[s] = sessionContexts[s]

LEMMA UntouchedOrder ==
    ASSUME Parts, OrderPart, Untouched
    PROVE  OrderPart'
BY NothingSame, QuietlyOrdered DEF Parts, Untouched

LEMMA UntouchedSteps ==
    /\ Dispatch \/ ReadClientEOF \/ DrainDone \/ ReadCoreEOF => Untouched
    /\ \A s \in SessionIDs : WriteFailed(s) \/ ClientCloses(s) => Untouched
    /\ UNCHANGED vars => Untouched
<1>1. Dispatch => Untouched
    BY DEF Dispatch, Untouched, serverVars, clientVars
<1>2. ReadClientEOF => Untouched
    BY DEF ReadClientEOF, Restrict, Untouched, clientVars
<1>3. DrainDone \/ ReadCoreEOF => Untouched
    BY DEF DrainDone, ReadCoreEOF, Untouched, serverVars, clientVars
<1>4. \A s \in SessionIDs : WriteFailed(s) \/ ClientCloses(s) => Untouched
    BY DEF WriteFailed, ClientCloses, Untouched, serverVars, clientVars
<1>5. UNCHANGED vars => Untouched
    BY DEF vars, Untouched, serverVars, clientVars
<1> QED
    BY <1>1, <1>2, <1>3, <1>4, <1>5

-----------------------------------------------------------------------------
(* The steps of the clients.  A new session has read nothing and is owed    *)
(* nothing.                                                                 *)
LEMMA ConnectOrder ==
    ASSUME Parts, OrderPart, NEW connectionType \in ConnectionTypes, Connect(connectionType)
    PROVE  OrderPart'
<1>0. SessionPart /\ CorePart
    BY DEF Parts
<1>p. PICK s : s = sessionIDCounter + 1
    OBVIOUS
<1>n. PICK new : new = NewSession(connectionType)
    OBVIOUS
<1>1. /\ s \in SessionIDs
      /\ sessionContexts' = [x \in DOMAIN sessionContexts \union {s} |->
                                IF x = s THEN new ELSE sessionContexts[x]]
      /\ UNCHANGED <<coreInstances, lines, linesRead>>
    BY <1>p, <1>n DEF Connect, clientVars
<1>2. new.replies = <<>> /\ new.lineQueue = <<>> /\ new.curCommand = NoCommand
    BY <1>n DEF NewSession
<1>3. WordKept(new, lines[s])
    BY <1>2 DEF WordKept
<1>4. SessionOrdered(new, linesRead[s], lines[s])
    <2>1. DOMAIN <<>> = {} /\ Len(<<>>) = 0 /\ 1..0 - 1 = {}
        OBVIOUS
    <2>2. Ascending(new.replies, lines[s])
        BY <1>2, <2>1 DEF Ascending
    <2>3. InputOrdered(new, linesRead[s])
        BY <1>2, <2>1 DEF InputOrdered
    <2> QED
        BY <2>2, <2>3 DEF SessionOrdered
<1>5. ASSUME NEW id \in DOMAIN coreInstances
      PROVE  DueOrdered(s, new, linesRead[s], lines[s], coreInstances[id])
    <2>1. ~DueTo(coreInstances[id], s)
        BY <1>0, <1>p DEF CorePart, SessionPart
    <2>2. OrderMove(coreInstances[id], coreInstances[id], {})
          /\ \A ce \in {} : ce.clientID = s => MayReply(new, ce.tag, linesRead[s], lines[s])
        BY NothingSame
    <2> QED
        BY <2>1, <2>2, OnlyDue
<1>6. LinesSpare'
    BY <1>1 DEF OrderPart, LinesSpare
<1>7. \A t \in DOMAIN sessionContexts' : WordKept(sessionContexts'[t], lines'[t])
    BY <1>1, <1>3 DEF OrderPart
<1>8. ASSUME NEW t \in Tcp'
      PROVE  /\ SessionOrdered(sessionContexts'[t], linesRead'[t], lines'[t])
             /\ \A id \in DOMAIN coreInstances' :
                    DueOrdered(t, sessionContexts'[t], linesRead'[t], lines'[t], coreInstances'[id])
    <2>1. CASE t = s
        BY <1>1, <1>4, <1>5, <2>1
    <2>2. CASE t # s
        <3>1. t \in Tcp /\ sessionContexts'[t] = sessionContexts[t]
            BY <1>1, <2>2 DEF Tcp
        <3> QED
            BY <1>1, <3>1 DEF OrderPart
    <2> QED
        BY <2>1, <2>2
<1> QED
    BY <1>1, <1>6, <1>7, <1>8 DEF OrderPart

LEMMA ClientSendsOrder ==
    ASSUME NoTermination, Parts, OrderPart, NEW s \in SessionIDs, ClientSends(s)
    PROVE  OrderPart'
<1>0. SessionPart /\ CorePart
    BY DEF Parts
<1>1. PICK line \in Lines[s] \union Requests[s] : lines' = [lines EXCEPT ![s] = Append(@, line)]
    BY DEF ClientSends
<1>2. UNCHANGED <<sessionContexts, coreInstances, linesRead>>
    BY DEF ClientSends, serverVars
<1>3. line.word \notin StopWords
    BY DEF NoTermination, StopWords
<1>4. /\ lines[s] \in Seq(CommandLine) /\ lines \in [SessionIDs -> Seq(CommandLine)]
      /\ linesRead \in [SessionIDs -> Nat] /\ \A t \in SessionIDs : linesRead[t] <= Len(lines[t])
    BY <1>0 DEF SessionPart
<1>5. /\ \A n \in 1..Len(lines[s]) : Append(lines[s], line)[n] = lines[s][n]
      /\ \A n \in DOMAIN Append(lines[s], line) :
            (n \in DOMAIN lines[s] /\ Append(lines[s], line)[n] = lines[s][n]) \/ Append(lines[s], line)[n] = line
    BY <1>4
<1>6. \A t \in SessionIDs : lines'[t] = IF t = s THEN Append(lines[s], line) ELSE lines[t]
    BY <1>1, <1>4
<1>7. LinesSpare'
    BY <1>3, <1>5, <1>6 DEF OrderPart, LinesSpare
<1>8. ASSUME NEW t \in SessionIDs, NEW n \in 1..linesRead[t] PROVE lines'[t][n] = lines[t][n]
    <2>1. CASE t = s
        <3>1. n \in 1..Len(lines[s])
            BY <1>4, <2>1
        <3> QED
            BY <1>5, <1>6, <2>1, <3>1
    <2>2. CASE t # s
        BY <1>6, <2>2
    <2> QED
        BY <2>1, <2>2
<1> QED
    BY <1>0, <1>2, <1>7, <1>8, NothingSame, OrderStays

-----------------------------------------------------------------------------
LEMMA InitOrder == Init => OrderInv
<1> SUFFICES ASSUME Init PROVE OrderPart
    BY OrderParts
<1>1. DOMAIN <<>> = {}
    OBVIOUS
<1>2. DOMAIN sessionContexts = {} /\ DOMAIN coreInstances = {}
    BY <1>1 DEF Init
<1>3. lines = [s \in SessionIDs |-> <<>>]
    BY DEF Init
<1>4. LinesSpare
    BY <1>1, <1>3 DEF LinesSpare
<1> QED
    BY <1>2, <1>4 DEF OrderPart, Tcp

LEMMA StepOrder ==
    ASSUME NoTermination, Inv, OrderInv, [Next]_vars
    PROVE  OrderInv'
<1>0. Parts /\ OrderPart
    BY InvParts, OrderParts
<1>1. ASSUME ServerStep PROVE OrderPart'
    BY <1>0, <1>1, LoopTopOrder, ReadClientLineOrder, ReadCoreLineOrder, DrainLineOrder, EndIterationOrder,
       UntouchedSteps, UntouchedOrder
    DEF ServerStep
<1>2. ASSUME NEW s \in SessionIDs,
             FlushSession(s) \/ WriteFailed(s) \/ ClientSends(s) \/ ClientCloses(s)
      PROVE  OrderPart'
    BY <1>0, <1>2, FlushSessionOrder, ClientSendsOrder, UntouchedSteps, UntouchedOrder
<1>3. ASSUME NEW connectionType \in ConnectionTypes, Connect(connectionType) PROVE OrderPart'
    BY <1>0, <1>3, ConnectOrder
<1>4. ASSUME NEW id \in CoreIDs,
             CoreAnswers(id) \/ CoreContinues(id, TRUE) \/ CoreContinues(id, FALSE) \/ CoreExits(id)
      PROVE  OrderPart'
    BY <1>0, <1>4, CoreStepOrder DEF CoreIDs
<1>5. ASSUME UNCHANGED vars PROVE OrderPart'
    BY <1>0, <1>5, UntouchedSteps, UntouchedOrder
<1>6. OrderPart'
    BY <1>1, <1>2, <1>3, <1>4, <1>5 DEF Next
<1>7. OrderInv' <=> OrderPart'
    BY OrderParts, PTL
<1> QED
    BY <1>6, <1>7

(* While no client sends drop-graph or shutdown, a session always has the   *)
(* lines it has read in order: the ones answered, then the one it collects  *)
(* or waits for, then the queued ones.                                      *)
THEOREM OrderInvariance == ASSUME NoTermination PROVE Spec => []OrderInv
<1>1. Inv /\ OrderInv /\ [Next]_vars => OrderInv'
    BY StepOrder
<1> QED
    BY <1>1, InitOrder, Invariance, PTL DEF Spec

(* So every TCP client is sent the replies to its commands in the order in  *)
(* which it sent them, and once each but for help, however many sessions    *)
(* share however many cores, and also when cores fail.                      *)
THEOREM RepliesStayInOrder == ASSUME NoTermination PROVE Spec => []RepliesInOrder
<1>1. OrderInv => RepliesInOrder
    BY DEF OrderInv
<1> QED
    BY <1>1, OrderInvariance, PTL

=============================================================================
