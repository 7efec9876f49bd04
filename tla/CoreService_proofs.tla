------------------------- MODULE CoreService_proofs -------------------------
(***************************************************************************)
(* Proofs about CoreService for any number of clients and commands, any     *)
(* pipe capacity and both main loops.  The lemmas of CoreInstance_proofs    *)
(* say what each operator does to a core; the invariance proof then has one *)
(* short step per action.                                                   *)
(***************************************************************************)
EXTENDS CoreService, CoreInstance_proofs

WellFormedCore(c) == WellFormed({"g"}, Clients, Command, c)

USE DEF WellFormedCore

-----------------------------------------------------------------------------
(* The complete command built for forwardToCore is a command.               *)
LEMMA CompleteType ==
    ASSUME NEW cl \in Clients, NEW n \in Nat, NEW w \in {"command", "shutdown"}, NEW b \in BOOLEAN
    PROVE  /\ Complete(cl, n, w, b) \in Command
           /\ Complete(cl, n, w, b).clientID = cl
           /\ Complete(cl, n, w, b).tag = n
<1>1. << >> \in Seq(Nat)
    OBVIOUS
<1> QED
    BY <1>1 DEF Complete, Command

(* Giving a command, also one that ends the core: the core stays well      *)
(* formed and owes one reply more.                                          *)
LEMMA GiveEffect ==
    ASSUME WellFormedCore(core), sent \in [Clients -> Nat],
           NEW cl \in Clients, NEW w \in {"command", "shutdown"}, NEW b \in BOOLEAN,
           Give(cl, w, b)
    PROVE  /\ WellFormedCore(core')
           /\ Due' = Append(Due, Complete(cl, sent[cl] + 1, w, b))
           /\ Due \in Seq(Command)
           /\ Complete(cl, sent[cl] + 1, w, b) \in Command
<1> DEFINE ce == Complete(cl, sent[cl] + 1, w, b)
           q == QueueCommand(core, ce)
           f == FlushCommandQ(q)
<1>1. ce \in Command
    BY CompleteType
<1>2. WellFormedCore(q)
    BY <1>1, QueueWellFormed
<1>3. WellFormedCore(f)
    BY <1>2, FlushWellFormed
<1>4. RepliesDue(f) = Append(Due, ce)
    <2> HIDE DEF ce
    <2>1. RepliesDue(q) = Append(Due, ce)
        BY <1>1, QueueDue DEF Due
    <2>2. RepliesDue(f) = RepliesDue(q)
        BY <1>2, FlushDue
    <2> QED
        BY <2>1, <2>2
<1>5. WellFormedCore(NotRunning(f))
    BY <1>3, NotRunningWellFormed
<1>6. RepliesDue(NotRunning(f)) = RepliesDue(f)
    BY <1>3, QuietDue
<1>7. Due \in Seq(Command)
    BY RepliesDueType DEF Due
<1>8. core' = f \/ core' = NotRunning(f)
    BY DEF Give
<1> QED
    BY <1>1, <1>3, <1>4, <1>5, <1>6, <1>7, <1>8 DEF Due

-----------------------------------------------------------------------------
(* The invariant holds initially ...                                        *)
LEMMA InitInv == Init => Inv
<1> SUFFICES ASSUME Init PROVE Inv
    OBVIOUS
<1>1. WellFormedCore(core)
    BY StartWellFormed DEF Init, Command
<1>2. TypeOK
    <2>1. core \in Core
        BY <1>1 DEF WellFormed, Core
    <2>2. sent \in [Clients -> Nat] /\ served \in Seq(Command)
        BY DEF Init
    <2> QED
        BY <2>1, <2>2 DEF TypeOK, Init
<1> QED
    BY <1>1, <1>2 DEF WellFormed, Inv

(* ... and every step keeps it.                                             *)
LEMMA NextInv == Inv /\ [Next]_vars => Inv'
<1> SUFFICES ASSUME Inv, [Next]_vars PROVE Inv'
    OBVIOUS
<1>w. WellFormedCore(core)
    BY DEF Inv, TypeOK, WellFormed, Core, Command
<1>t. /\ connected \subseteq Clients /\ sent \in [Clients -> Nat]
      /\ served \in Seq(Command) /\ removed \in BOOLEAN
    BY DEF Inv, TypeOK
<1> SUFFICES /\ WellFormedCore(core')
             /\ connected' \subseteq Clients /\ sent' \in [Clients -> Nat]
             /\ served' \in Seq(Command) /\ removed' \in BOOLEAN
    BY DEF Inv, TypeOK, WellFormed, Core, Command
<1>1. ASSUME NEW cl \in Clients, NEW w \in {"command", "shutdown"}, NEW b \in BOOLEAN,
             Give(cl, w, b)
      PROVE  WellFormedCore(core') /\ sent' \in [Clients -> Nat]
             /\ UNCHANGED <<connected, served, removed>>
    <2>1. WellFormedCore(core')
        BY <1>w, <1>t, <1>1, GiveEffect
    <2>2. sent' = [sent EXCEPT ![cl] = @ + 1] /\ UNCHANGED <<connected, served, removed>>
        BY <1>1 DEF Give
    <2>3. sent' \in [Clients -> Nat]
        BY <1>t, <2>2
    <2> QED
        BY <2>1, <2>2, <2>3
<1>2. ASSUME NEW cl \in Clients, Submit(cl) PROVE WellFormedCore(core') /\ sent' \in [Clients -> Nat]
             /\ UNCHANGED <<connected, served, removed>>
    BY <1>1, <1>2 DEF Submit
<1>3. ASSUME NEW cl \in Clients, Shutdown(cl) PROVE WellFormedCore(core') /\ sent' \in [Clients -> Nat]
             /\ UNCHANGED <<connected, served, removed>>
    BY <1>1, <1>3 DEF Shutdown
<1>4. ASSUME NEW cl \in Clients, Disconnect(cl)
      PROVE  connected' \subseteq Clients /\ UNCHANGED <<core, sent, served, removed>>
    BY <1>t, <1>4 DEF Disconnect
<1>5. CASE LoopTop
    BY <1>w, <1>t, <1>5, FlushWellFormed DEF LoopTop
<1>6. CASE Drop
    BY <1>w, <1>t, <1>6, TerminateWellFormed DEF Drop
<1>7. CASE ReadLine
    <2>1. WellFormedCore(core')
        BY <1>w, <1>7, ReadWellFormed DEF ReadLine
    <2>2. Head(core.fromCore).cmd \in Command
        <3>1. core.fromCore \in Seq(OutputLines(Command)) /\ core.fromCore # <<>>
            BY <1>w, <1>7 DEF ReadLine, WellFormed, Core, CoreRecords
        <3>2. Head(core.fromCore) \in OutputLines(Command)
            BY <3>1, HeadTailProperties
        <3> QED
            BY <3>2 DEF OutputLines
    <2>3. served' \in Seq(Command)
        BY <1>t, <1>7, <2>2, AppendProperties DEF ReadLine
    <2> QED
        BY <1>t, <1>7, <2>1, <2>3 DEF ReadLine
<1>8. CASE Remove
    BY <1>w, <1>t, <1>8 DEF Remove
<1>9. CASE CoreAnswers
    BY <1>w, <1>t, <1>9, AnswerWellFormed DEF CoreAnswers
<1>10. ASSUME NEW blank \in BOOLEAN, CoreContinues(blank)
       PROVE  WellFormedCore(core') /\ UNCHANGED <<connected, sent, served, removed>>
    BY <1>w, <1>10, ContinueWellFormed DEF CoreContinues
<1>11. CASE CoreExits
    BY <1>w, <1>t, <1>11, ExitWellFormed DEF CoreExits
<1>12. CASE UNCHANGED vars
    BY <1>w, <1>t, <1>12 DEF vars
<1> QED
    BY <1>w, <1>t, <1>2, <1>3, <1>4, <1>5, <1>6, <1>7, <1>8, <1>9, <1>10, <1>11, <1>12 DEF Next

(* Inv is an invariant of the core service.                                 *)
THEOREM Invariance == Spec => []Inv
BY InitInv, NextInv, PTL DEF Spec

(* The variables always have their types; no queue ever holds a command     *)
(* whose data set is still open.                                            *)
THEOREM TypeCorrect == Spec => []TypeOK
<1>1. Inv => TypeOK
    BY DEF Inv
<1> QED
    BY <1>1, Invariance, PTL

(* Every line the core writes is routed to the client whose command it      *)
(* answers.                                                                  *)
THEOREM Routing == Spec => []ReplyRouting
<1>1. Inv => ReplyRouting
    <2> SUFFICES ASSUME Inv, core.fromCore # <<>>
                 PROVE  Head(core.fromCore).cmd.clientID = core.lastClientID
        BY DEF ReplyRouting
    <2>1. 1 \in 1..Len(core.fromCore) /\ Head(core.fromCore) = core.fromCore[1]
        BY EmptySeq DEF Inv, TypeOK, Core, CoreRecords
    <2> QED
        BY <2>1 DEF Inv, PipeLines
<1> QED
    BY <1>1, Invariance, PTL

(* Every line is forwarded as what it is: no status line as data, no data   *)
(* as a status line, and no line nobody asked for.                          *)
THEOREM Framing == Spec => []ReplyFraming
<1>1. Inv => ReplyFraming
    <2> SUFFICES ASSUME Inv, core.fromCore # <<>>
                 PROVE  ForwardAs(core) = Head(core.fromCore).part
        BY DEF ReplyFraming
    <2>1. /\ 1 \in 1..Len(core.fromCore) /\ Head(core.fromCore) = core.fromCore[1]
          /\ core.fromCore[1] \in OutputLines(Command)
        BY EmptySeq, HeadTailProperties DEF Inv, TypeOK, Core, CoreRecords
    <2>2. core.fromCore[1].part \in {"status", "data"}
        BY <2>1 DEF OutputLines
    <2>3. core.fromCore[1].part = "status" <=> core.expectingReply
        BY <2>1 DEF Inv, PipeLines
    <2>4. core.expectingReply \/ core.expectingDataset
        BY DEF Inv, OneReply, Busy
    <2> QED
        BY <2>1, <2>2, <2>3, <2>4 DEF ForwardAs
<1> QED
    BY <1>1, Invariance, PTL

(* A core never has more than one command at a time, and none whose reply   *)
(* the server is not waiting for.                                           *)
THEOREM OneAtATime == Spec => []OneOutstanding
<1>1. Inv => OneOutstanding
    BY DEF Inv, OneReply, OneOutstanding
<1> QED
    BY <1>1, Invariance, PTL

-----------------------------------------------------------------------------
(* Steps that neither give a command nor read a line leave what has been    *)
(* and will be answered alone.                                              *)
QuietStep ==
    \/ \E cl \in Clients : Disconnect(cl)
    \/ LoopTop \/ Drop \/ Remove
    \/ CoreAnswers \/ (\E blank \in BOOLEAN : CoreContinues(blank)) \/ CoreExits
    \/ UNCHANGED vars

(* Such a step leaves the due commands and the served ones as they are.     *)
LEMMA QuietStepDue ==
    ASSUME Inv, QuietStep
    PROVE  Due' = Due /\ served' = served /\ sent' = sent
<1>w. WellFormedCore(core)
    BY DEF Inv, TypeOK, WellFormed, Core, Command
<1> SUFFICES RepliesDue(core') = RepliesDue(core)
    BY DEF Due, QuietStep, Disconnect, LoopTop, Drop, Remove, CoreAnswers, CoreContinues,
           CoreExits, vars
<1>1. CASE core' = core
    BY <1>1
<1>2. CASE LoopTop
    BY <1>w, <1>2, FlushDue DEF LoopTop
<1>3. CASE Drop
    BY <1>w, <1>3, QuietDue DEF Drop
<1>4. CASE CoreAnswers
    BY <1>w, <1>4, QuietDue DEF CoreAnswers
<1>5. ASSUME NEW blank \in BOOLEAN, CoreContinues(blank)
      PROVE  RepliesDue(core') = RepliesDue(core)
    BY <1>w, <1>5, QuietDue DEF CoreContinues
<1>6. CASE CoreExits
    BY <1>w, <1>6, QuietDue DEF CoreExits
<1> QED
    BY <1>1, <1>2, <1>3, <1>4, <1>5, <1>6 DEF QuietStep, Disconnect, Remove, vars

(* Reading a line either continues the reply, and nothing is answered, or   *)
(* ends it, and the first command due is.                                   *)
LEMMA ReadLineDue ==
    ASSUME Inv, ReadLine
    PROVE  \/ Due' = Due /\ served' = served
           \/ Due # <<>> /\ served' = Append(served, Head(Due)) /\ Due' = Tail(Due)
<1>w. WellFormedCore(core)
    BY DEF Inv, TypeOK, WellFormed, Core, Command
<1>1. /\ core' = LineFromCore(core) /\ core.fromCore # <<>>
      /\ served' = IF Busy(core) /\ ~Busy(core') THEN Append(served, Head(core.fromCore).cmd) ELSE served
    BY DEF ReadLine
<1>2. Busy(core)
    BY <1>w, <1>1, ReadWellFormed
<1>3. /\ Due # <<>> /\ Head(Due) = Head(core.fromCore).cmd
      /\ Due' = IF Busy(core') THEN Due ELSE Tail(Due)
    BY <1>w, <1>1, ReadDue DEF Due
<1> QED
    BY <1>1, <1>2, <1>3

(* Next is made of the two kinds of givers, ReadLine, and quiet steps.      *)
LEMMA NextCases ==
    ASSUME [Next]_vars
    PROVE  \/ \E cl \in Clients, w \in {"command", "shutdown"}, b \in BOOLEAN : Give(cl, w, b)
           \/ ReadLine
           \/ QuietStep
BY DEF Next, QuietStep, Submit, Shutdown

-----------------------------------------------------------------------------
(* A command with the client's next number keeps a history in order and     *)
(* without gaps.                                                            *)
LEMMA AppendInOrder ==
    ASSUME NEW h \in Seq(Command), NEW ce \in Command, NEW n \in [Clients -> Nat],
           InOrder(h), \A cl \in Clients : TagsOf(h, cl) = 1..n[cl],
           ce.tag = n[ce.clientID] + 1
    PROVE  /\ InOrder(Append(h, ce))
           /\ \A cl \in Clients :
                 TagsOf(Append(h, ce), cl) = 1..[n EXCEPT ![ce.clientID] = @ + 1][cl]
<1> DEFINE g == Append(h, ce)
           k == Len(h)
           new == ce.clientID
<1>1. /\ k \in Nat /\ Len(g) = k + 1
      /\ \A i \in 1..k : g[i] = h[i]
      /\ g[k + 1] = ce
    BY AppendProperties, LenProperties
<1>2. new \in Clients
    BY DEF Command
<1>3. \A i \in 1..k : h[i].clientID \in Clients /\ h[i].tag \in Nat
    <2>1. \A i \in 1..k : h[i] \in Command
        BY ElementOfSeq
    <2> QED
        BY <2>1 DEF Command
<1>4. ASSUME NEW i \in 1..k, h[i].clientID = new
      PROVE  h[i].tag < ce.tag
    <2>1. h[i].tag \in TagsOf(h, new)
        BY <1>4 DEF TagsOf
    <2>2. h[i].tag \in 1..n[new] /\ n[new] \in Nat
        BY <1>2, <2>1
    <2> QED
        BY <2>2
<1> HIDE DEF g
<1>5. InOrder(g)
    <2> SUFFICES ASSUME NEW i \in 1..(k + 1), NEW j \in 1..(k + 1),
                        i < j, g[i].clientID = g[j].clientID
                 PROVE  g[i].tag < g[j].tag
        BY <1>1 DEF InOrder
    <2>1. i \in 1..k /\ (j \in 1..k \/ j = k + 1)
        <3>1. k \in Nat
            BY <1>1
        <3> QED
            BY ONLY <3>1, i \in 1..(k + 1), j \in 1..(k + 1), i < j
    <2>2. CASE j \in 1..k
        BY <1>1, <2>1, <2>2 DEF InOrder
    <2>3. CASE j = k + 1
        BY <1>1, <1>4, <2>1, <2>3
    <2> QED
        BY <2>1, <2>2, <2>3
<1>6. ASSUME NEW cl \in Clients
      PROVE  TagsOf(g, cl) = 1..[n EXCEPT ![new] = @ + 1][cl]
    <2>1. TagsOf(g, cl) = TagsOf(h, cl) \union (IF cl = new THEN {ce.tag} ELSE {})
        <3>1. \A i : i \in 1..Len(g) <=> i \in 1..k \/ i = k + 1
            BY <1>1
        <3> QED
            BY <1>1, <3>1 DEF TagsOf
    <2>2. n[cl] \in Nat
        OBVIOUS
    <2>3. CASE cl = new
        <3>1. 1..(n[cl] + 1) = (1..n[cl]) \union {n[cl] + 1}
            BY <2>2
        <3> QED
            BY <2>1, <2>3, <3>1
    <2>4. CASE cl # new
        BY <2>1, <2>4
    <2> QED
        BY <2>3, <2>4
<1> QED
    BY <1>5, <1>6 DEF g

HistoryInv == History \in Seq(Command) /\ ServedInOrder /\ NoCommandLost

(* Nothing has been asked yet, and nothing answered.                        *)
LEMMA HistoryInit == Init => HistoryInv
<1> SUFFICES ASSUME Init PROVE HistoryInv
    OBVIOUS
<1>1. Due = <<>>
    BY StartDue DEF Init, Due
<1>2. History = <<>>
    BY <1>1 DEF Init, History
<1>3. \A cl \in Clients : sent[cl] = 0 /\ 1..0 = {}
    BY DEF Init
<1> QED
    BY <1>2, <1>3 DEF HistoryInv, ServedInOrder, NoCommandLost, InOrder, TagsOf

(* Giving appends to the history, a quiet step leaves it alone, and reading *)
(* only moves the border between what is served and what is due.            *)
LEMMA HistoryNext == Inv /\ HistoryInv /\ [Next]_vars => HistoryInv'
<1> SUFFICES ASSUME Inv, HistoryInv, [Next]_vars PROVE HistoryInv'
    OBVIOUS
<1>w. WellFormedCore(core) /\ sent \in [Clients -> Nat] /\ served \in Seq(Command)
    BY DEF Inv, TypeOK, WellFormed, Core, Command
<1>d. Due \in Seq(Command)
    BY <1>w, RepliesDueType DEF Due
<1>1. ASSUME NEW cl \in Clients, NEW w \in {"command", "shutdown"}, NEW b \in BOOLEAN,
             Give(cl, w, b)
      PROVE  HistoryInv'
    <2> DEFINE ce == Complete(cl, sent[cl] + 1, w, b)
    <2>1. ce \in Command /\ ce.clientID = cl /\ ce.tag = sent[cl] + 1
        BY <1>w, CompleteType
    <2>2. Due' = Append(Due, ce)
        BY <1>w, <1>1, GiveEffect
    <2>3. sent' = [sent EXCEPT ![cl] = @ + 1] /\ served' = served
        BY <1>1 DEF Give
    <2> HIDE DEF ce
    <2>4. History' = Append(History, ce)
        BY <1>w, <1>d, <2>1, <2>2, <2>3, ConcatAppend DEF History
    <2>5. /\ InOrder(Append(History, ce))
          /\ \A x \in Clients :
                TagsOf(Append(History, ce), x) = 1..[sent EXCEPT ![cl] = @ + 1][x]
        BY <1>w, <2>1, AppendInOrder DEF HistoryInv, ServedInOrder, NoCommandLost
    <2>6. Append(History, ce) \in Seq(Command)
        BY <2>1, AppendProperties DEF HistoryInv
    <2> QED
        BY <2>3, <2>4, <2>5, <2>6 DEF HistoryInv, ServedInOrder, NoCommandLost
<1>2. ASSUME History' = History, sent' = sent PROVE HistoryInv'
    BY <1>2 DEF HistoryInv, ServedInOrder, NoCommandLost
<1>3. CASE QuietStep
    BY <1>2, <1>3, QuietStepDue DEF History
<1>4. CASE ReadLine
    <2>1. sent' = sent
        BY <1>4 DEF ReadLine
    <2>2. CASE Due' = Due /\ served' = served
        BY <1>2, <2>1, <2>2 DEF History
    <2>3. CASE Due # <<>> /\ served' = Append(served, Head(Due)) /\ Due' = Tail(Due)
        <3>1. Head(Due) \in Command /\ Tail(Due) \in Seq(Command)
            BY <1>d, <2>3, HeadTailProperties
        <3>2. Append(served, Head(Due)) \o Tail(Due) = served \o Due
            BY <1>w, <1>d, <2>3, <3>1, MoveHead
        <3> QED
            BY <1>2, <2>1, <2>3, <3>2 DEF History
    <2> QED
        BY <1>4, <2>2, <2>3, ReadLineDue
<1> QED
    BY <1>1, <1>3, <1>4, NextCases

(* A client's commands are answered in the order it gave them, each once.   *)
THEOREM FirstComeFirstServed == Spec => []ServedInOrder
<1>1. Init => Inv /\ HistoryInv
    BY InitInv, HistoryInit
<1>2. Inv /\ HistoryInv /\ [Next]_vars => (Inv /\ HistoryInv)'
    BY NextInv, HistoryNext
<1>3. HistoryInv => ServedInOrder
    BY DEF HistoryInv
<1> QED
    BY <1>1, <1>2, <1>3, PTL DEF Spec

(* No accepted command is ever lost, and nothing is answered that nobody    *)
(* asked.                                                                   *)
THEOREM NothingLost == Spec => []NoCommandLost
<1>1. Init => Inv /\ HistoryInv
    BY InitInv, HistoryInit
<1>2. Inv /\ HistoryInv /\ [Next]_vars => (Inv /\ HistoryInv)'
    BY NextInv, HistoryNext
<1>3. HistoryInv => NoCommandLost
    BY DEF HistoryInv
<1> QED
    BY <1>1, <1>2, <1>3, PTL DEF Spec

-----------------------------------------------------------------------------
(* A command service does what CommandService promises: giving a command is *)
(* Accept, the last line of a reply is Serve, deleting the object is Stop,  *)
(* and nothing else is visible.                                             *)
LEMMA InitService == Init => Service!ServiceInit
<1> SUFFICES ASSUME Init PROVE Service!ServiceInit
    OBVIOUS
<1>1. Due = <<>>
    BY StartDue DEF Init, Due
<1> QED
    BY <1>1 DEF Service!ServiceInit, Init

(* A step is Accept, Serve, Stop or none of them, as said above.            *)
LEMMA NextService ==
    Inv /\ [Next]_vars => [Service!ServiceNext]_(Service!serviceVars)
<1> SUFFICES ASSUME Inv, [Next]_vars
             PROVE  [Service!ServiceNext]_(Service!serviceVars)
    OBVIOUS
<1>w. WellFormedCore(core) /\ sent \in [Clients -> Nat] /\ removed \in BOOLEAN
    BY DEF Inv, TypeOK, WellFormed, Core, Command
<1>1. ASSUME NEW cl \in Clients, NEW w \in {"command", "shutdown"}, NEW b \in BOOLEAN,
             Give(cl, w, b)
      PROVE  Service!ServiceNext
    <2> DEFINE ce == Complete(cl, sent[cl] + 1, w, b)
    <2>1. Due' = Append(Due, ce)
        BY <1>w, <1>1, GiveEffect
    <2>2. ~removed /\ removed' = removed /\ served' = served /\ sent[cl] < MaxCommands
        BY <1>1 DEF Give
    <2>3. ce \in GivenCommands
        <3>1. sent[cl] \in Nat
            BY <1>w
        <3>2. sent[cl] + 1 \in 1..MaxCommands
            BY <2>2, <3>1, BoundsAssumption
        <3> QED
            BY <3>2 DEF GivenCommands
    <2> HIDE DEF ce
    <2>4. Service!Accept(ce)
        BY <2>1, <2>2 DEF Service!Accept
    <2> QED
        BY <2>3, <2>4 DEF Service!ServiceNext
<1>2. CASE Due' = Due /\ served' = served /\ removed' = removed
    BY <1>2 DEF Service!serviceVars
<1>3. CASE ReadLine
    <2>1. ~removed /\ removed' = removed
        BY <1>3 DEF ReadLine
    <2>2. CASE Due # <<>> /\ served' = Append(served, Head(Due)) /\ Due' = Tail(Due)
        BY <2>1, <2>2 DEF Service!Serve, Service!ServiceNext
    <2> QED
        BY <1>2, <1>3, <2>1, <2>2, ReadLineDue
<1>4. CASE QuietStep
    <2>1. Due' = Due /\ served' = served
        BY <1>4, QuietStepDue
    <2>2. CASE Remove
        BY <2>1, <2>2 DEF Remove, Service!Stop, Service!ServiceNext
    <2>3. CASE removed' = removed
        BY <1>2, <2>1, <2>3
    <2> QED
        BY <1>4, <2>2, <2>3 DEF QuietStep, Disconnect, LoopTop, Drop, CoreAnswers,
                                CoreContinues, CoreExits, vars
<1> QED
    BY <1>1, <1>3, <1>4, NextCases

(* The detailed core service implements the abstract one.                   *)
THEOREM Refinement == Spec => ServiceSpec
BY InitInv, NextInv, InitService, NextService, PTL DEF Spec, ServiceSpec, Service!ServiceSpec
=============================================================================
