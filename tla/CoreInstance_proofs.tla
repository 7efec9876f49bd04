------------------------ MODULE CoreInstance_proofs ------------------------
(***************************************************************************)
(* One lemma per operator of CoreInstance: it keeps a core well formed, and *)
(* moves the commands whose replies are due in one way only.  They hold for *)
(* any names, client IDs and commands, so that the one-core specification   *)
(* and the whole server use the same facts.                                 *)
(***************************************************************************)
EXTENDS CoreInstance, SequenceTheorems, TLAPS

WellFormed(Names, IDs, Cmds, c) ==
    /\ c \in CoreRecords(Names, IDs, Cmds) /\ \A ce \in Cmds : ce.clientID \in IDs
    /\ OneReply(c) /\ PipeLines(c)

-----------------------------------------------------------------------------
(* A core that has just been started is well formed.                        *)
LEMMA StartWellFormed ==
    ASSUME NEW Names, NEW IDs, NEW Cmds, \A ce \in Cmds : ce.clientID \in IDs, NEW name \in Names
    PROVE  WellFormed(Names, IDs, Cmds, StartCore(name))
<1>1. StartCore(name) \in CoreRecords(Names, IDs, Cmds)
    BY DEF StartCore, CoreRecords
<1> QED
    BY <1>1 DEF WellFormed, StartCore, OneReply, PipeLines, Busy

(* Queueing a command touches nothing but the queue.                        *)
LEMMA QueueWellFormed ==
    ASSUME NEW Names, NEW IDs, NEW Cmds, NEW c, WellFormed(Names, IDs, Cmds, c),
           NEW ce \in Cmds
    PROVE  WellFormed(Names, IDs, Cmds, QueueCommand(c, ce))
<1>1. Append(c.commandQ, ce) \in Seq(Cmds)
    BY AppendProperties DEF WellFormed, CoreRecords
<1>2. QueueCommand(c, ce) \in CoreRecords(Names, IDs, Cmds)
    BY <1>1 DEF WellFormed, QueueCommand, CoreRecords
<1> QED
    BY <1>2 DEF WellFormed, QueueCommand, OneReply, PipeLines, Busy, CoreRecords, Ends

(* Writing out the front command starts a reply, and only when none is due. *)
LEMMA FlushWellFormed ==
    ASSUME NEW Names, NEW IDs, NEW Cmds, NEW c, WellFormed(Names, IDs, Cmds, c)
    PROVE  WellFormed(Names, IDs, Cmds, FlushCommandQ(c))
<1>1. CASE ~(c.commandQ # <<>> /\ ~Busy(c) /\ Flushable(Head(c.commandQ)))
    BY <1>1 DEF FlushCommandQ
<1>2. CASE c.commandQ # <<>> /\ ~Busy(c) /\ Flushable(Head(c.commandQ))
    <2> DEFINE d == WriteFirst(c)
    <2>1. FlushCommandQ(c) = d
        BY <1>2 DEF FlushCommandQ
    <2>2. Head(c.commandQ) \in Cmds /\ Tail(c.commandQ) \in Seq(Cmds)
        BY <1>2, HeadTailProperties DEF WellFormed, CoreRecords
    <2>3. Head(c.commandQ).clientID \in IDs
        BY <2>2 DEF WellFormed
    <2>4. d \in CoreRecords(Names, IDs, Cmds)
        <3>1. Append(c.toCore, Head(c.commandQ)) \in Seq(Cmds)
            BY <2>2, AppendProperties DEF WellFormed, CoreRecords
        <3> QED
            BY <2>2, <2>3, <3>1 DEF WellFormed, CoreRecords, WriteFirst
    <2>5. c.toCore = <<>> /\ c.fromCore = <<>>
        BY <1>2 DEF WellFormed, OneReply
    <2>6. /\ d.toCore = <<Head(c.commandQ)>>
          /\ d.fromCore = <<>>
          /\ d.expectingReply = TRUE /\ d.expectingDataset = FALSE
          /\ d.lastClientID = Head(c.commandQ).clientID
          /\ d.process = c.process
        BY <2>2, <2>5 DEF WellFormed, CoreRecords, WriteFirst
    <2>7. c.process # "replying"
        BY <2>5 DEF WellFormed, OneReply
    <2>8. OneReply(d)
        BY <2>6, <2>7 DEF OneReply, Busy
    <2>9. PipeLines(d)
        BY <2>6 DEF PipeLines
    <2> QED
        BY <2>1, <2>4, <2>8, <2>9 DEF WellFormed
<1> QED
    BY <1>1, <1>2

(* Reading one line moves the parser exactly one line along the reply: the  *)
(* reply is over if that line ends it, otherwise the rest of its data set   *)
(* is still to come and its command is still the one being answered.        *)
LEMMA ReadWellFormed ==
    ASSUME NEW Names, NEW IDs, NEW Cmds, NEW c, WellFormed(Names, IDs, Cmds, c),
           c.fromCore # <<>>
    PROVE  /\ WellFormed(Names, IDs, Cmds, LineFromCore(c))
           /\ Busy(c)
           /\ Outstanding(c) = <<Head(c.fromCore).cmd>>
           /\ Busy(LineFromCore(c)) => Outstanding(LineFromCore(c)) = Outstanding(c)
<1> DEFINE d == LineFromCore(c)
           line == c.fromCore[1]
<1>0. Len(c.fromCore) \in Nat \ {0} /\ 1 \in 1..Len(c.fromCore)
    BY EmptySeq, LenProperties DEF WellFormed, CoreRecords
<1>1. /\ Head(c.fromCore) = line /\ line \in OutputLines(Cmds)
      /\ Tail(c.fromCore) \in Seq(OutputLines(Cmds))
      /\ Len(Tail(c.fromCore)) = Len(c.fromCore) - 1
      /\ \A i \in 1..Len(Tail(c.fromCore)) : Tail(c.fromCore)[i] = c.fromCore[i + 1]
    BY <1>0, HeadTailProperties DEF WellFormed, CoreRecords
<1>t. Tail(c.fromCore) = <<>> <=> Len(c.fromCore) = 1
    <2>1. Len(Tail(c.fromCore)) = 0 <=> Len(c.fromCore) = 1
        BY <1>0, <1>1
    <2>2. Tail(c.fromCore) = <<>> <=> Len(Tail(c.fromCore)) = 0
        BY <1>1, EmptySeq
    <2> QED
        BY <2>1, <2>2
<1>2. Busy(c) /\ c.expectingReply \in BOOLEAN /\ c.expectingDataset \in BOOLEAN
    BY DEF WellFormed, OneReply, CoreRecords
<1>3. line.part = "status" <=> c.expectingReply
    BY <1>0 DEF WellFormed, PipeLines
<1>4. /\ d.fromCore = Tail(c.fromCore)
      /\ d.expectingReply = FALSE
      /\ d.expectingDataset = ~Ends(line)
      /\ d.toCore = c.toCore /\ d.process = c.process
      /\ d.lastClientID = c.lastClientID
    <2>1. line.colon \in BOOLEAN /\ line.blank \in BOOLEAN
        BY <1>1 DEF OutputLines
    <2>2. d.expectingDataset = (IF c.expectingReply THEN c.expectingDataset \/ line.colon
                                ELSE c.expectingDataset /\ ~line.blank)
        BY <1>1 DEF LineFromCore, WellFormed, CoreRecords
    <2>3. d.expectingDataset = ~Ends(line)
        BY <1>2, <1>3, <2>1, <2>2 DEF Ends, Busy, WellFormed, OneReply
    <2> QED
        BY <2>3 DEF LineFromCore, WellFormed, CoreRecords
<1>5. d \in CoreRecords(Names, IDs, Cmds)
    <2>1. Ends(line) \in BOOLEAN
        BY <1>1 DEF Ends, OutputLines
    <2> QED
        BY <1>1, <1>2 DEF LineFromCore, WellFormed, CoreRecords, OutputLines
<1>6. Outstanding(c) = <<line.cmd>>
    BY <1>2 DEF Outstanding
<1>7. CASE Ends(line)
    <2>1. c.toCore = <<>> /\ Len(c.fromCore) = 1
        BY <1>0, <1>7 DEF WellFormed, PipeLines
    <2>2. d.fromCore = <<>>
        BY <1>4, <1>t, <2>1
    <2>3. ~Busy(d)
        BY <1>4, <1>7 DEF Busy
    <2>4. c.process # "replying"
        BY <2>1 DEF WellFormed, OneReply
    <2>5. OneReply(d)
        <3>1. Len(d.toCore) <= 1
            BY <1>4 DEF WellFormed, OneReply
        <3> QED
            BY <1>4, <2>1, <2>2, <2>3, <2>4, <3>1 DEF OneReply
    <2>6. PipeLines(d)
        BY <1>4, <2>1, <2>2 DEF PipeLines
    <2> QED
        BY <1>1, <1>2, <1>5, <1>6, <2>3, <2>5, <2>6 DEF WellFormed
<1>8. CASE ~Ends(line)
    <2>1. Busy(d)
        BY <1>4, <1>8 DEF Busy
    <2>2. c.toCore = <<>> => Len(c.fromCore) > 1
        BY <1>0, <1>2, <1>8 DEF WellFormed, OneReply
    <2>3. c.process = "ready" => c.toCore = <<>>
        BY DEF WellFormed, OneReply
    <2>4. OneReply(d)
        <3>1. d.toCore = <<>> => d.fromCore # <<>> /\ Ends(d.fromCore[Len(d.fromCore)])
            <4>1. SUFFICES ASSUME c.toCore = <<>>
                           PROVE  d.fromCore # <<>> /\ Ends(d.fromCore[Len(d.fromCore)])
                BY <1>4
            <4>2. Ends(c.fromCore[Len(c.fromCore)])
                BY <1>2, <4>1 DEF WellFormed, OneReply
            <4>3. Len(d.fromCore) = Len(c.fromCore) - 1 /\ Len(d.fromCore) > 0
                BY <1>0, <1>1, <1>4, <2>2, <4>1
            <4>4. d.fromCore[Len(d.fromCore)] = c.fromCore[Len(c.fromCore)]
                BY <1>0, <1>1, <1>4, <4>3
            <4> QED
                BY <4>2, <4>3, <4>4, EmptySeq
        <3> QED
            BY <1>4, <1>8, <2>1, <2>3, <3>1 DEF OneReply, Busy, WellFormed
    <2>5. PipeLines(d)
        BY <1>1, <1>4 DEF PipeLines, WellFormed
    <2>6. Outstanding(d) = <<line.cmd>>
        <3>1. CASE d.fromCore # <<>>
            <4>1. d.fromCore[1].cmd = line.cmd
                BY <1>1, <1>4, <3>1 DEF WellFormed, PipeLines
            <4> QED
                BY <2>1, <3>1, <4>1 DEF Outstanding
        <3>2. CASE d.fromCore = <<>>
            <4>0. Len(c.fromCore) = 1
                BY <1>4, <1>t, <3>2
            <4>1. c.toCore # <<>>
                BY <2>2, <4>0
            <4>2. c.toCore[1] = line.cmd
                BY <1>0, <4>1 DEF WellFormed, PipeLines
            <4> QED
                BY <1>4, <2>1, <3>2, <4>2 DEF Outstanding
        <3> QED
            BY <3>1, <3>2
    <2> QED
        BY <1>1, <1>2, <1>5, <1>6, <2>4, <2>5, <2>6 DEF WellFormed
<1> QED
    BY <1>7, <1>8

(* A core that no longer counts as running is in step with its pipes still. *)
LEMMA NotRunningWellFormed ==
    ASSUME NEW Names, NEW IDs, NEW Cmds, NEW c, WellFormed(Names, IDs, Cmds, c)
    PROVE  WellFormed(Names, IDs, Cmds, NotRunning(c))
<1>1. NotRunning(c) \in CoreRecords(Names, IDs, Cmds)
    BY DEF WellFormed, NotRunning, CoreRecords
<1> QED
    BY <1>1 DEF WellFormed, NotRunning, OneReply, PipeLines, Busy, CoreRecords

(* terminate() changes nothing that the invariant speaks of.                *)
LEMMA TerminateWellFormed ==
    ASSUME NEW Names, NEW IDs, NEW Cmds, NEW c, WellFormed(Names, IDs, Cmds, c)
    PROVE  WellFormed(Names, IDs, Cmds, Terminate(c))
<1>1. Terminate(c) \in CoreRecords(Names, IDs, Cmds)
    BY DEF WellFormed, Terminate, CoreRecords
<1> QED
    BY <1>1 DEF WellFormed, Terminate, OneReply, PipeLines, Busy, CoreRecords

(* Neither does an exit: what has been written stays readable.              *)
LEMMA ExitWellFormed ==
    ASSUME NEW Names, NEW IDs, NEW Cmds, NEW c, WellFormed(Names, IDs, Cmds, c)
    PROVE  WellFormed(Names, IDs, Cmds, Exit(c))
<1>1. Exit(c) \in CoreRecords(Names, IDs, Cmds)
    BY DEF WellFormed, Exit, CoreRecords
<1> QED
    BY <1>1 DEF WellFormed, Exit, OneReply, PipeLines, Busy, CoreRecords

-----------------------------------------------------------------------------
(* The only command the process can have.                                   *)
LEMMA CommandOut ==
    ASSUME NEW Names, NEW IDs, NEW Cmds, NEW c, WellFormed(Names, IDs, Cmds, c),
           c.toCore # <<>>
    PROVE  /\ Head(c.toCore) = c.toCore[1] /\ c.toCore[1] \in Cmds
           /\ c.toCore[1].clientID = c.lastClientID
           /\ Len(c.toCore) = 1
           /\ Tail(c.toCore) = <<>>
           /\ Busy(c)
<1>1. Len(c.toCore) = 1
    <2>1. Len(c.toCore) \in Nat /\ Len(c.toCore) # 0
        BY EmptySeq DEF WellFormed, CoreRecords
    <2>2. Len(c.toCore) <= 1
        BY DEF WellFormed, OneReply
    <2>3. ASSUME NEW n \in Nat, n # 0, n <= 1
          PROVE  n = 1
        BY <2>3
    <2> QED
        BY ONLY <2>1, <2>2, <2>3
<1>2. /\ Head(c.toCore) = c.toCore[1] /\ c.toCore[1] \in Cmds
      /\ Tail(c.toCore) \in Seq(Cmds)
      /\ Len(Tail(c.toCore)) = 0
    BY <1>1, HeadTailProperties DEF WellFormed, CoreRecords
<1>3. Tail(c.toCore) = <<>>
    BY <1>2, EmptySeq
<1>4. c.toCore[1].clientID = c.lastClientID
    BY <1>1 DEF WellFormed, PipeLines
<1>5. Busy(c)
    BY DEF WellFormed, OneReply
<1> QED
    BY <1>1, <1>2, <1>3, <1>4, <1>5

(* The status line a core writes opens the reply to its only command.       *)
LEMMA AnswerWellFormed ==
    ASSUME NEW Names, NEW IDs, NEW Cmds, NEW c, WellFormed(Names, IDs, Cmds, c),
           CanAnswer(c), NEW colon \in BOOLEAN
    PROVE  /\ WellFormed(Names, IDs, Cmds, Answer(c, colon))
           /\ Answer(c, colon).commandQ = c.commandQ
           /\ Busy(c) /\ Busy(Answer(c, colon))
           /\ Outstanding(Answer(c, colon)) = Outstanding(c)
<1> DEFINE d == Answer(c, colon)
           ce == c.toCore[1]
           line == StatusLine(ce, colon)
<1>1. /\ Head(c.toCore) = ce /\ ce \in Cmds /\ ce.clientID = c.lastClientID
      /\ Len(c.toCore) = 1 /\ Tail(c.toCore) = <<>> /\ Busy(c)
    BY CommandOut DEF CanAnswer
<1>2. c.fromCore = <<>> /\ c.expectingReply /\ ~c.expectingDataset
    BY DEF CanAnswer, WellFormed, OneReply
<1>3. /\ line \in OutputLines(Cmds)
      /\ line.cmd = ce /\ line.part = "status" /\ line.colon = colon
    BY <1>1 DEF StatusLine, OutputLines
<1>4. Append(c.fromCore, line) = <<line>>
    BY <1>2
<1>5. /\ d.fromCore = <<line>>
      /\ d.toCore = IF colon THEN c.toCore ELSE <<>>
      /\ d.process \in {"ready", "replying", "exited"}
      /\ d.process = "replying" <=> colon
      /\ d.process = "ready" => ~colon
      /\ d.commandQ = c.commandQ /\ d.lastClientID = c.lastClientID
      /\ d.expectingReply = c.expectingReply /\ d.expectingDataset = c.expectingDataset
    BY <1>1, <1>4 DEF Answer, FinishCommand, WellFormed, CoreRecords
<1>6. d \in CoreRecords(Names, IDs, Cmds)
    <2>1. <<line>> \in Seq(OutputLines(Cmds)) /\ <<>> \in Seq(Cmds)
        BY <1>3
    <2> QED
        BY <1>1, <1>4, <2>1 DEF Answer, FinishCommand, WellFormed, CoreRecords
<1>7. Busy(d)
    BY <1>2, <1>5 DEF Busy
<1>8. Ends(line) <=> ~colon
    BY <1>3 DEF Ends
<1>9. OneReply(d)
    <2>1. Len(d.toCore) <= 1
        <3>1. Len(<<>>) = 0
            OBVIOUS
        <3>2. CASE colon
            BY <1>1, <1>5, <3>2
        <3>3. CASE ~colon
            BY <1>5, <3>1, <3>3
        <3> QED
            BY <3>2, <3>3
    <2>2. Len(d.fromCore) = 1 /\ d.fromCore[1] = line
        BY <1>5
    <2> QED
        BY <1>1, <1>2, <1>5, <1>7, <1>8, <2>1, <2>2 DEF OneReply
<1>10. PipeLines(d)
    <2>1. \A i \in 1..Len(d.toCore) : d.toCore[i].clientID = d.lastClientID
        BY <1>1, <1>5
    <2>2. Len(d.fromCore) = 1 /\ d.fromCore[1] = line
        BY <1>5
    <2>3. d.toCore # <<>> => d.toCore[1] = ce
        BY <1>5
    <2> QED
        BY <1>1, <1>2, <1>3, <1>5, <1>8, <2>1, <2>2, <2>3 DEF PipeLines
<1>11. Outstanding(d) = Outstanding(c)
    BY <1>1, <1>2, <1>3, <1>5, <1>7 DEF Outstanding
<1> QED
    BY <1>1, <1>5, <1>6, <1>7, <1>9, <1>10, <1>11 DEF WellFormed

(* A data line continues that reply, a blank one ends it.                   *)
LEMMA ContinueWellFormed ==
    ASSUME NEW Names, NEW IDs, NEW Cmds, NEW c, WellFormed(Names, IDs, Cmds, c),
           CanContinue(c), NEW blank \in BOOLEAN
    PROVE  /\ WellFormed(Names, IDs, Cmds, Continue(c, blank))
           /\ Continue(c, blank).commandQ = c.commandQ
           /\ Busy(c) /\ Busy(Continue(c, blank))
           /\ Outstanding(Continue(c, blank)) = Outstanding(c)
<1> DEFINE d == Continue(c, blank)
           ce == c.toCore[1]
           line == DataLine(ce, blank)
           n == Len(c.fromCore)
<1>0. c.toCore # <<>>
    BY DEF CanContinue, WellFormed, OneReply
<1>1. /\ Head(c.toCore) = ce /\ ce \in Cmds /\ ce.clientID = c.lastClientID
      /\ Len(c.toCore) = 1 /\ Tail(c.toCore) = <<>> /\ Busy(c)
    BY <1>0, CommandOut
<1>2. c.expectingReply => n > 0
    BY EmptySeq DEF CanContinue, WellFormed, OneReply, CoreRecords
<1>3. /\ line \in OutputLines(Cmds)
      /\ line.cmd = ce /\ line.part = "data" /\ line.blank = blank
    BY <1>1 DEF DataLine, OutputLines
<1>4. /\ d.fromCore = Append(c.fromCore, line)
      /\ d.toCore = IF blank THEN <<>> ELSE c.toCore
      /\ d.process \in {"ready", "replying", "exited"}
      /\ d.process = "replying" <=> ~blank
      /\ d.process = "ready" => blank
      /\ d.commandQ = c.commandQ /\ d.lastClientID = c.lastClientID
      /\ d.expectingReply = c.expectingReply /\ d.expectingDataset = c.expectingDataset
    BY <1>1 DEF Continue, FinishCommand, CanContinue, WellFormed, CoreRecords
<1>5. /\ Append(c.fromCore, line) \in Seq(OutputLines(Cmds))
      /\ d.fromCore # <<>>
      /\ n \in Nat
      /\ Len(d.fromCore) = n + 1
      /\ \A i \in 1..n : d.fromCore[i] = c.fromCore[i]
      /\ d.fromCore[n + 1] = line
    BY <1>3, <1>4, AppendProperties, LenProperties DEF WellFormed, CoreRecords
<1>6. d \in CoreRecords(Names, IDs, Cmds)
    <2>1. <<>> \in Seq(Cmds)
        OBVIOUS
    <2>2. CASE blank
        BY <1>1, <1>5, <2>1, <2>2 DEF Continue, FinishCommand, CanContinue, WellFormed, CoreRecords
    <2>3. CASE ~blank
        BY <1>1, <1>5, <2>3 DEF Continue, CanContinue, WellFormed, CoreRecords
    <2> QED
        BY <2>2, <2>3
<1>7. Busy(d)
    BY <1>1, <1>4 DEF Busy
<1>8. Ends(line) <=> blank
    BY <1>3 DEF Ends
<1>9. OneReply(d)
    <2>1. Len(d.toCore) <= 1
        BY <1>1, <1>4
    <2>2. ~(d.expectingReply /\ d.expectingDataset)
        BY <1>4 DEF WellFormed, OneReply
    <2>3. d.toCore = <<>> => Ends(d.fromCore[Len(d.fromCore)])
        BY <1>0, <1>4, <1>5, <1>8
    <2> QED
        BY <1>0, <1>4, <1>5, <1>7, <2>1, <2>2, <2>3 DEF OneReply
<1>10. PipeLines(d)
    <2>1. \A i \in 1..Len(d.toCore) : d.toCore[i].clientID = d.lastClientID
        BY <1>1, <1>4
    <2>2. d.toCore # <<>> => d.toCore[1] = ce
        BY <1>4
    <2>3. d.fromCore[1].cmd = ce
        BY <1>0, <1>3, <1>5 DEF WellFormed, PipeLines
    <2>4. ASSUME NEW i \in 1..n
          PROVE  /\ d.fromCore[i].cmd = ce
                 /\ d.fromCore[i].part = "status" <=> i = 1 /\ d.expectingReply
                 /\ ~Ends(d.fromCore[i])
        BY <1>0, <1>4, <1>5 DEF WellFormed, PipeLines
    <2>5. /\ d.fromCore[n + 1].cmd = ce
          /\ d.fromCore[n + 1].part # "status"
          /\ ~(n + 1 = 1 /\ d.expectingReply)
          /\ Ends(d.fromCore[n + 1]) => d.toCore = <<>>
        BY <1>2, <1>3, <1>4, <1>5, <1>8
    <2>6. \A i \in 1..Len(d.fromCore) : i \in 1..n \/ i = n + 1
        BY <1>5
    <2> QED
        BY <1>1, <1>4, <1>5, <2>1, <2>2, <2>3, <2>4, <2>5, <2>6 DEF PipeLines
<1>11. Outstanding(d) = Outstanding(c)
    <2>1. d.fromCore[1].cmd = ce
        BY <1>0, <1>3, <1>5 DEF WellFormed, PipeLines
    <2>2. c.fromCore # <<>> => c.fromCore[1].cmd = ce
        BY <1>0, EmptySeq DEF WellFormed, PipeLines, CoreRecords
    <2> QED
        BY <1>1, <1>5, <1>7, <2>1, <2>2 DEF Outstanding
<1> QED
    BY <1>1, <1>4, <1>6, <1>7, <1>9, <1>10, <1>11 DEF WellFormed

-----------------------------------------------------------------------------
(* Flushing moves a command from the queue to the process; the replies due  *)
(* stay the same.                                                           *)
LEMMA FlushDue ==
    ASSUME NEW Names, NEW IDs, NEW Cmds, NEW c, WellFormed(Names, IDs, Cmds, c)
    PROVE  RepliesDue(FlushCommandQ(c)) = RepliesDue(c)
<1> DEFINE d == FlushCommandQ(c)
           q == c.commandQ
<1> SUFFICES Outstanding(d) \o d.commandQ = Outstanding(c) \o q
    BY DEF RepliesDue
<1>1. CASE ~(q # <<>> /\ ~Busy(c) /\ Flushable(Head(q)))
    BY <1>1 DEF FlushCommandQ
<1>2. CASE q # <<>> /\ ~Busy(c) /\ Flushable(Head(q))
    <2>1. q \in Seq(Cmds)
        BY DEF WellFormed, CoreRecords
    <2>2. Head(q) \in Cmds /\ Tail(q) \in Seq(Cmds)
        BY <1>2, <2>1, HeadTailProperties
    <2>3. c.toCore = <<>> /\ c.fromCore = <<>>
        BY <1>2 DEF WellFormed, OneReply
    <2>4. d = WriteFirst(c)
        BY <1>2 DEF FlushCommandQ
    <2>5. /\ d.toCore = <<Head(q)>> /\ d.fromCore = <<>>
          /\ d.expectingReply = TRUE
          /\ d.commandQ = Tail(q)
        BY <2>2, <2>3, <2>4 DEF WriteFirst, WellFormed, CoreRecords
    <2>6. Outstanding(d) = <<Head(q)>>
        BY <2>5 DEF Outstanding, Busy
    <2>7. Outstanding(c) \o q = q
        BY <1>2, <2>1, ConcatEmptySeq DEF Outstanding
    <2>8. <<Head(q)>> \o Tail(q) = q
        <3>1. <<Head(q)>> \in Seq(Cmds) /\ Len(<<Head(q)>>) = 1 /\ <<Head(q)>>[1] = Head(q)
            BY <2>2
        <3> DEFINE r == <<Head(q)>> \o Tail(q)
        <3>2. /\ r \in Seq(Cmds)
              /\ Len(r) = Len(q)
              /\ \A i \in 1..Len(r) : r[i] = q[i]
            BY <1>2, <2>1, <2>2, <3>1, ConcatProperties, HeadTailProperties, LenProperties
        <3> HIDE DEF r
        <3>3. r = q
            BY <2>1, <3>2, SeqEqual
        <3> QED
            BY <3>3 DEF r
    <2> QED
        BY <2>5, <2>6, <2>7, <2>8
<1> QED
    BY <1>1, <1>2

(* At most one reply is being given, to a command.                          *)
LEMMA OutstandingType ==
    ASSUME NEW Names, NEW IDs, NEW Cmds, NEW c, WellFormed(Names, IDs, Cmds, c)
    PROVE  Outstanding(c) \in Seq(Cmds)
<1>1. CASE ~Busy(c)
    BY <1>1 DEF Outstanding
<1>2. CASE Busy(c) /\ c.fromCore # <<>>
    <2>1. c.fromCore[1] \in OutputLines(Cmds)
        BY <1>2, HeadTailProperties DEF WellFormed, CoreRecords
    <2>2. c.fromCore[1].cmd \in Cmds
        BY <2>1 DEF OutputLines
    <2> QED
        BY <1>2, <2>2 DEF Outstanding
<1>3. CASE Busy(c) /\ c.fromCore = <<>>
    <2>1. c.toCore # <<>>
        BY <1>3 DEF WellFormed, OneReply
    <2>2. c.toCore[1] \in Cmds
        BY <2>1, CommandOut
    <2> QED
        BY <1>3, <2>2 DEF Outstanding
<1> QED
    BY <1>1, <1>2, <1>3

(* Appending to the second part of a sequence appends to the whole.         *)
LEMMA ConcatAppend ==
    ASSUME NEW S, NEW s \in Seq(S), NEW t \in Seq(S), NEW e \in S
    PROVE  s \o Append(t, e) = Append(s \o t, e)
<1>1. <<e>> \in Seq(S)
    OBVIOUS
<1>2. Append(t, e) = t \o <<e>>
    BY AppendIsConcat
<1>3. s \o t \in Seq(S)
    BY ConcatProperties
<1>4. Append(s \o t, e) = (s \o t) \o <<e>>
    BY <1>3, AppendIsConcat
<1>5. (s \o t) \o <<e>> = s \o (t \o <<e>>)
    BY <1>1, ConcatAssociative
<1> QED
    BY <1>2, <1>4, <1>5

(* The head of the second part can move to the end of the first.            *)
LEMMA MoveHead ==
    ASSUME NEW S, NEW s \in Seq(S), NEW t \in Seq(S), t # <<>>
    PROVE  Append(s, Head(t)) \o Tail(t) = s \o t
<1> DEFINE e == Head(t)
           r == Tail(t)
           x == Append(s, e)
<1>1. e \in S /\ r \in Seq(S) /\ t[1] = e /\ Len(r) = Len(t) - 1
      /\ \A i \in 1..Len(r) : r[i] = t[i + 1]
    BY HeadTailProperties
<1>2. x \in Seq(S) /\ Len(x) = Len(s) + 1
      /\ (\A i \in 1..Len(s) : x[i] = s[i]) /\ x[Len(s) + 1] = e
    BY <1>1, AppendProperties
<1>3. Len(s) \in Nat /\ Len(t) \in Nat /\ Len(t) # 0
    BY LenProperties, EmptySeq
<1> HIDE DEF e, r, x
<1>4. /\ x \o r \in Seq(S) /\ Len(x \o r) = Len(s) + Len(t)
      /\ \A i \in 1..(Len(s) + Len(t)) :
            (x \o r)[i] = IF i <= Len(s) + 1 THEN x[i] ELSE r[i - (Len(s) + 1)]
    <2>1. /\ x \o r \in Seq(S) /\ Len(x \o r) = Len(x) + Len(r)
          /\ \A i \in 1..(Len(x) + Len(r)) :
                (x \o r)[i] = IF i <= Len(x) THEN x[i] ELSE r[i - Len(x)]
        BY <1>1, <1>2, ConcatProperties
    <2>2. Len(x) + Len(r) = Len(s) + Len(t)
        BY <1>1, <1>2, <1>3
    <2> QED
        BY <1>2, <2>1, <2>2
<1>5. /\ s \o t \in Seq(S) /\ Len(s \o t) = Len(s) + Len(t)
      /\ \A i \in 1..(Len(s) + Len(t)) :
            (s \o t)[i] = IF i <= Len(s) THEN s[i] ELSE t[i - Len(s)]
    BY <1>3, ConcatProperties
<1>6. ASSUME NEW i \in 1..(Len(s) + Len(t))
      PROVE  (x \o r)[i] = (s \o t)[i]
    <2>1. CASE i <= Len(s)
        <3>1. i \in 1..Len(s) /\ i <= Len(s) + 1
            BY <1>3, <2>1
        <3> QED
            BY <1>2, <1>4, <1>5, <3>1
    <2>2. CASE i = Len(s) + 1
        <3>1. i - Len(s) = 1 /\ ~(i <= Len(s)) /\ i <= Len(s) + 1
            BY <1>3, <2>2
        <3>2. (x \o r)[i] = e
            BY <1>2, <1>4, <2>2, <3>1
        <3>3. (s \o t)[i] = t[1]
            BY <1>5, <3>1
        <3> QED
            BY <1>1, <3>2, <3>3
    <2>3. CASE i > Len(s) + 1
        <3>1. i - (Len(s) + 1) \in 1..Len(r) /\ (i - (Len(s) + 1)) + 1 = i - Len(s)
            BY <1>1, <1>3, <2>3
        <3>2. r[i - (Len(s) + 1)] = t[i - Len(s)]
            BY <1>1, <3>1
        <3>3. ~(i <= Len(s)) /\ ~(i <= Len(s) + 1)
            BY <1>3, <2>3
        <3>4. (x \o r)[i] = r[i - (Len(s) + 1)]
            BY <1>4, <3>3
        <3>5. (s \o t)[i] = t[i - Len(s)]
            BY <1>5, <3>3
        <3> QED
            BY <3>2, <3>4, <3>5
    <2>4. i <= Len(s) \/ i = Len(s) + 1 \/ i > Len(s) + 1
        BY <1>3
    <2> QED
        BY <2>1, <2>2, <2>3, <2>4
<1>7. x \o r = s \o t
    BY <1>4, <1>5, <1>6, SeqEqual
<1> QED
    BY <1>7 DEF e, r, x

(* Queueing a command appends it to the replies due.                        *)
LEMMA QueueDue ==
    ASSUME NEW Names, NEW IDs, NEW Cmds, NEW c, WellFormed(Names, IDs, Cmds, c),
           NEW ce \in Cmds
    PROVE  RepliesDue(QueueCommand(c, ce)) = Append(RepliesDue(c), ce)
<1> DEFINE d == QueueCommand(c, ce)
           o == Outstanding(c)
           q == c.commandQ
<1>1. d.commandQ = Append(q, ce)
    BY DEF QueueCommand, WellFormed, CoreRecords
<1>2. Outstanding(d) = o
    BY DEF QueueCommand, WellFormed, CoreRecords, Outstanding, Busy
<1>3. o \in Seq(Cmds) /\ q \in Seq(Cmds)
    BY OutstandingType DEF WellFormed, CoreRecords
<1>4. o \o Append(q, ce) = Append(o \o q, ce)
    BY <1>3, ConcatAppend
<1> QED
    BY <1>1, <1>2, <1>4 DEF RepliesDue

(* What is due is a sequence of commands.                                   *)
LEMMA RepliesDueType ==
    ASSUME NEW Names, NEW IDs, NEW Cmds, NEW c, WellFormed(Names, IDs, Cmds, c)
    PROVE  RepliesDue(c) \in Seq(Cmds)
BY OutstandingType, ConcatProperties DEF RepliesDue, WellFormed, CoreRecords

(* Nothing is due from a core that has just been started.                   *)
LEMMA StartDue ==
    ASSUME NEW name
    PROVE  RepliesDue(StartCore(name)) = <<>>
BY DEF RepliesDue, StartCore, Outstanding, Busy

(* Terminating a core, counting it out, its exit and its own steps do not   *)
(* change what is due.                                                      *)
LEMMA QuietDue ==
    ASSUME NEW Names, NEW IDs, NEW Cmds, NEW c, WellFormed(Names, IDs, Cmds, c)
    PROVE  /\ RepliesDue(NotRunning(c)) = RepliesDue(c)
           /\ RepliesDue(Terminate(c)) = RepliesDue(c)
           /\ RepliesDue(Exit(c)) = RepliesDue(c)
           /\ \A b \in BOOLEAN : CanAnswer(c) => RepliesDue(Answer(c, b)) = RepliesDue(c)
           /\ \A b \in BOOLEAN : CanContinue(c) => RepliesDue(Continue(c, b)) = RepliesDue(c)
<1>1. RepliesDue(NotRunning(c)) = RepliesDue(c)
    BY DEF RepliesDue, NotRunning, WellFormed, CoreRecords, Outstanding, Busy
<1>2. RepliesDue(Terminate(c)) = RepliesDue(c)
    BY DEF RepliesDue, Terminate, WellFormed, CoreRecords, Outstanding, Busy
<1>3. RepliesDue(Exit(c)) = RepliesDue(c)
    BY DEF RepliesDue, Exit, WellFormed, CoreRecords, Outstanding, Busy
<1>4. ASSUME NEW b \in BOOLEAN, CanAnswer(c) PROVE RepliesDue(Answer(c, b)) = RepliesDue(c)
    BY <1>4, AnswerWellFormed DEF RepliesDue
<1>5. ASSUME NEW b \in BOOLEAN, CanContinue(c) PROVE RepliesDue(Continue(c, b)) = RepliesDue(c)
    BY <1>5, ContinueWellFormed DEF RepliesDue
<1> QED
    BY <1>1, <1>2, <1>3, <1>4, <1>5

(* Reading a line either continues the reply, or ends it, and it is no      *)
(* longer due.  In both cases the line belongs to the first command due.    *)
LEMMA ReadDue ==
    ASSUME NEW Names, NEW IDs, NEW Cmds, NEW c, WellFormed(Names, IDs, Cmds, c),
           c.fromCore # <<>>
    PROVE  LET d == LineFromCore(c)
           IN  /\ RepliesDue(c) # <<>> /\ Head(RepliesDue(c)) = Head(c.fromCore).cmd
               /\ RepliesDue(d) = IF Busy(d) THEN RepliesDue(c) ELSE Tail(RepliesDue(c))
<1> DEFINE d == LineFromCore(c)
           ce == Head(c.fromCore).cmd
           q == c.commandQ
           r == <<ce>> \o q
<1>1. /\ Outstanding(c) = <<ce>>
      /\ Busy(d) => Outstanding(d) = Outstanding(c)
    BY ReadWellFormed
<1>2. d.commandQ = q /\ q \in Seq(Cmds)
    BY DEF LineFromCore, WellFormed, CoreRecords
<1>3. <<ce>> \in Seq(Cmds) /\ ce \in Cmds
    <2>1. <<ce>> \in Seq(Cmds)
        BY <1>1, OutstandingType
    <2> QED
        BY <2>1
<1>4. RepliesDue(c) = r
    BY <1>1 DEF RepliesDue
<1>5. r # <<>> /\ Head(r) = ce /\ Tail(r) = q
    <2>1. /\ r \in Seq(Cmds) /\ r[1] = ce
          /\ Len(r) = Len(q) + 1
          /\ \A i \in 1..Len(q) : r[i + 1] = q[i]
          /\ Len(q) \in Nat
        BY <1>2, <1>3, ConcatProperties, LenProperties
    <2> HIDE DEF r
    <2>2. r # <<>>
        BY <2>1, EmptySeq
    <2>3. /\ Head(r) = ce
          /\ Tail(r) \in Seq(Cmds) /\ Len(Tail(r)) = Len(q)
          /\ \A i \in 1..Len(Tail(r)) : Tail(r)[i] = q[i]
        BY <2>1, <2>2, HeadTailProperties
    <2>4. Tail(r) = q
        BY <1>2, <2>3, SeqEqual
    <2> QED
        BY <2>2, <2>3, <2>4
<1>6. RepliesDue(d) = IF Busy(d) THEN r ELSE q
    BY <1>1, <1>2, <1>4, ConcatEmptySeq DEF RepliesDue, Outstanding
<1> HIDE DEF r, d, ce
<1> QED
    BY <1>4, <1>5, <1>6 DEF d, ce

(* What is due is the command being answered, if any, then the queue.        *)
AtCore(c) == IF Busy(c) THEN 1 ELSE 0

LEMMA DuePlaces ==
    ASSUME NEW Names, NEW IDs, NEW Cmds, NEW c, WellFormed(Names, IDs, Cmds, c)
    PROVE  /\ Len(c.commandQ) \in Nat /\ Len(RepliesDue(c)) = Len(c.commandQ) + AtCore(c)
           /\ Busy(c) => RepliesDue(c)[1].clientID = c.lastClientID
           /\ \A i \in 1..Len(c.commandQ) : RepliesDue(c)[i + AtCore(c)] = c.commandQ[i]
<1> DEFINE q == c.commandQ
<1>0. q \in Seq(Cmds) /\ Len(q) \in Nat
    BY LenProperties DEF WellFormed, CoreRecords
<1>1. CASE ~Busy(c)
    <2>1. RepliesDue(c) = q
        BY <1>0, <1>1, ConcatEmptySeq DEF RepliesDue, Outstanding
    <2> QED
        BY <1>0, <1>1, <2>1 DEF AtCore
<1>2. CASE Busy(c)
    <2>1. PICK ce : Outstanding(c) = <<ce>> /\ ce \in Cmds /\ ce.clientID = c.lastClientID
        <3>1. CASE c.fromCore # <<>>
            <4>1. c.fromCore[1] \in OutputLines(Cmds) /\ 1 \in 1..Len(c.fromCore)
                BY <3>1, HeadTailProperties, EmptySeq DEF WellFormed, CoreRecords
            <4> QED
                BY <1>2, <3>1, <4>1 DEF Outstanding, OutputLines, WellFormed, PipeLines
        <3>2. CASE c.fromCore = <<>>
            <4>1. c.toCore # <<>>
                BY <1>2, <3>2 DEF WellFormed, OneReply
            <4> QED
                BY <1>2, <3>2, <4>1, CommandOut DEF Outstanding
        <3> QED
            BY <3>1, <3>2
    <2> DEFINE r == <<ce>> \o q
    <2>2. /\ Len(r) = Len(q) + 1 /\ r[1] = ce
          /\ \A i \in 1..Len(q) : r[i + 1] = q[i]
        BY <1>0, <2>1, ConcatProperties, LenProperties
    <2>3. RepliesDue(c) = r
        BY <2>1 DEF RepliesDue
    <2> HIDE DEF r
    <2> QED
        BY <1>0, <1>2, <2>1, <2>2, <2>3 DEF AtCore
<1> QED
    BY <1>1, <1>2

(* hasDataForClient: some reply is due to the client.                       *)
LEMMA DueToClient ==
    ASSUME NEW Names, NEW IDs, NEW Cmds, NEW c, WellFormed(Names, IDs, Cmds, c), NEW s
    PROVE  HasDataForClient(c, s) <=> \E i \in 1..Len(RepliesDue(c)) : RepliesDue(c)[i].clientID = s
<1> DEFINE q == c.commandQ
           r == RepliesDue(c)
           k == AtCore(c)
<1>1. /\ Len(q) \in Nat /\ Len(r) = Len(q) + k
      /\ Busy(c) => r[1].clientID = c.lastClientID
      /\ \A i \in 1..Len(q) : r[i + k] = q[i]
    BY DuePlaces
<1>2. k \in 0..1 /\ (Busy(c) <=> k = 1)
    BY DEF AtCore
<1> HIDE DEF q, r, k
<1>3. ASSUME NEW i \in 1..Len(r), r[i].clientID = s PROVE HasDataForClient(c, s)
    <2>1. CASE k = 1 /\ i = 1
        BY <1>1, <1>2, <1>3, <2>1 DEF HasDataForClient
    <2>2. CASE ~(k = 1 /\ i = 1)
        <3>1. i - k \in 1..Len(q) /\ (i - k) + k = i
            BY <1>1, <1>2, <2>2
        <3>2. q[i - k].clientID = s
            BY <1>1, <1>3, <3>1
        <3> QED
            BY <3>1, <3>2 DEF HasDataForClient, HasQueued, q
    <2> QED
        BY <2>1, <2>2
<1>4. ASSUME HasDataForClient(c, s) PROVE \E i \in 1..Len(r) : r[i].clientID = s
    <2>1. CASE c.lastClientID = s /\ Busy(c)
        <3>1. 1 \in 1..Len(r)
            BY <1>1, <1>2, <2>1
        <3> QED
            BY <1>1, <2>1, <3>1
    <2>2. CASE HasQueued(c, s)
        <3>1. PICK i \in 1..Len(q) : q[i].clientID = s
            BY <2>2 DEF HasQueued, q
        <3>2. i + k \in 1..Len(r)
            BY <1>1, <1>2
        <3> QED
            BY <1>1, <3>1, <3>2
    <2> QED
        BY <1>4, <2>1, <2>2 DEF HasDataForClient
<1> QED
    BY <1>3, <1>4 DEF r
=============================================================================
