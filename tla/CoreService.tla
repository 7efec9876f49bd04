---------------------------- MODULE CoreService ----------------------------
(***************************************************************************)
(* One GraphCore process shared by several client sessions: forwardToCore   *)
(* queues and flushes, the main loop flushes again, the process answers     *)
(* line by line, lineFromCore parses and routes each line to the client     *)
(* whose command was written last, clients disappear and the process dies.  *)
(* A client may give a command whenever it likes: the pacing of sessions    *)
(* (lineQueue) is Graphserv's.                                              *)
(***************************************************************************)
EXTENDS CoreInstance

CONSTANTS
    Clients,        \* the session IDs that ever exist
    MaxCommands,    \* bound: commands given by one client
    PipeCapacity,   \* lines the core's stdout pipe holds before the core blocks
    UseLibevent,    \* TRUE: the -e main loop, which never flushes queues itself
    MayCrash        \* TRUE: the process may exit of its own accord

ASSUME ClientsAssumption == NoClient \notin Clients
ASSUME BoundsAssumption ==
    /\ MaxCommands \in Nat
    /\ PipeCapacity \in Nat \ {0}
    /\ UseLibevent \in BOOLEAN /\ MayCrash \in BOOLEAN

VARIABLES
    core,        \* the CoreInstance and its process
    connected,   \* clients findClient() finds
    sent,        \* how many commands each client has given
    served,      \* history: commands whose reply has been consumed in full
    removed      \* removeCoreInstance has deleted the object

vars == <<core, connected, sent, served, removed>>

Init ==
    /\ core = StartCore("g")
    /\ connected = Clients
    /\ sent = [cl \in Clients |-> 0]
    /\ served = <<>>
    /\ removed = FALSE

-----------------------------------------------------------------------------
\* processCommand collects the data set of a command that takes one first.
Complete(cl, n, word, takesData) ==
    [clientID |-> cl, tag |-> n, word |-> word,
     acceptsData |-> takesData, dataFinished |-> TRUE, dataset |-> <<>>]

(* forwardToCore for a client whose access was granted.                     *)
Give(cl, word, takesData) ==
    LET ce == Complete(cl, sent[cl] + 1, word, takesData)
        q  == FlushCommandQ(QueueCommand(core, ce))
    IN /\ ~removed /\ core.processRunning
       /\ cl \in connected
       /\ sent[cl] < MaxCommands
       /\ sent' = [sent EXCEPT ![cl] = @ + 1]
       /\ core' = IF word = "shutdown" THEN NotRunning(q) ELSE q
       /\ UNCHANGED <<connected, served, removed>>

\* An ordinary core command.
Submit(cl) == \E takesData \in BOOLEAN : Give(cl, "command", takesData)

\* The shutdown command: forwarded, then the core is no longer "running".
Shutdown(cl) == Give(cl, "shutdown", FALSE)

\* Mutant: the loop that leaves the queues to forwardToCore.
LoopTopNoFlush == ~UseLibevent /\ ~removed /\ UNCHANGED vars

\* Mutant: a core that does not count as running is passed over.
LoopTopRunning ==
    /\ ~UseLibevent
    /\ ~removed
    /\ core' = IF core.processRunning THEN FlushCommandQ(core) ELSE core
    /\ UNCHANGED <<connected, sent, served, removed>>

\* The top of the select loop tries every core's queue.
LoopTop ==
    /\ ~UseLibevent
    /\ ~removed
    /\ core' = FlushCommandQ(core)
    /\ UNCHANGED <<connected, sent, served, removed>>

\* drop-graph, by some session.
Drop ==
    /\ ~removed /\ core.processRunning
    /\ core' = Terminate(core)
    /\ UNCHANGED <<connected, sent, served, removed>>

\* Mutant: a leaving client takes its queued commands along.
DisconnectPurges(cl) ==
    /\ cl \in connected
    /\ connected' = connected \ {cl}
    /\ core' = [core EXCEPT !.commandQ = SelectSeq(@, LAMBDA ce : ce.clientID # cl)]
    /\ UNCHANGED <<sent, served, removed>>

\* removeSession: the client's queued commands stay in the queue.
Disconnect(cl) ==
    /\ cl \in connected
    /\ connected' = connected \ {cl}
    /\ UNCHANGED <<core, sent, served, removed>>

\* The server consumes one line of output.
ReadLine ==
    /\ ~removed
    /\ core.fromCore # <<>>
    /\ core' = LineFromCore(core)
    /\ served' = IF Busy(core) /\ ~Busy(core')
                 THEN Append(served, Head(core.fromCore).cmd)
                 ELSE served
    /\ UNCHANGED <<connected, sent, removed>>

\* The server reads end of file and deletes the object.
Remove ==
    /\ ~removed
    /\ AtEOF(core)
    /\ removed' = TRUE
    /\ UNCHANGED <<core, connected, sent, served>>

-----------------------------------------------------------------------------
(* The process. *)

CoreAnswers ==
    /\ CanAnswer(core)
    /\ Len(core.fromCore) < PipeCapacity
    /\ \E colon \in BOOLEAN : core' = Answer(core, colon)
    /\ UNCHANGED <<connected, sent, served, removed>>

CoreContinues(blank) ==
    /\ CanContinue(core)
    /\ Len(core.fromCore) < PipeCapacity
    /\ core' = Continue(core, blank)
    /\ UNCHANGED <<connected, sent, served, removed>>

\* A crash, or the SIGTERM of drop-graph.
CoreExits ==
    /\ core.process # "exited"
    /\ MayCrash \/ core.killed
    /\ core' = Exit(core)
    /\ UNCHANGED <<connected, sent, served, removed>>

-----------------------------------------------------------------------------
Next ==
    \/ \E cl \in Clients : Submit(cl) \/ Shutdown(cl) \/ Disconnect(cl)
    \/ LoopTop \/ Drop \/ ReadLine \/ Remove
    \/ CoreAnswers \/ (\E blank \in BOOLEAN : CoreContinues(blank)) \/ CoreExits

Spec == Init /\ [][Next]_vars

\* The server's loop runs and reads what is readable; the process answers its
\* commands, ends the data sets it began and goes when it is told to.  No client
\* is obliged to do anything.
Fairness ==
    /\ WF_vars(LoopTop) /\ WF_vars(ReadLine) /\ WF_vars(Remove)
    /\ WF_vars(CoreAnswers) /\ SF_vars(CoreContinues(TRUE))
    /\ WF_vars(CoreExits /\ core.killed)

FairSpec == Spec /\ Fairness

-----------------------------------------------------------------------------
(* Type correctness.  A command reaches a queue only when its data set is   *)
(* complete, so that no front entry can block flushCommandQ for everyone.   *)
Command == [clientID : Clients, tag : Nat, word : {"command", "shutdown"},
            acceptsData : BOOLEAN, dataFinished : {TRUE}, dataset : Seq(Nat)]

Core == CoreRecords({"g"}, Clients, Command)

TypeOK ==
    /\ core \in Core
    /\ connected \subseteq Clients
    /\ sent \in [Clients -> Nat]
    /\ served \in Seq(Command)
    /\ removed \in BOOLEAN

-----------------------------------------------------------------------------
(* Every line the core writes reaches the client whose command it answers   *)
(* (lineFromCore sends it to lastClientID, whatever the line says).         *)
ReplyRouting ==
    core.fromCore # <<>> => Head(core.fromCore).cmd.clientID = core.lastClientID

(* The reply parser stays in step with the core: a status line is forwarded *)
(* as one, a data line as one, and the branch of lineFromCore commented     *)
(* "a core sent data we didn't ask for. this shouldn't happen" is dead.     *)
ReplyFraming ==
    core.fromCore # <<>> => ForwardAs(core) = Head(core.fromCore).part

(* At most one command is out at a time, and none is written before the     *)
(* previous reply has been read to its last line.                           *)
OneOutstanding ==
    /\ Len(core.toCore) <= 1
    /\ core.toCore # <<>> => Busy(core)

(* The invariant behind the three (CoreInstance defines its two parts).     *)
Inv == TypeOK /\ OneReply(core) /\ PipeLines(core)

-----------------------------------------------------------------------------
\* The commands whose replies are due, and every command accepted so far, in
\* the order of the replies.
Due == RepliesDue(core)

History == served \o Due

TagsOf(h, cl) == {h[i].tag : i \in {j \in 1..Len(h) : h[j].clientID = cl}}

InOrder(h) ==
    \A i, j \in 1..Len(h) : i < j /\ h[i].clientID = h[j].clientID => h[i].tag < h[j].tag

(* A client's commands are answered in the order it gave them, none twice,  *)
(* and the ones still to be answered will be.                               *)
ServedInOrder == InOrder(History)

(* No accepted command is lost and none is made up, whoever has left in the *)
(* meantime: a client's commands are those answered, the one being answered *)
(* and those queued, until the object is deleted.                           *)
NoCommandLost == \A cl \in Clients : TagsOf(History, cl) = 1..sent[cl]

GivenCommands ==
    {Complete(cl, n, word, takesData) : cl \in Clients, n \in 1..MaxCommands,
                                        word \in {"command", "shutdown"}, takesData \in BOOLEAN}

(* The core service is a first-come-first-served command service.           *)
Service == INSTANCE CommandService WITH
    Commands <- GivenCommands,
    pending  <- IF removed THEN <<>> ELSE Due,
    served   <- served,
    stopped  <- removed

ServiceSpec == Service!ServiceSpec

(* Every accepted command is answered, however many clients share the core  *)
(* and whether or not the others are still there, unless the core exits.    *)
EveryCommandServed ==
    \A cl \in Clients : \A n \in 1..MaxCommands :
        sent[cl] >= n ~>
            \/ core.process = "exited"
            \/ \E i \in 1..Len(served) : served[i].clientID = cl /\ served[i].tag = n

(* A core that was dropped or shut down, and is no longer counted as        *)
(* running, is deleted in the end: its queue is still flushed up to the     *)
(* shutdown command, and its output read (ccDropGraph, ccShutdown).         *)
TerminatedRemoved == ~core.processRunning ~> removed
=============================================================================
