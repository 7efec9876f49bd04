------------------------- MODULE Processes_proofs -------------------------
(***************************************************************************)
(* Proofs about Processes, for any number of descriptors, clients and       *)
(* cores: descriptors are owned, cores survive the user's SIGINT and do not  *)
(* wait for one another in a circle.                                        *)
(***************************************************************************)
EXTENDS Processes, FiniteSetTheorems, TLAPS

(* Two free descriptors have different ranks.                               *)
LEMMA RankInjective ==
    ASSUME NEW a \in FreeFDs, NEW b \in FreeFDs, Rank(a) = Rank(b)
    PROVE  a = b
<1> DEFINE Below(x) == {f \in FreeFDs : f <= x}
<1>1. FDs \subseteq Nat /\ IsFiniteSet(FDs) /\ FreeFDs \subseteq FDs
  <2>1. FDs \subseteq Nat /\ FreeFDs \subseteq FDs
    BY DEF FDs, FreeFDs
  <2>2. 1 \in Int /\ MaxFiles \in Int
    BY BoundsAssumption
  <2> QED
    BY <2>1, <2>2, FS_Interval DEF FDs
<1>2. \A x : Below(x) \in SUBSET FDs
  BY DEF FreeFDs
<1>3. \A x : IsFiniteSet(Below(x))
  BY <1>1, <1>2, FS_Subset
<1>4. ASSUME NEW x \in FreeFDs, NEW y \in FreeFDs, x < y, Rank(x) = Rank(y) PROVE FALSE
  <2>1. \A f \in FreeFDs : f <= x => f <= y
    BY <1>1, <1>4
  <2>2. y <= y /\ ~(y <= x)
    BY <1>1, <1>4
  <2>3. Below(x) \in SUBSET Below(y) /\ y \notin Below(x) /\ y \in Below(y)
    BY <2>1, <2>2
  <2>4. Cardinality(Below(x)) = Cardinality(Below(y))
    BY <1>4 DEF Rank
  <2> QED
    BY <1>3, <2>3, <2>4, FS_Subset
<1> QED
  BY <1>1, <1>4 DEF FreeFDs

(* Opening puts each object at one free descriptor and leaves the rest.     *)
LEMMA OpeningAt ==
    ASSUME NEW objects, NEW fd \in FDs
    PROVE  \/ Opening(objects)[fd] = fds[fd] /\ ~(IsFree(fd) /\ Rank(fd) \in DOMAIN objects)
           \/ IsFree(fd) /\ Rank(fd) \in DOMAIN objects /\ Opening(objects)[fd] = objects[Rank(fd)]
BY DEF Opening

-----------------------------------------------------------------------------
LEMMA ObjectFields ==
    ASSUME NEW kind, NEW id
    PROVE  Object(kind, id).kind = kind /\ Object(kind, id).id = id
BY DEF Object

LEMMA FreeIsFree == Free \in Objects /\ Free.kind = "free" /\ Listen.kind = "listen" /\ Free # Listen
BY DEF Free, Listen, Object, Objects, Kinds

LEMMA KindsOfEnds ==
    \A end \in ServerEnds : end \notin CoreEnds /\ end \notin {"free", "listen", "socket"}
BY DEF ServerEnds, CoreEnds

(* What the invariant says of one process, and what keeps it.               *)
Fit(c, p) ==
    /\ p \in Process
    /\ p.held # {} => p.state \in {"forked", "unmasked", "grouped", "running"}
    /\ p.state \in {"grouped", "running"} => ~p.inGroup
    /\ \A o \in p.held : o.kind = "stdin1" => o.id <= c
    /\ p.state = "running" => Object("stdin1", c) \notin p.held
    /\ ~p.killed

AllFit == process \in [Cores -> Process] /\ \A c \in Cores : Fit(c, process[c])
Inheritable == \A fd \in FDs : fds[fd].kind = "stdin1" => fds[fd].id <= coreIDCounter

(* The invariant in the parts that the proofs are about.                    *)
LEMMA InvParts ==
    Inv <=> FilesOK /\ LoopOK /\ DescriptorsOwned /\ StartUnderWay /\ AcceptDoesNotBlock /\ Inheritable /\ AllFit
<1>1. AllFit => \A c \in Cores : process[c] \in Process
  BY DEF AllFit, Fit
<1> QED
  BY <1>1 DEF Inv, TypeOK, Inheritance, CoresSurviveSigint, AllFit, Fit, Inheritable

(* The same of the next state.                                              *)
LEMMA InvPartsNext ==
    ASSUME FilesOK', LoopOK', DescriptorsOwned', StartUnderWay', AcceptDoesNotBlock', Inheritable', AllFit'
    PROVE  Inv'
<1>1. \A c \in Cores : process'[c] \in Process
  BY DEF AllFit, Fit
<1> QED
  BY <1>1 DEF Inv, TypeOK, Inheritance, CoresSurviveSigint, AllFit, Fit, Inheritable

(* A process that exits, handles a SIGINT or is hit by one stays fit.       *)
LEMMA ExitedFit ==
    ASSUME NEW c \in Cores, NEW p, Fit(c, p)
    PROVE  Fit(c, Exited(p))
<1>1. Exited(p) = [state |-> "exited", held |-> {}, inGroup |-> FALSE, pending |-> FALSE,
                   ncalls |-> 0, killed |-> p.killed, reply |-> p.reply]
  BY DEF Exited
<1>2. p.killed \in BOOLEAN /\ p.reply \in {"none", "ok", "refused"} /\ ~p.killed
  BY DEF Fit, Process
<1>3. Exited(p) \in Process
  BY <1>1, <1>2 DEF Process, States
<1> QED
  BY <1>1, <1>2, <1>3 DEF Fit

LEMMA HandledByChildFit ==
    ASSUME NEW c \in Cores, NEW p, Fit(c, p), p.state \in {"forked", "unmasked"}
    PROVE  Fit(c, HandledByChild(p))
<1>1. CASE p.ncalls < 2
  <2>1. HandledByChild(p) = [p EXCEPT !.ncalls = @ + 1] /\ p.ncalls + 1 \in 0..2
    BY <1>1 DEF HandledByChild, Fit, Process
  <2> QED
    BY <2>1 DEF Fit, Process
<1>2. CASE ~(p.ncalls < 2)
  BY <1>2, ExitedFit DEF HandledByChild
<1> QED
  BY <1>1, <1>2

LEMMA InterruptedFit ==
    ASSUME NEW c \in Cores, NEW p, Fit(c, p)
    PROVE  Fit(c, Interrupted(p))
<1>1. CASE p.inGroup /\ p.state = "forked"
  <2>1. Interrupted(p) = [p EXCEPT !.pending = TRUE]
    BY <1>1 DEF Interrupted
  <2> QED
    BY <2>1 DEF Fit, Process
<1>2. CASE p.inGroup /\ p.state = "unmasked"
  <2>1. Interrupted(p) = HandledByChild(p)
    BY <1>2 DEF Interrupted
  <2> QED
    BY <1>2, <2>1, HandledByChildFit
<1>3. CASE ~p.inGroup \/ p.state \notin {"forked", "unmasked"}
  <2>1. Interrupted(p) = p
    BY <1>3 DEF Interrupted, Fit
  <2> QED
    BY <2>1
<1> QED
  BY <1>1, <1>2, <1>3

-----------------------------------------------------------------------------
(* At the start only the listening socket is open.                          *)
LEMMA InitInv == Init => Inv
<1> SUFFICES ASSUME Init PROVE Inv
  OBVIOUS
<1>1. \A fd \in FDs : fds[fd] \in {Free, Listen}
  BY DEF Init
<1>2. Free \in Objects /\ Listen \in Objects /\ Free.kind = "free" /\ Listen.kind = "listen"
  BY DEF Free, Listen, Object, Objects, Kinds
<1>3. FilesOK
  <2>1. fds \in [FDs -> Objects]
    BY <1>1, <1>2 DEF Init
  <2>2. pipes \in [Cores -> [ServerEnds -> FDs \union {None}]]
    BY DEF Init
  <2>3. DOMAIN sessionContexts = {}
    BY DEF Init
  <2>4. coreIDCounter \in 0..MaxCores
    BY BoundsAssumption DEF Init
  <2> QED
    BY <2>1, <2>2, <2>3, <2>4 DEF FilesOK, Init
<1>4. LoopOK
  <2>1. connected = 0 /\ sessionIDCounter = 0 /\ ncalls = 0 /\ cursor = 0 /\ readfds = {} /\ lines = {} /\ gone = {}
    BY DEF Init
  <2>2. 0 \in 0..MaxClients
    BY BoundsAssumption
  <2>3. deferNewConnections \in BOOLEAN /\ quit \in BOOLEAN /\ sigintPending \in BOOLEAN
    BY DEF Init
  <2>4. pc = "top"
    BY DEF Init
  <2> QED
    BY <2>1, <2>2, <2>3, <2>4 DEF LoopOK
<1>5. DescriptorsOwned
  <2>1. DOMAIN sessionContexts = {} /\ coreInstances = {}
    BY DEF Init
  <2> QED
    BY <1>1, <1>2, <2>1 DEF DescriptorsOwned,  ServerEnds, CoreEnds
<1>6. StartUnderWay /\ AcceptDoesNotBlock
  BY DEF StartUnderWay, AcceptDoesNotBlock, Starting, Init
<1>7. Inheritable
  BY <1>1, <1>2 DEF Inheritable
<1>8. AllFit
  <2>1. \A c \in Cores : Fit(c, NoProcess)
    BY DEF Fit, NoProcess, Process, States
  <2>2. process = [c \in Cores |-> NoProcess] /\ NoProcess \in Process
    BY DEF Init, NoProcess, Process, States
  <2> QED
    BY <2>1, <2>2 DEF AllFit
<1> QED
  BY <1>3, <1>4, <1>5, <1>6, <1>7, <1>8, InvParts
-----------------------------------------------------------------------------
(* A step of one process, with nothing else changing.                       *)
LEMMA ProcessStepInv ==
    ASSUME Inv, NEW c \in Cores, NEW p, Fit(c, p), ProcessStep(c, p)
    PROVE  Inv'
<1>1. UNCHANGED <<fds, sessionContexts, pipes, coreInstances, sessionIDCounter, coreIDCounter, loopVars, pc,
                  signalVars, failedStarts, clientVars>>
  BY DEF ProcessStep
<1>2. FilesOK'
  BY <1>1, InvParts DEF FilesOK, loopVars
<1>3. LoopOK'
  BY <1>1, InvParts DEF LoopOK, loopVars, signalVars, clientVars
<1>4. DescriptorsOwned'
  BY <1>1, InvParts DEF DescriptorsOwned, Starting, FDsOf
<1>5. StartUnderWay' /\ AcceptDoesNotBlock'
  BY <1>1, InvParts DEF StartUnderWay, AcceptDoesNotBlock, Starting, FDsOf, Waiting, loopVars, clientVars
<1>6. Inheritable'
  BY <1>1, InvParts DEF Inheritable
<1>7. AllFit'
  BY InvParts DEF AllFit, ProcessStep, Fit
<1> QED
  BY <1>2, <1>3, <1>4, <1>5, <1>6, <1>7, InvPartsNext

LEMMA CoreStepInv ==
    ASSUME Inv, NEW c \in Cores, CoreStep(c)
    PROVE  Inv'
<1> DEFINE p == process[c]
<1>1. Fit(c, p) /\ p \in Process
  BY InvParts DEF AllFit, Fit
<1>2. CASE ChildUnblocks(c)
  <2> DEFINE q == [p EXCEPT !.state = "unmasked", !.pending = FALSE]
  <2>1. Fit(c, q) /\ q.state = "unmasked"
    BY <1>1, <1>2 DEF ChildUnblocks, Fit, Process, States
  <2>2. Fit(c, HandledByChild(q))
    BY <2>1, HandledByChildFit
  <2> QED
    BY <1>2, <2>1, <2>2, ProcessStepInv DEF ChildUnblocks
<1>3. CASE ChildSetsGroup(c)
  <2>1. Fit(c, [p EXCEPT !.state = "grouped", !.inGroup = FALSE])
    BY <1>1, <1>3 DEF ChildSetsGroup, Fit, Process, States
  <2> QED
    BY <1>3, <2>1, ProcessStepInv DEF ChildSetsGroup
<1>4. CASE ChildExecs(c)
  <2> DEFINE q == [p EXCEPT !.state = "running", !.held = HeldAfterExec(c, @), !.ncalls = 0]
  <2>1. HeldAfterExec(c, p.held) \subseteq p.held
    BY DEF HeldAfterExec
  <2>2. Object("stdin1", c) \notin HeldAfterExec(c, p.held)
    BY DEF HeldAfterExec, ChildCloses, ServerEnds, Object
  <2>3. Fit(c, q)
    <3> DEFINE H == HeldAfterExec(c, p.held)
    <3>1. H \in SUBSET Objects /\ "running" \in States
      BY <1>1, <2>1 DEF Process, States
    <3>2. q \in Process
      <4> HIDE DEF H
      <4>1. [p EXCEPT !.state = "running", !.held = H] \in Process
        BY <1>1, <3>1 DEF Process
      <4>2. ASSUME NEW r \in Process PROVE [r EXCEPT !.ncalls = 0] \in Process
        BY DEF Process
      <4>3. [[p EXCEPT !.state = "running", !.held = H] EXCEPT !.ncalls = 0] \in Process
        BY <4>1, <4>2
      <4> QED
        BY <4>3 DEF H
    <3>3. q.state = "running" /\ q.held = H /\ q.inGroup = p.inGroup /\ q.killed = p.killed
      BY <1>1 DEF Process
    <3>4. ~p.inGroup
      BY <1>1, <1>4 DEF ChildExecs, Fit
    <3> QED
      BY <1>1, <2>1, <2>2, <3>2, <3>3, <3>4 DEF Fit
  <2> QED
    BY <1>1, <1>4, <2>3, ExitedFit, ProcessStepInv DEF ChildExecs
<1>5. CASE CoreReplies(c)
  <2>1. ASSUME NEW reply \in {"ok", "refused"} PROVE Fit(c, [p EXCEPT !.reply = reply])
    BY <1>1 DEF Fit, Process
  <2> QED
    BY <1>5, <2>1, ProcessStepInv DEF CoreReplies
<1>6. CASE CoreExits(c) \/ CoreReadsEOF(c)
  BY <1>1, <1>6, ExitedFit, ProcessStepInv DEF CoreExits, CoreReadsEOF
<1> QED
  BY <1>2, <1>3, <1>4, <1>5, <1>6 DEF CoreStep, ChildStep

-----------------------------------------------------------------------------
(* The clients.                                                             *)
LEMMA ClientStepInv ==
    ASSUME Inv, ClientStep
    PROVE  Inv'
<1>1. UNCHANGED <<fds, sessionContexts, pipes, coreInstances, sessionIDCounter, coreIDCounter, loopVars, pc,
                  signalVars, failedStarts, process>>
  BY DEF ClientStep, Connect, AskForGraph, Leave
<1>2. FilesOK'
  BY <1>1, InvParts DEF FilesOK, loopVars
<1>3. LoopOK'
  <2>1. CASE Connect
    BY <1>1, <2>1, InvParts, BoundsAssumption DEF LoopOK, loopVars, signalVars, Connect
  <2>2. CASE \E s \in Clients : AskForGraph(s) \/ Leave(s)
    <3>1. connected' = connected /\ connected \in Nat
      BY <2>2, InvParts DEF AskForGraph, Leave, LoopOK
    <3>2. lines' \subseteq 1..connected /\ gone' \subseteq 1..connected
      BY <2>2, <3>1, InvParts DEF AskForGraph, Leave, LoopOK, Clients
    <3> QED
      BY <1>1, <3>1, <3>2, InvParts DEF LoopOK, loopVars, signalVars
  <2> QED
    BY <2>1, <2>2 DEF ClientStep
<1>4. DescriptorsOwned'
  BY <1>1, InvParts DEF DescriptorsOwned, Starting, FDsOf
<1>5. StartUnderWay'
  BY <1>1, InvParts DEF StartUnderWay, Starting, FDsOf
<1>6. AcceptDoesNotBlock'
  <2>1. connected' \in {connected, connected + 1}
    BY DEF ClientStep, Connect, AskForGraph, Leave
  <2> QED
    BY <1>1, <2>1, InvParts DEF AcceptDoesNotBlock, Waiting, loopVars, LoopOK
<1>7. Inheritable' /\ AllFit'
  BY <1>1, InvParts DEF Inheritable, AllFit, Fit
<1> QED
  BY <1>2, <1>3, <1>4, <1>5, <1>6, <1>7, InvPartsNext
-----------------------------------------------------------------------------
(* A process that ends has no descriptors that could be lost.               *)
LEMMA ServerExits ==
    ASSUME Inv, fds' = [fd \in FDs |-> Free], pc' = "stopped",
           UNCHANGED <<sessionContexts, pipes, coreInstances, sessionIDCounter, coreIDCounter, loopVars,
                       clientVars>>,
           failedStarts' \subseteq 1..coreIDCounter,
           quit' \in BOOLEAN, sigintPending' \in BOOLEAN, ncalls' \in 0..2, AllFit'
    PROVE  Inv'
<1>1. Free \in Objects /\ Free.kind = "free"
  BY DEF Free, Object, Objects, Kinds
<1>2. FilesOK'
  BY <1>1, InvParts DEF FilesOK, loopVars
<1>3. LoopOK'
  BY InvParts DEF LoopOK, loopVars, clientVars
<1>4. DescriptorsOwned' /\ StartUnderWay' /\ AcceptDoesNotBlock'
  BY DEF DescriptorsOwned, StartUnderWay, AcceptDoesNotBlock, Starting
<1>5. Inheritable'
  BY <1>1 DEF Inheritable
<1> QED
  BY <1>2, <1>3, <1>4, <1>5, InvPartsNext

(* A step that opens and closes nothing keeps the account of descriptors if *)
(* a start that ends has either succeeded or is listed as failed.           *)
LEMMA SameDescriptors ==
    ASSUME Inv, pc # "stopped",
           UNCHANGED <<fds, sessionContexts, pipes, coreInstances, coreIDCounter>>,
           failedStarts \subseteq failedStarts',
           Starting => Starting' \/ coreIDCounter \in failedStarts'
    PROVE  DescriptorsOwned'
BY InvParts DEF DescriptorsOwned, FDsOf

(* The handler lets the server go on, or ends it.                           *)
LEMMA SigintInv ==
    ASSUME Inv, Sigint
    PROVE  Inv'
<1>1. AllFit'
  <2>1. \A c \in Cores : Fit(c, Interrupted(process[c]))
    BY InvParts, InterruptedFit DEF AllFit
  <2>2. \A c \in Cores : Interrupted(process[c]) \in Process
    BY <2>1 DEF Fit
  <2> QED
    BY <2>1, <2>2 DEF AllFit, Sigint
<1>2. UNCHANGED <<sessionContexts, pipes, coreInstances, sessionIDCounter, coreIDCounter, loopVars, failedStarts,
                  clientVars>>
  BY DEF Sigint
<1>3. quit' \in BOOLEAN /\ sigintPending' \in BOOLEAN /\ ncalls' \in 0..2
  <2>1. quit \in BOOLEAN /\ sigintPending \in BOOLEAN /\ ncalls \in 0..2
    BY InvParts DEF LoopOK
  <2>2. sigintPending' \in BOOLEAN
    BY <2>1 DEF Sigint, signalVars
  <2>3. ncalls' \in 0..2
    BY <2>1 DEF Sigint, HandleSigint, signalVars
  <2>4. quit' = quit \/ quit' = (quit \/ ncalls = 1)
    BY DEF Sigint, HandleSigint, signalVars
  <2> QED
    BY <2>1, <2>2, <2>3, <2>4
<1>4. CASE fds' = fds /\ (pc' = pc \/ (pc = "select" /\ pc' = "top"))
  <2>1. FilesOK'
    BY <1>2, <1>4, InvParts DEF FilesOK, loopVars
  <2>2. LoopOK'
    BY <1>2, <1>3, <1>4, InvParts DEF LoopOK, loopVars, clientVars
  <2>3. DescriptorsOwned'
    BY <1>2, <1>4, InvParts DEF DescriptorsOwned, Starting, FDsOf
  <2>4. StartUnderWay' /\ AcceptDoesNotBlock'
    BY <1>2, <1>4, InvParts DEF StartUnderWay, AcceptDoesNotBlock, Starting, FDsOf, Waiting, loopVars, clientVars
  <2>5. Inheritable'
    BY <1>2, <1>4, InvParts DEF Inheritable
  <2> QED
    BY <1>1, <2>1, <2>2, <2>3, <2>4, <2>5, InvPartsNext
<1>5. CASE fds' = [fd \in FDs |-> Free] /\ pc' = "stopped"
  BY <1>1, <1>2, <1>3, <1>5, InvParts, ServerExits DEF FilesOK
<1> QED
  BY <1>4, <1>5 DEF Sigint, HandleSigint

-----------------------------------------------------------------------------
(* The steps of the main loop that open and close nothing.                  *)
LEMMA LoopStepInv ==
    ASSUME Inv, \/ DeferralEnds \/ Select \/ SessionsDone
                \/ \E s \in Clients : ReadSessionEOF(s)
    PROVE  Inv'
<1>1. UNCHANGED <<fds, sessionContexts, pipes, coreInstances, sessionIDCounter, coreIDCounter, coresToRemove,
                  signalVars, failedStarts, process, clientVars>>
  BY DEF DeferralEnds, Select, SessionsDone, ReadSessionEOF
<1>2. \/ pc' = pc
      \/ pc \in {"select", "sessions"} /\ pc' \in {"top", "accept", "cores"}
  BY DEF DeferralEnds, Select, SessionsDone, ReadSessionEOF
<1>3. clientsToRemove' \subseteq DOMAIN sessionContexts
  <2>1. clientsToRemove \subseteq DOMAIN sessionContexts
    BY InvParts DEF FilesOK
  <2>2. ASSUME NEW s \in Clients, ReadSessionEOF(s) PROVE s \in DOMAIN sessionContexts
    BY <2>2 DEF ReadSessionEOF, NextSession, IsNext
  <2> QED
    BY <2>1, <2>2 DEF DeferralEnds, Select, SessionsDone, ReadSessionEOF
<1>4. FilesOK'
  BY <1>1, <1>3, InvParts DEF FilesOK
<1>5. LoopOK'
  <2>1. cursor' \in Nat
    BY InvParts DEF LoopOK, DeferralEnds, Select, SessionsDone, ReadSessionEOF, Clients
  <2>2. readfds' \subseteq FDs
    BY InvParts DEF LoopOK, DeferralEnds, Select, SessionsDone, ReadSessionEOF, Readable
  <2>3. deferNewConnections' \in BOOLEAN
    BY InvParts DEF LoopOK, DeferralEnds, Select, SessionsDone, ReadSessionEOF
  <2> QED
    BY <1>1, <1>2, <2>1, <2>2, <2>3, InvParts DEF LoopOK, signalVars, clientVars
<1>6. DescriptorsOwned'
  BY <1>1, <1>2, InvParts DEF DescriptorsOwned, Starting, FDsOf
<1>7. StartUnderWay'
  BY <1>1, <1>2, InvParts DEF StartUnderWay, Starting, FDsOf
<1>8. AcceptDoesNotBlock'
  <2>1. CASE Select
    <3> SUFFICES ASSUME pc' = "accept", NEW fd \in readfds', fds'[fd] = Listen PROVE Waiting'
      BY DEF AcceptDoesNotBlock
    <3>1. fd \in Readable /\ fds[fd] = Listen /\ pc # "stopped"
      BY <1>1, <2>1 DEF Select
    <3>2. \A s \in DOMAIN sessionContexts : sessionContexts[s] # fd
      <4>1. \A s \in DOMAIN sessionContexts : fds[sessionContexts[s]].kind = "socket"
        BY <3>1, InvParts DEF DescriptorsOwned, FDsOf
      <4> QED
        BY <3>1, <4>1, FreeIsFree
    <3>3. \A c \in coreInstances : pipes[c]["stdout0"] # fd
      <4>1. \A c \in coreInstances : fds[pipes[c]["stdout0"]].kind = "stdout0"
        BY <3>1, InvParts DEF DescriptorsOwned, ServerEnds, FDsOf
      <4> QED
        BY <3>1, <4>1, FreeIsFree
    <3>4. Waiting
      BY <3>1, <3>2, <3>3 DEF Readable
    <3> QED
      BY <1>1, <3>4 DEF Waiting, clientVars
  <2>2. CASE pc' # "accept"
    BY <2>2 DEF AcceptDoesNotBlock
  <2>3. CASE DeferralEnds
    BY <1>1, <2>3, InvParts DEF AcceptDoesNotBlock, DeferralEnds, Waiting, clientVars
  <2> QED
    BY <2>1, <2>2, <2>3 DEF SessionsDone, ReadSessionEOF
<1>9. Inheritable' /\ AllFit'
  BY <1>1, InvParts DEF Inheritable, AllFit, Fit
<1> QED
  BY <1>4, <1>5, <1>6, <1>7, <1>8, <1>9, InvPartsNext

(* The end of the server.                                                   *)
LEMMA StopInv ==
    ASSUME Inv, Stop
    PROVE  Inv'
<1>1. UNCHANGED <<sessionContexts, pipes, coreInstances, sessionIDCounter, coreIDCounter, loopVars, failedStarts,
                  signalVars, process, clientVars>> /\ fds' = [fd \in FDs |-> Free] /\ pc' = "stopped"
  BY DEF Stop
<1>2. AllFit'
  BY <1>1, InvParts DEF AllFit, Fit
<1>3. quit' \in BOOLEAN /\ sigintPending' \in BOOLEAN /\ ncalls' \in 0..2
  BY <1>1, InvParts DEF LoopOK, signalVars
<1> QED
  BY <1>1, <1>2, <1>3, InvParts, ServerExits DEF FilesOK

(* The sessions that are removed take their own sockets with them.          *)
LEMMA LoopTopInv ==
    ASSUME Inv, LoopTop
    PROVE  Inv'
<1> DEFINE numbers == {sessionContexts[s] : s \in clientsToRemove}
           kept    == DOMAIN sessionContexts \ clientsToRemove
<1>1. UNCHANGED <<pipes, coreInstances, sessionIDCounter, coreIDCounter, coresToRemove, deferNewConnections,
                  readfds, cursor, signalVars, failedStarts, process, clientVars>>
  BY DEF LoopTop
<1>2. /\ \A fd \in FDs : fds'[fd] = IF fd \in numbers THEN Free ELSE fds[fd]
      /\ fds' = [fd \in FDs |-> IF fd \in numbers THEN Free ELSE fds[fd]]
      /\ clientsToRemove' = {} /\ pc = "top" /\ pc' = "select"
  BY DEF LoopTop, Closing
<1>3. DOMAIN sessionContexts' = kept /\ \A s \in kept : sessionContexts'[s] = sessionContexts[s]
  BY DEF LoopTop, Restrict
<1>4. FilesOK'
  <2>1. fds' \in [FDs -> Objects]
    BY <1>2, FreeIsFree, InvParts DEF FilesOK
  <2> QED
    BY <1>1, <1>2, <1>3, <2>1, InvParts DEF FilesOK
<1>5. LoopOK'
  BY <1>1, <1>2, InvParts DEF LoopOK, signalVars, clientVars
<1>6. DescriptorsOwned'
  <2>1. /\ \A s \in DOMAIN sessionContexts : sessionContexts[s] \in FDsOf({"socket"}, s)
        /\ clientsToRemove \subseteq DOMAIN sessionContexts
    BY <1>2, InvParts DEF DescriptorsOwned, FilesOK
  <2>2. \A s \in kept : sessionContexts[s] \notin numbers
    BY <2>1 DEF FDsOf
  <2>3. \A fd \in numbers : fds[fd].kind = "socket"
    BY <2>1 DEF FDsOf
  <2>4. \A s \in DOMAIN sessionContexts' : sessionContexts'[s] \in FDsOf({"socket"}, s)'
    BY <1>2, <1>3, <2>1, <2>2 DEF FDsOf
  <2>5. \A c \in coreInstances', end \in ServerEnds : pipes'[c][end] \in FDsOf({end}, c)'
    <3>1. \A c \in coreInstances, end \in ServerEnds : pipes[c][end] \in FDsOf({end}, c)
      BY <1>2, InvParts DEF DescriptorsOwned
    <3> QED
      BY <1>1, <1>2, <2>3, <3>1, KindsOfEnds DEF FDsOf
  <2>6. ASSUME NEW fd \in FDs, fd \notin numbers, fds'[fd] = fds[fd]
        PROVE  LET o == fds'[fd]
               IN /\ o.kind = "socket" => o.id \in kept /\ sessionContexts[o.id] = fd
                  /\ o.kind \in ServerEnds \union CoreEnds =>
                        \/ o.id \in failedStarts
                        \/ o.id \in coreInstances /\ o.kind \in ServerEnds /\ pipes[o.id][o.kind] = fd
    BY <1>2, <2>6, InvParts DEF DescriptorsOwned, Starting
  <2> QED
    <3>1. \A fd \in numbers : fd \in FDs => fds'[fd].kind = "free"
      BY <1>2, FreeIsFree
    <3>2. \A fd \in FDs : fd \notin numbers => fds'[fd] = fds[fd]
      BY <1>2
    <3> QED
      BY <1>1, <1>3, <2>4, <2>5, <2>6, <3>1, <3>2 DEF DescriptorsOwned, ServerEnds, CoreEnds
<1>7. StartUnderWay' /\ AcceptDoesNotBlock'
  BY <1>2 DEF StartUnderWay, AcceptDoesNotBlock, Starting
<1>8. Inheritable'
  BY <1>1, <1>2, FreeIsFree, InvParts DEF Inheritable
<1>9. AllFit'
  BY <1>1, InvParts DEF AllFit, Fit
<1> QED
  BY <1>4, <1>5, <1>6, <1>7, <1>8, <1>9, InvPartsNext

(* A process that has exited can be waited for.                             *)
LEMMA ReapedFit ==
    ASSUME AllFit, NEW c \in Cores, process[c].state = "exited", process' = Reaped(c)
    PROVE  AllFit'
<1> DEFINE p == process[c]
<1>1. Fit(c, p) /\ p \in Process /\ p.held = {}
  BY DEF AllFit, Fit
<1>2. Fit(c, [p EXCEPT !.state = "reaped"])
  BY <1>1 DEF Fit, Process, States
<1>3. process' = [process EXCEPT ![c] = [p EXCEPT !.state = "reaped"]]
  BY DEF Reaped, AllFit
<1> QED
  BY <1>2, <1>3 DEF AllFit, Fit

LEMMA ReadCoreEOFInv ==
    ASSUME Inv, NEW c \in Cores, ReadCoreEOF(c)
    PROVE  Inv'
<1>1. UNCHANGED <<fds, sessionContexts, pipes, coreInstances, sessionIDCounter, coreIDCounter, clientsToRemove,
                  deferNewConnections, readfds, pc, signalVars, failedStarts, clientVars>>
  BY DEF ReadCoreEOF
<1>2. pc = "cores" /\ c \in coreInstances /\ coresToRemove' = coresToRemove \union {c} /\ cursor' = c
  BY DEF ReadCoreEOF, NextCore, IsNext
<1>3. FilesOK'
  BY <1>1, <1>2, InvParts DEF FilesOK
<1>4. LoopOK'
  BY <1>1, <1>2, InvParts DEF LoopOK, signalVars, clientVars, Cores
<1>5. DescriptorsOwned'
  BY <1>1, InvParts DEF DescriptorsOwned, Starting, FDsOf
<1>6. StartUnderWay' /\ AcceptDoesNotBlock'
  BY <1>1, <1>2, InvParts DEF StartUnderWay, AcceptDoesNotBlock, Starting
<1>7. Inheritable'
  BY <1>1, InvParts DEF Inheritable
<1>8. AllFit'
  BY InvParts, ReapedFit DEF ReadCoreEOF
<1> QED
  BY <1>3, <1>4, <1>5, <1>6, <1>7, <1>8, InvPartsNext

(* The cores that are removed take their own pipes with them.               *)
LEMMA EndIterationInv ==
    ASSUME Inv, EndIteration
    PROVE  Inv'
<1> DEFINE numbers == UNION {DescriptorsOf(c) : c \in coresToRemove}
           kept    == coreInstances \ coresToRemove
<1>1. UNCHANGED <<sessionContexts, pipes, sessionIDCounter, coreIDCounter, clientsToRemove, deferNewConnections,
                  signalVars, failedStarts, process, clientVars>>
  BY DEF EndIteration
<1>2. /\ fds' = [fd \in FDs |-> IF fd \in numbers THEN Free ELSE fds[fd]]
      /\ coreInstances' = kept /\ coresToRemove' = {} /\ readfds' = {} /\ cursor' = 0
      /\ pc = "cores" /\ pc' = "top"
  BY DEF EndIteration, Closing
<1>3. /\ \A fd \in numbers : fd \in FDs => fds'[fd].kind = "free"
      /\ \A fd \in FDs : fd \notin numbers => fds'[fd] = fds[fd]
  BY <1>2, FreeIsFree
<1>4. FilesOK'
  <2>1. fds' \in [FDs -> Objects]
    BY <1>2, FreeIsFree, InvParts DEF FilesOK
  <2> QED
    BY <1>1, <1>2, <2>1, InvParts DEF FilesOK
<1>5. LoopOK'
  BY <1>1, <1>2, InvParts DEF LoopOK, signalVars, clientVars
<1>6. DescriptorsOwned'
  <2>1. /\ \A c \in coreInstances, end \in ServerEnds : pipes[c][end] \in FDsOf({end}, c)
        /\ coresToRemove \subseteq coreInstances
        /\ \A s \in DOMAIN sessionContexts : sessionContexts[s] \in FDsOf({"socket"}, s)
    BY <1>2, InvParts DEF DescriptorsOwned, FilesOK
  <2>2. \A fd \in numbers : fds[fd].kind \in ServerEnds /\ fds[fd].id \in coresToRemove
    BY <2>1 DEF FDsOf, DescriptorsOf
  <2>3. \A s \in DOMAIN sessionContexts' : sessionContexts'[s] \in FDsOf({"socket"}, s)'
    BY <1>1, <1>3, <2>1, <2>2, KindsOfEnds DEF FDsOf
  <2>4. \A c \in coreInstances', end \in ServerEnds : pipes'[c][end] \in FDsOf({end}, c)'
    BY <1>1, <1>2, <1>3, <2>1, <2>2 DEF FDsOf
  <2>5. ASSUME NEW fd \in FDs, fd \notin numbers, fds'[fd] = fds[fd]
        PROVE  LET o == fds'[fd]
               IN /\ o.kind = "socket" => o.id \in DOMAIN sessionContexts /\ sessionContexts[o.id] = fd
                  /\ o.kind \in ServerEnds \union CoreEnds =>
                        \/ o.id \in failedStarts
                        \/ o.id \in kept /\ o.kind \in ServerEnds /\ pipes[o.id][o.kind] = fd
    BY <1>2, <2>5, InvParts DEF DescriptorsOwned, Starting, DescriptorsOf
  <2> QED
    BY <1>1, <1>2, <1>3, <2>3, <2>4, <2>5 DEF DescriptorsOwned, ServerEnds, CoreEnds
<1>7. StartUnderWay' /\ AcceptDoesNotBlock'
  BY <1>2 DEF StartUnderWay, AcceptDoesNotBlock, Starting
<1>8. Inheritable'
  BY <1>1, <1>3, InvParts DEF Inheritable
<1>9. AllFit'
  BY <1>1, InvParts DEF AllFit, Fit
<1> QED
  BY <1>4, <1>5, <1>6, <1>7, <1>8, <1>9, InvPartsNext

(* A session gets a descriptor that was free, and the next ID.              *)
LEMMA AcceptInv ==
    ASSUME Inv, Accept
    PROVE  Inv'
<1>1. UNCHANGED <<pipes, coreInstances, coreIDCounter, clientsToRemove, coresToRemove, readfds, signalVars,
                  failedStarts, process, clientVars>>
      /\ pc = "accept" /\ pc' = "sessions" /\ cursor' = 0
  BY DEF Accept
<1>2. StartUnderWay' /\ AcceptDoesNotBlock'
  BY <1>1 DEF StartUnderWay, AcceptDoesNotBlock, Starting
<1>3. AllFit'
  BY <1>1, InvParts DEF AllFit, Fit
<1>4. CASE UNCHANGED <<fds, sessionContexts, sessionIDCounter>>
  <2>1. deferNewConnections' \in BOOLEAN
    BY InvParts DEF Accept, LoopOK
  <2>2. FilesOK' /\ LoopOK'
    BY <1>1, <1>4, <2>1, InvParts DEF FilesOK, LoopOK, signalVars, clientVars
  <2>3. DescriptorsOwned'
    BY <1>1, <1>4, InvParts DEF DescriptorsOwned, Starting, FDsOf
  <2>4. Inheritable'
    BY <1>1, <1>4, InvParts DEF Inheritable
  <2> QED
    BY <1>2, <1>3, <2>2, <2>3, <2>4, InvPartsNext
<1>5. ASSUME NEW fd \in FreeFDs, Rank(fd) = 1, \E r \in readfds : fds[r] = Listen,
             fds' = Opening(<<Object("socket", sessionIDCounter + 1)>>),
             sessionContexts' = [i \in DOMAIN sessionContexts \union {sessionIDCounter + 1} |->
                                    IF i = sessionIDCounter + 1 THEN fd ELSE sessionContexts[i]],
             sessionIDCounter' = sessionIDCounter + 1,
             UNCHANGED deferNewConnections
      PROVE  Inv'
  <2> DEFINE s == sessionIDCounter + 1
             o == Object("socket", s)
  <2>1. fd \in FDs /\ IsFree(fd) /\ sessionIDCounter \in Nat /\ s \in Nat /\ s \notin DOMAIN sessionContexts
    BY InvParts DEF FreeFDs, LoopOK, FilesOK
  <2>2. \A f \in FDs : fds'[f] = IF f = fd THEN o ELSE fds[f]
    <3> SUFFICES ASSUME NEW f \in FDs PROVE fds'[f] = IF f = fd THEN o ELSE fds[f]
      OBVIOUS
    <3>1. DOMAIN <<o>> = {1} /\ <<o>>[1] = o
      OBVIOUS
    <3>2. IsFree(f) /\ Rank(f) = 1 <=> f = fd
      BY <1>5, <2>1, RankInjective DEF FreeFDs
    <3>3. fds'[f] = IF IsFree(f) /\ Rank(f) \in DOMAIN <<o>> THEN <<o>>[Rank(f)] ELSE fds[f]
      BY <1>5 DEF Opening
    <3> QED
      BY <3>1, <3>2, <3>3
  <2>3. DOMAIN sessionContexts' = DOMAIN sessionContexts \union {s} /\ sessionContexts'[s] = fd
        /\ \A i \in DOMAIN sessionContexts : sessionContexts'[i] = sessionContexts[i]
    BY <1>5, <2>1
  <2>4. o \in Objects /\ o.kind = "socket" /\ o.id = s
    BY <2>1 DEF Object, Objects, Kinds
  <2>5. FilesOK'
    <3>1. fds' \in [FDs -> Objects]
      <4>1. fds' = [f \in FDs |-> fds'[f]]
        BY <1>5 DEF Opening
      <4>2. \A f \in FDs : fds'[f] \in Objects
        BY <2>2, <2>4, InvParts DEF FilesOK
      <4> QED
        BY <4>1, <4>2
    <3>2. DOMAIN sessionContexts' \subseteq 1..sessionIDCounter'
      BY <1>5, <2>1, <2>3, InvParts DEF FilesOK
    <3>3. \A i \in DOMAIN sessionContexts' : sessionContexts'[i] \in FDs
      BY <2>1, <2>3, InvParts DEF FilesOK
    <3> QED
      BY <1>1, <2>3, <3>1, <3>2, <3>3, InvParts DEF FilesOK
  <2>6. LoopOK'
    <3>1. sessionIDCounter < connected
      BY <1>1, <1>5, InvParts DEF AcceptDoesNotBlock, Waiting, LoopOK
    <3>2. sessionIDCounter' \in 0..connected
      BY <1>5, <2>1, <3>1, InvParts DEF LoopOK
    <3> QED
      BY <1>1, <1>5, <3>2, InvParts DEF LoopOK, signalVars, clientVars
  <2>7. DescriptorsOwned'
    <3>1. fds[fd].kind = "free"
      BY <2>1, FreeIsFree DEF IsFree
    <3>2. /\ \A c \in coreInstances, end \in ServerEnds : pipes[c][end] \in FDsOf({end}, c)
          /\ \A i \in DOMAIN sessionContexts : sessionContexts[i] \in FDsOf({"socket"}, i)
      BY <1>1, InvParts DEF DescriptorsOwned
    <3>3. \A i \in DOMAIN sessionContexts' : sessionContexts'[i] \in FDsOf({"socket"}, i)'
      <4>1. \A i \in DOMAIN sessionContexts : sessionContexts[i] # fd
        BY <3>1, <3>2 DEF FDsOf
      <4> QED
        BY <2>1, <2>2, <2>3, <2>4, <3>2, <4>1 DEF FDsOf
    <3>4. \A c \in coreInstances', end \in ServerEnds : pipes'[c][end] \in FDsOf({end}, c)'
      <4>1. \A c \in coreInstances, end \in ServerEnds : pipes[c][end] # fd
        BY <3>1, <3>2, KindsOfEnds DEF FDsOf
      <4> QED
        BY <1>1, <2>2, <3>2, <4>1 DEF FDsOf
    <3>5. ASSUME NEW f \in FDs, f # fd, fds'[f] = fds[f]
          PROVE  LET q == fds'[f]
                 IN /\ q.kind = "socket" => q.id \in DOMAIN sessionContexts /\ sessionContexts[q.id] = f
                    /\ q.kind \in ServerEnds \union CoreEnds =>
                          \/ q.id \in failedStarts
                          \/ q.id \in coreInstances /\ q.kind \in ServerEnds /\ pipes[q.id][q.kind] = f
      BY <1>1, <3>5, InvParts DEF DescriptorsOwned, Starting
    <3>6. "socket" \notin ServerEnds \union CoreEnds
      BY DEF ServerEnds, CoreEnds
    <3> QED
      BY <1>1, <2>1, <2>2, <2>3, <2>4, <3>3, <3>4, <3>5, <3>6 DEF DescriptorsOwned
  <2>8. Inheritable'
    BY <1>1, <2>2, <2>4, InvParts DEF Inheritable
  <2> QED
    BY <1>2, <1>3, <2>5, <2>6, <2>7, <2>8, InvPartsNext
<1> QED
  BY <1>4, <1>5 DEF Accept

-----------------------------------------------------------------------------
(* What can come of the unblocking of SIGINT.                               *)
LEMMA Unblocked ==
    ASSUME Inv, NEW next, Unblock(fds' = fds /\ pc' = next)
    PROVE  /\ quit' \in BOOLEAN /\ sigintPending' \in BOOLEAN /\ ncalls' \in 0..2
           /\ \/ fds' = fds /\ pc' = next
              \/ fds' = [fd \in FDs |-> Free] /\ pc' = "stopped"
<1>1. quit \in BOOLEAN /\ sigintPending \in BOOLEAN /\ ncalls \in 0..2
  BY InvParts DEF LoopOK
<1>2. sigintPending' \in BOOLEAN
  BY DEF Unblock
<1>3. ncalls' \in 0..2
  BY <1>1 DEF Unblock, HandleSigint
<1>4. quit' = quit \/ quit' = (quit \/ ncalls = 1)
  BY DEF Unblock, HandleSigint
<1>5. \/ fds' = fds /\ pc' = next
      \/ fds' = [fd \in FDs |-> Free] /\ pc' = "stopped"
  BY DEF Unblock, HandleSigint
<1> QED
  BY <1>1, <1>2, <1>3, <1>4, <1>5

(* The number of the core that is being started.                            *)
LEMMA StartedID ==
    ASSUME Inv, Starting
    PROVE  coreIDCounter \in Cores /\ coreIDCounter \notin coreInstances /\ coreIDCounter \in 1..coreIDCounter
BY InvParts DEF StartUnderWay, Cores

(* fork fails, or the parent goes on after it: a SIGINT that came meanwhile *)
(* is handled now.                                                          *)
LEMMA AfterForkInv ==
    ASSUME Inv, ForkFails \/ ParentUnblocks
    PROVE  Inv'
<1> DEFINE next == IF ForkFails THEN "sessions" ELSE "group"
<1>1. UNCHANGED <<startVars, coreInstances, process>> /\ Starting
  BY DEF ForkFails, ParentUnblocks, Starting
<1>2. failedStarts \subseteq failedStarts' /\ failedStarts' \subseteq 1..coreIDCounter
  BY <1>1, StartedID, InvParts DEF ForkFails, ParentUnblocks, FilesOK
<1>3. AllFit'
  BY <1>1, InvParts DEF AllFit, Fit
<1>4. PICK x \in {"sessions", "group"} :
         Unblock(fds' = fds /\ pc' = x) /\ (x = "sessions" => coreIDCounter \in failedStarts')
  BY DEF ForkFails, ParentUnblocks
<1>5. /\ quit' \in BOOLEAN /\ sigintPending' \in BOOLEAN /\ ncalls' \in 0..2
      /\ \/ fds' = fds /\ pc' = x
         \/ fds' = [fd \in FDs |-> Free] /\ pc' = "stopped"
  BY <1>4, Unblocked
<1>6. CASE fds' = [fd \in FDs |-> Free] /\ pc' = "stopped"
  BY <1>1, <1>2, <1>3, <1>5, <1>6, ServerExits DEF startVars
<1>7. CASE fds' = fds /\ pc' = x
  <2>1. FilesOK'
    BY <1>1, <1>2, <1>7, InvParts DEF FilesOK, startVars, loopVars
  <2>2. LoopOK'
    BY <1>1, <1>5, <1>7, InvParts DEF LoopOK, startVars, loopVars, clientVars
  <2>3. DescriptorsOwned'
    BY <1>1, <1>2, <1>4, <1>7, SameDescriptors DEF startVars, Starting
  <2>4. StartUnderWay' /\ AcceptDoesNotBlock'
    BY <1>1, <1>7, InvParts DEF StartUnderWay, AcceptDoesNotBlock, Starting, FDsOf, startVars
  <2>5. Inheritable'
    BY <1>1, <1>7, InvParts DEF Inheritable, startVars
  <2> QED
    BY <1>3, <2>1, <2>2, <2>3, <2>4, <2>5, InvPartsNext
<1> QED
  BY <1>5, <1>6, <1>7

(* The child inherits what is open, none of it of a later core.             *)
LEMMA ForkInv ==
    ASSUME Inv, Fork
    PROVE  Inv'
<1> DEFINE c == coreIDCounter
           H == Range(fds) \ {Free}
           q == [state |-> "forked", held |-> H, inGroup |-> TRUE, pending |-> FALSE, ncalls |-> ncalls,
                 killed |-> FALSE, reply |-> "none"]
<1>1. UNCHANGED <<startVars, coreInstances, signalVars, fds, failedStarts>> /\ pc = "fork" /\ pc' = "parent"
  BY DEF Fork
<1>2. c \in Cores /\ process' = [process EXCEPT ![c] = q]
  BY <1>1, StartedID DEF Fork, Forked, Starting
<1>3. AllFit'
  <2>1. H \subseteq Objects /\ \A o \in H : o.kind = "stdin1" => o.id <= c
    BY InvParts DEF FilesOK, Inheritable, Range
  <2>2. ncalls \in 0..2
    BY InvParts DEF LoopOK
  <2> HIDE DEF H
  <2>3. q \in Process
    BY <2>1, <2>2 DEF Process, States
  <2>4. Fit(c, q)
    BY <2>1, <2>3 DEF Fit
  <2> QED
    BY <1>2, <2>3, <2>4, InvParts DEF AllFit, Fit
<1>4. FilesOK'
  BY <1>1, InvParts DEF FilesOK, startVars, loopVars
<1>5. LoopOK'
  BY <1>1, InvParts DEF LoopOK, startVars, loopVars, signalVars, clientVars
<1>6. DescriptorsOwned'
  BY <1>1, SameDescriptors DEF startVars, Starting
<1>7. StartUnderWay' /\ AcceptDoesNotBlock'
  BY <1>1, InvParts DEF StartUnderWay, AcceptDoesNotBlock, Starting, FDsOf, startVars
<1>8. Inheritable'
  BY <1>1, InvParts DEF Inheritable, startVars
<1> QED
  BY <1>3, <1>4, <1>5, <1>6, <1>7, <1>8, InvPartsNext

(* fgets finds the end of the file.                                         *)
LEMMA HandshakeEOFInv ==
    ASSUME Inv, HandshakeEOF
    PROVE  Inv'
<1>1. UNCHANGED <<startVars, coreInstances, signalVars, fds>> /\ pc = "handshake" /\ pc' = "sessions"
      /\ failedStarts' = failedStarts \union {coreIDCounter}
  BY DEF HandshakeEOF
<1>2. coreIDCounter \in Cores /\ coreIDCounter \in 1..coreIDCounter
  BY <1>1, StartedID DEF Starting
<1>3. AllFit'
  BY <1>2, InvParts, ReapedFit DEF HandshakeEOF
<1>4. FilesOK'
  BY <1>1, <1>2, InvParts DEF FilesOK, startVars, loopVars
<1>5. LoopOK'
  BY <1>1, InvParts DEF LoopOK, startVars, loopVars, signalVars, clientVars
<1>6. DescriptorsOwned'
  BY <1>1, SameDescriptors DEF startVars, Starting
<1>7. StartUnderWay' /\ AcceptDoesNotBlock'
  BY <1>1, InvParts DEF StartUnderWay, AcceptDoesNotBlock, Starting, FDsOf, startVars
<1>8. Inheritable'
  BY <1>1, InvParts DEF Inheritable, startVars
<1> QED
  BY <1>3, <1>4, <1>5, <1>6, <1>7, <1>8, InvPartsNext

(* The parent keeps its own ends, and the two copies that its streams use.  *)
LEMMA ParentSetsUpInv ==
    ASSUME Inv, ParentSetsUp
    PROVE  Inv'
<1> DEFINE c == coreIDCounter
           closed == FDsOf(CoreEnds, c)
           avail  == FreeFDs \union closed
           copies == Ends(c, <<"stdin1", "stdout0">>)
           rank(fd) == Cardinality({f \in avail : f <= fd})
<1>1. UNCHANGED <<startVars, coreInstances, signalVars, failedStarts>> /\ pc = "group" /\ pc' = "handshake"
  BY DEF ParentSetsUp
<1>2. c \in Cores /\ c \notin coreInstances
  BY <1>1, StartedID DEF Starting
<1>3. AllFit'
  <2>1. process' = [process EXCEPT ![c] = Detached(process[c])]
    BY DEF ParentSetsUp
  <2>2. Fit(c, process[c])
    BY <1>2, InvParts DEF AllFit
  <2>3. Fit(c, Detached(process[c]))
    <3>1. Fit(c, [process[c] EXCEPT !.inGroup = FALSE])
      BY <2>2 DEF Fit, Process
    <3> QED
      BY <2>2, <3>1 DEF Detached
  <2> QED
    BY <1>2, <2>1, <2>3, InvParts DEF AllFit, Fit
<1>4. fds' = [fd \in FDs |-> IF fd \notin avail THEN fds[fd]
                             ELSE IF rank(fd) \in DOMAIN copies THEN copies[rank(fd)] ELSE Free]
  BY DEF ParentSetsUp, ParentCloses
<1>5. \A i \in DOMAIN copies : copies[i] \in {Object("stdin1", c), Object("stdout0", c)}
  BY DEF Ends
<1>6. \A fd \in FDs : IF fd \notin avail THEN fds'[fd] = fds[fd]
                      ELSE fds'[fd] \in {Free, Object("stdin1", c), Object("stdout0", c)}
  <2> HIDE DEF avail, rank, copies
  <2> QED
    BY <1>4, <1>5
<1>7. \A fd \in avail : fds[fd].kind \notin ServerEnds \union {"socket"}
  BY FreeIsFree DEF FreeFDs, IsFree, FDsOf, ServerEnds, CoreEnds
<1> HIDE DEF avail
<1>8. FilesOK'
  <2>1. {Free, Object("stdin1", c), Object("stdout0", c)} \subseteq Objects
    BY <1>2, FreeIsFree DEF Object, Objects, Kinds, Cores
  <2>2. \A fd \in FDs : fds'[fd] \in Objects
    BY <1>6, <2>1, InvParts DEF FilesOK
  <2>3. fds' = [fd \in FDs |-> fds'[fd]]
    BY <1>4
  <2>4. fds' \in [FDs -> Objects]
    BY <2>2, <2>3
  <2> QED
    BY <1>1, <2>4, InvParts DEF FilesOK, startVars, loopVars
<1>9. LoopOK'
  BY <1>1, InvParts DEF LoopOK, startVars, loopVars, signalVars, clientVars
<1>10. /\ \A s \in DOMAIN sessionContexts : sessionContexts[s] \in FDsOf({"socket"}, s)'
       /\ \A i \in coreInstances \union {c}, end \in ServerEnds : pipes[i][end] \in FDsOf({end}, i)'
  <2>1. /\ \A s \in DOMAIN sessionContexts : sessionContexts[s] \in FDsOf({"socket"}, s)
        /\ \A i \in coreInstances \union {c}, end \in ServerEnds : pipes[i][end] \in FDsOf({end}, i)
    BY <1>1, InvParts DEF DescriptorsOwned, StartUnderWay, Starting
  <2> QED
    BY <1>6, <1>7, <2>1 DEF FDsOf
<1>11. DescriptorsOwned'
  <2> SUFFICES ASSUME NEW fd \in FDs
               PROVE  LET o == fds'[fd]
                      IN /\ o.kind = "socket" => o.id \in DOMAIN sessionContexts /\ sessionContexts[o.id] = fd
                         /\ o.kind \in ServerEnds \union CoreEnds =>
                               \/ o.id \in failedStarts
                               \/ o.id = c
                               \/ o.id \in coreInstances /\ o.kind \in ServerEnds /\ pipes[o.id][o.kind] = fd
    BY <1>1, <1>10 DEF DescriptorsOwned, Starting, startVars
  <2>1. CASE fds'[fd] = fds[fd]
    BY <1>1, <2>1, InvParts DEF DescriptorsOwned
  <2>2. CASE fds'[fd] \in {Free, Object("stdin1", c), Object("stdout0", c)}
    BY <2>2, FreeIsFree, ObjectFields DEF ServerEnds, CoreEnds
  <2> QED
    BY <1>6, <2>1, <2>2
<1>12. StartUnderWay' /\ AcceptDoesNotBlock'
  <2>1. ASSUME NEW fd \in FDsOf(CoreEnds, c)' PROVE FALSE
    <3>1. fd \in FDs /\ fds'[fd].kind \in CoreEnds /\ fds'[fd].id = c
      BY <1>1 DEF FDsOf, startVars
    <3>2. fd \notin avail /\ fds'[fd] = fds[fd]
      BY <1>6, <3>1, FreeIsFree, ObjectFields DEF CoreEnds
    <3> QED
      BY <3>1, <3>2 DEF FDsOf, avail
  <2>2. FDsOf(CoreEnds, coreIDCounter)' = {}
    BY <2>1
  <2> QED
    BY <1>1, <1>2, <1>10, <2>2 DEF StartUnderWay, AcceptDoesNotBlock, Starting, startVars
<1>13. Inheritable'
  <2>1. c <= c /\ coreIDCounter' = c
    BY <1>1, <1>2 DEF Cores, startVars
  <2> QED
    BY <1>6, <2>1, FreeIsFree, ObjectFields, InvParts DEF Inheritable
<1> QED
  BY <1>3, <1>8, <1>9, <1>11, <1>12, <1>13, InvPartsNext

(* With the streams closed the core has the three descriptors it has noted. *)
LEMMA HandshakeReplyInv ==
    ASSUME Inv, HandshakeReply
    PROVE  Inv'
<1> DEFINE c == coreIDCounter
           numbers == FDsOf(ServerEnds, c) \ DescriptorsOf(c)
<1>1. UNCHANGED <<startVars, signalVars, process>> /\ pc = "handshake" /\ pc' = "sessions"
      /\ fds' = Closing(numbers)
  BY DEF HandshakeReply
<1>2. \/ coreInstances' = coreInstances \union {c} /\ failedStarts' = failedStarts
      \/ failedStarts' = failedStarts \union {c} /\ coreInstances' = coreInstances
  BY DEF HandshakeReply
<1>3. c \in Cores /\ c \notin coreInstances /\ c \in 1..c
  BY <1>1, StartedID DEF Starting
<1>4. fds' = [fd \in FDs |-> IF fd \in numbers THEN Free ELSE fds[fd]]
  BY <1>1 DEF Closing
<1>5. \A fd \in FDs : IF fd \in numbers THEN fds'[fd] = Free ELSE fds'[fd] = fds[fd]
  BY <1>4
<1>6. AllFit'
  BY <1>1, InvParts DEF AllFit, Fit
<1>7. FilesOK'
  <2>1. fds' \in [FDs -> Objects]
    BY <1>4, FreeIsFree, InvParts DEF FilesOK
  <2>2. coreInstances' \subseteq 1..c /\ failedStarts' \subseteq 1..c /\ coresToRemove \subseteq coreInstances'
    BY <1>2, <1>3, InvParts DEF FilesOK
  <2> QED
    BY <1>1, <2>1, <2>2, InvParts DEF FilesOK, startVars, loopVars
<1>8. LoopOK'
  BY <1>1, InvParts DEF LoopOK, startVars, loopVars, signalVars, clientVars
<1>9. DescriptorsOwned'
  <2>1. /\ \A s \in DOMAIN sessionContexts : sessionContexts[s] \in FDsOf({"socket"}, s)
        /\ \A i \in coreInstances \union {c}, end \in ServerEnds : pipes[i][end] \in FDsOf({end}, i)
        /\ FDsOf(CoreEnds, c) = {}
    BY <1>1, InvParts DEF DescriptorsOwned, StartUnderWay, Starting
  <2>2. \A s \in DOMAIN sessionContexts : sessionContexts[s] \in FDsOf({"socket"}, s)'
    BY <1>5, <2>1, KindsOfEnds DEF FDsOf
  <2>3. \A i \in coreInstances \union {c}, end \in ServerEnds : pipes[i][end] \in FDsOf({end}, i)'
    <3>1. ASSUME NEW i \in coreInstances \union {c}, NEW end \in ServerEnds PROVE pipes[i][end] \notin numbers
      <4>1. fds[pipes[i][end]].id = i
        BY <2>1 DEF FDsOf
      <4>2. CASE i = c
        BY <4>2 DEF DescriptorsOf
      <4>3. CASE i # c
        BY <4>1, <4>3 DEF FDsOf
      <4> QED
        BY <4>2, <4>3
    <3> QED
      BY <1>5, <2>1, <3>1 DEF FDsOf
  <2>4. ASSUME NEW fd \in FDs
        PROVE  LET o == fds'[fd]
               IN /\ o.kind = "socket" => o.id \in DOMAIN sessionContexts /\ sessionContexts[o.id] = fd
                  /\ o.kind \in ServerEnds \union CoreEnds =>
                        \/ o.id \in failedStarts
                        \/ o.id \in coreInstances \union {c} /\ o.kind \in ServerEnds /\ pipes[o.id][o.kind] = fd
    <3>1. CASE fd \in numbers
      BY <1>5, <3>1, FreeIsFree DEF ServerEnds, CoreEnds
    <3>2. CASE fd \notin numbers /\ fds[fd].id # c
      BY <1>1, <1>5, <3>2, InvParts DEF DescriptorsOwned
    <3>3. CASE fd \notin numbers /\ fds[fd].id = c /\ fds[fd].kind \in ServerEnds \union CoreEnds
      <4>1. fds[fd].kind \in ServerEnds
        BY <2>1, <3>3 DEF FDsOf
      <4>2. PICK end \in ServerEnds : fd = pipes[c][end]
        BY <3>3, <4>1 DEF FDsOf, DescriptorsOf
      <4>3. fds[fd].kind = end
        BY <2>1, <4>2 DEF FDsOf
      <4> QED
        BY <1>5, <3>3, <4>1, <4>2, <4>3, KindsOfEnds
    <3>4. CASE fd \notin numbers /\ fds[fd].kind \notin ServerEnds \union CoreEnds
      BY <1>1, <1>5, <3>4, InvParts DEF DescriptorsOwned
    <3> QED
      BY <3>1, <3>2, <3>3, <3>4
  <2> QED
    BY <1>1, <1>2, <2>2, <2>3, <2>4 DEF DescriptorsOwned, Starting, startVars
<1>10. StartUnderWay' /\ AcceptDoesNotBlock'
  BY <1>1 DEF StartUnderWay, AcceptDoesNotBlock, Starting
<1>11. Inheritable'
  BY <1>1, <1>5, FreeIsFree, InvParts DEF Inheritable, startVars
<1> QED
  BY <1>6, <1>7, <1>8, <1>9, <1>10, <1>11, InvPartsNext

(* What the calls of pipe open are ends of the new core's pipes.            *)
LEMMA PipesOpened ==
    ASSUME NEW c, NEW made \in 0..6, NEW fd \in FDs
    PROVE  \/ Opening(Ends(c, SubSeq(PipeOrder, 1, made)))[fd] = fds[fd]
           \/ /\ IsFree(fd)
              /\ \E end \in ServerEnds \union CoreEnds :
                    Opening(Ends(c, SubSeq(PipeOrder, 1, made)))[fd] = Object(end, c)
<1> DEFINE kinds == SubSeq(PipeOrder, 1, made)
           r     == Rank(fd)
<1>1. DOMAIN kinds = 1..made /\ \A i \in 1..made : kinds[i] = PipeOrder[i]
  <2>1. PipeOrder \in Seq(Kinds) /\ Len(PipeOrder) = 6
    BY DEF PipeOrder, Kinds
  <2> QED
    BY <2>1
<1>2. \A i \in 1..6 : PipeOrder[i] \in ServerEnds \union CoreEnds
  BY DEF PipeOrder, ServerEnds, CoreEnds
<1>3. DOMAIN Ends(c, kinds) = DOMAIN kinds /\ \A i \in DOMAIN kinds : Ends(c, kinds)[i] = Object(kinds[i], c)
  BY DEF Ends
<1>4. CASE r \in DOMAIN Ends(c, kinds) /\ IsFree(fd)
  <2>1. Opening(Ends(c, kinds))[fd] = Ends(c, kinds)[r]
    BY <1>4, OpeningAt
  <2>2. r \in 1..made /\ r \in 1..6
    BY <1>1, <1>3, <1>4
  <2> QED
    BY <1>1, <1>2, <1>3, <1>4, <2>1, <2>2
<1>5. CASE ~(r \in DOMAIN Ends(c, kinds) /\ IsFree(fd))
  BY <1>5, OpeningAt
<1> QED
  BY <1>4, <1>5

(* A start has opened either all the pipes, or fewer and has failed.        *)
LEMMA StartCoreInv ==
    ASSUME Inv, NEW s \in Clients, StartCore(s)
    PROVE  Inv'
<1> DEFINE c    == coreIDCounter + 1
           made == IF Cardinality(FreeFDs) >= 6 THEN 6 ELSE 2 * (Cardinality(FreeFDs) \div 2)
           new  == Opening(Ends(c, SubSeq(PipeOrder, 1, made)))
<1>1. /\ UNCHANGED <<sessionContexts, coreInstances, sessionIDCounter, clientsToRemove, coresToRemove,
                     deferNewConnections, readfds, signalVars, process, connected, gone>>
      /\ pc = "sessions" /\ lines' = lines \ {s} /\ cursor' = s /\ coreIDCounter' = c /\ fds' = new
      /\ coreIDCounter < MaxCores
  BY DEF StartCore
<1>2. coreIDCounter \in Nat /\ c \in Cores /\ c \in 1..c /\ c \notin coreInstances /\ MaxCores \in Nat
  BY <1>1, BoundsAssumption, InvParts DEF FilesOK, Cores
<1>3. made \in 0..6
  <2>1. Cardinality(FreeFDs) \in Nat
    <3>1. IsFiniteSet(FDs)
      BY BoundsAssumption, FS_Interval DEF FDs
    <3>2. IsFiniteSet(FreeFDs)
      BY <3>1, FS_Subset DEF FreeFDs
    <3> QED
      BY <3>2, FS_CardinalityType
  <2>2. ASSUME NEW n \in Nat, ~(n >= 6) PROVE 2 * (n \div 2) \in 0..6
    BY <2>2
  <2> QED
    BY <2>1, <2>2
<1> HIDE DEF made
<1>4. \A fd \in FDs : \/ fds'[fd] = fds[fd]
                      \/ IsFree(fd) /\ \E end \in ServerEnds \union CoreEnds : fds'[fd] = Object(end, c)
  BY <1>1, <1>3, PipesOpened
<1>5. \/ /\ pc' = "fork" /\ failedStarts' = failedStarts
         /\ \E numbers \in [ServerEnds -> FreeFDs] :
               /\ \A end \in ServerEnds : fds'[numbers[end]] = Object(end, c)
               /\ pipes' = [pipes EXCEPT ![c] = numbers]
      \/ failedStarts' = failedStarts \union {c} /\ pc' = pc /\ pipes' = pipes
  BY <1>1 DEF StartCore
<1>6. \A i \in Cores : i # c => pipes'[i] = pipes[i]
  BY <1>5, InvParts DEF FilesOK
<1>7. FilesOK'
  <2>1. \A end \in ServerEnds \union CoreEnds : Object(end, c) \in Objects
    BY <1>2 DEF ServerEnds, CoreEnds, Object, Objects, Kinds
  <2>2. \A fd \in FDs : fds'[fd] \in Objects
    BY <1>4, <2>1, InvParts DEF FilesOK
  <2>3. fds' = [fd \in FDs |-> fds'[fd]]
    BY <1>1 DEF Opening
  <2>4. fds' \in [FDs -> Objects]
    BY <2>2, <2>3
  <2>5. pipes' \in [Cores -> [ServerEnds -> FDs \union {None}]]
    <3>1. [ServerEnds -> FreeFDs] \subseteq [ServerEnds -> FDs \union {None}]
      BY DEF FreeFDs
    <3> QED
      BY <1>2, <1>5, <3>1, InvParts DEF FilesOK
  <2>6. coreIDCounter' \in 0..MaxCores
    BY <1>1, <1>2
  <2>7. coreInstances' \subseteq 1..coreIDCounter' /\ failedStarts' \subseteq 1..coreIDCounter'
    <3>1. 1..coreIDCounter \subseteq 1..c
      BY <1>2
    <3> QED
      BY <1>1, <1>2, <1>5, <3>1, InvParts DEF FilesOK
  <2> QED
    BY <1>1, <2>4, <2>5, <2>6, <2>7, InvParts DEF FilesOK
<1>8. LoopOK'
  <2>1. cursor' \in Nat /\ lines' \subseteq 1..connected
    BY <1>1, InvParts DEF LoopOK, Clients
  <2> QED
    BY <1>1, <1>5, <2>1, InvParts DEF LoopOK, signalVars
<1>9. /\ \A i \in DOMAIN sessionContexts : sessionContexts[i] \in FDsOf({"socket"}, i)'
      /\ \A i \in coreInstances, end \in ServerEnds : pipes'[i][end] \in FDsOf({end}, i)'
  <2>1. /\ \A i \in DOMAIN sessionContexts : sessionContexts[i] \in FDsOf({"socket"}, i)
        /\ \A i \in coreInstances, end \in ServerEnds : pipes[i][end] \in FDsOf({end}, i)
    BY <1>1, InvParts DEF DescriptorsOwned
  <2>2. \A fd \in FDs : fds[fd].kind # "free" => fds'[fd] = fds[fd]
    BY <1>4, FreeIsFree DEF IsFree
  <2>3. \A i \in coreInstances : pipes'[i] = pipes[i]
    BY <1>1, <1>2, <1>6, InvParts DEF FilesOK, Cores
  <2> QED
    BY <2>1, <2>2, <2>3, KindsOfEnds DEF FDsOf
<1>10. \/ c \in failedStarts'
       \/ Starting'
  BY <1>5 DEF Starting
<1>11. DescriptorsOwned'
  <2> SUFFICES ASSUME NEW fd \in FDs
               PROVE  LET o == fds'[fd]
                      IN /\ o.kind = "socket" => o.id \in DOMAIN sessionContexts /\ sessionContexts[o.id] = fd
                         /\ o.kind \in ServerEnds \union CoreEnds =>
                               \/ o.id \in failedStarts'
                               \/ Starting' /\ o.id = c
                               \/ o.id \in coreInstances /\ o.kind \in ServerEnds /\ pipes'[o.id][o.kind] = fd
    BY <1>1, <1>9 DEF DescriptorsOwned
  <2>1. CASE fds'[fd] = fds[fd]
    <3>1. failedStarts \subseteq failedStarts' /\ \A i \in coreInstances : pipes'[i] = pipes[i]
      BY <1>1, <1>2, <1>5, <1>6, InvParts DEF FilesOK, Cores
    <3> QED
      BY <1>1, <2>1, <3>1, InvParts DEF DescriptorsOwned, Starting
  <2>2. CASE \E end \in ServerEnds \union CoreEnds : fds'[fd] = Object(end, c)
    <3>1. "socket" \notin ServerEnds \union CoreEnds
      BY DEF ServerEnds, CoreEnds
    <3> QED
      BY <1>10, <2>2, <3>1, ObjectFields
  <2> QED
    BY <1>4, <2>1, <2>2
<1>12. StartUnderWay'
  <2>1. CASE pc' = "fork"
    <3>1. PICK numbers \in [ServerEnds -> FreeFDs] :
             /\ \A end \in ServerEnds : fds'[numbers[end]] = Object(end, c)
             /\ pipes' = [pipes EXCEPT ![c] = numbers]
      BY <1>1, <1>5, <2>1
    <3>2. pipes'[c] = numbers
      BY <1>2, <3>1, InvParts DEF FilesOK
    <3>3. \A end \in ServerEnds : pipes'[c][end] \in FDsOf({end}, coreIDCounter)'
      BY <1>1, <3>1, <3>2, ObjectFields DEF FDsOf, FreeFDs
    <3> QED
      BY <1>1, <1>2, <2>1, <3>3 DEF StartUnderWay
  <2>2. CASE pc' = "sessions"
    BY <2>2 DEF StartUnderWay, Starting
  <2> QED
    BY <1>1, <1>5, <2>1, <2>2
<1>13. AcceptDoesNotBlock'
  BY <1>1, <1>5 DEF AcceptDoesNotBlock
<1>14. Inheritable'
  <2>1. \A fd \in FDs : fds[fd].kind = "stdin1" => fds[fd].id \in Nat /\ fds[fd].id <= c
    BY <1>2, InvParts DEF Inheritable, FilesOK, Objects
  <2> QED
    BY <1>1, <1>2, <1>4, <2>1, ObjectFields DEF Inheritable
<1>15. AllFit'
  BY <1>1, InvParts DEF AllFit, Fit
<1> QED
  BY <1>7, <1>8, <1>11, <1>12, <1>13, <1>14, <1>15, InvPartsNext

-----------------------------------------------------------------------------
(* Inv holds in every state: it is kept by every step of the server, the    *)
(* processes, the clients and by SIGINT at any moment.                      *)
THEOREM Invariance == Spec => []Inv
<1>1. Inv /\ [Next]_vars => Inv'
  <2> SUFFICES ASSUME Inv, [Next]_vars PROVE Inv'
    OBVIOUS
  <2>1. CASE Stop \/ LoopTop \/ Accept \/ EndIteration
    BY <2>1, StopInv, LoopTopInv, AcceptInv, EndIterationInv
  <2>2. CASE DeferralEnds \/ Select \/ SessionsDone \/ \E s \in Clients : ReadSessionEOF(s)
    BY <2>2, LoopStepInv
  <2>3. CASE \E s \in Clients : StartCore(s)
    BY <2>3, StartCoreInv
  <2>4. CASE \E c \in Cores : ReadCoreEOF(c)
    BY <2>4, ReadCoreEOFInv
  <2>5. CASE ForkFails \/ Fork \/ ParentUnblocks \/ ParentSetsUp
    BY <2>5, AfterForkInv, ForkInv, ParentSetsUpInv
  <2>6. CASE HandshakeReply \/ HandshakeEOF
    BY <2>6, HandshakeReplyInv, HandshakeEOFInv
  <2>7. CASE Sigint \/ ClientStep \/ \E c \in Cores : CoreStep(c)
    BY <2>7, SigintInv, ClientStepInv, CoreStepInv
  <2>8. CASE UNCHANGED vars
    <3>1. UNCHANGED <<fds, sessionContexts, pipes, coreInstances, sessionIDCounter, coreIDCounter, loopVars, pc,
                      signalVars, failedStarts, process, clientVars>>
      BY <2>8 DEF vars
    <3>2. FilesOK' /\ LoopOK'
      BY <3>1, InvParts DEF FilesOK, LoopOK, loopVars, signalVars, clientVars
    <3>3. DescriptorsOwned'
      BY <3>1, InvParts DEF DescriptorsOwned, Starting, FDsOf
    <3>4. StartUnderWay' /\ AcceptDoesNotBlock'
      BY <3>1, InvParts DEF StartUnderWay, AcceptDoesNotBlock, Starting, FDsOf, Waiting, loopVars, clientVars
    <3>5. Inheritable' /\ AllFit'
      BY <3>1, InvParts DEF Inheritable, AllFit, Fit
    <3> QED
      BY <3>2, <3>3, <3>4, <3>5, InvPartsNext
  <2> QED
    BY <2>1, <2>2, <2>3, <2>4, <2>5, <2>6, <2>7, <2>8 DEF Next, ServerStep
<1> QED
  BY <1>1, InitInv, PTL DEF Spec

(* Every variable keeps its type, and a process that has exited holds       *)
(* nothing.                                                                 *)
THEOREM TypeCorrect == Spec => []TypeOK
<1>1. Inv => TypeOK
  BY DEF Inv
<1> QED
  BY <1>1, Invariance, PTL

(* However clients come and go and starts fail, every open descriptor has   *)
(* an owner that has noted it, a failed start excepted.                     *)
THEOREM Ownership == Spec => []DescriptorsOwned
<1>1. Inv => DescriptorsOwned
  BY DEF Inv
<1> QED
  BY <1>1, Invariance, PTL

(* The two calls of setpgid, by the parent and by the child, suffice: at no *)
(* moment does a SIGINT from the terminal kill a core.                      *)
THEOREM Survival == Spec => []CoresSurviveSigint
<1>1. Inv => CoresSurviveSigint
  BY DEF Inv
<1> QED
  BY <1>1, Invariance, PTL

(* A running core holds at most the stdin of cores with smaller IDs, so     *)
(* "waits for" is well founded, for any number of cores.                    *)
THEOREM WellFounded == Spec => []NoCircularWait
<1>1. Inv => NoCircularWait
  <2> SUFFICES ASSUME Inv, NEW c \in Cores, NEW d \in Cores, process[c].state = "running",
                      Object("stdin1", d) \in process[c].held
               PROVE  d < c
    BY DEF NoCircularWait
  <2>1. Object("stdin1", d).kind = "stdin1" /\ Object("stdin1", d).id = d
    BY ObjectFields
  <2>2. Fit(c, process[c])
    BY InvParts DEF AllFit
  <2>3. d <= c /\ d # c
    BY <2>1, <2>2 DEF Fit
  <2> QED
    BY <2>3 DEF Cores
<1> QED
  BY <1>1, Invariance, PTL
=============================================================================
