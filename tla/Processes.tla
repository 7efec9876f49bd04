----------------------------- MODULE Processes -----------------------------
(***************************************************************************)
(* The server and its core processes as the kernel sees them: descriptors,  *)
(* pipes and who holds their ends, SIGINT (src/src/coreinstance.h startCore,*)
(* src/src/servapp.h mainloop_select).  Clients connect, ask for a graph    *)
(* and leave; what the cores are asked later is the business of Graphserv.  *)
(***************************************************************************)
EXTENDS Naturals, Sequences, FiniteSets, Functions

CONSTANTS
    MaxFiles,       \* RLIMIT_NOFILE, without the standard streams
    MaxClients,     \* bound: connections ever made
    MaxCores        \* bound: create-graph commands ever given

ASSUME BoundsAssumption == MaxFiles \in Nat \ {0} /\ MaxClients \in Nat \ {0} /\ MaxCores \in Nat \ {0}

FDs == 1..MaxFiles
Clients == 1..MaxClients    \* session IDs: connections are accepted in their order
Cores == 1..MaxCores        \* instance IDs

\* What a descriptor may refer to; of a pipe, end 0 is read and end 1 written.
Kinds == {"free", "listen", "socket", "stdin0", "stdin1", "stdout0", "stdout1", "stderr0", "stderr1"}
Object(kind, id) == [kind |-> kind, id |-> id]
Free == Object("free", 0)
Listen == Object("listen", 0)

PipeOrder == <<"stdin0", "stdin1", "stdout0", "stdout1", "stderr0", "stderr1">>
ServerEnds == {"stdin1", "stdout0", "stderr0"}
CoreEnds == {"stdin0", "stdout1", "stderr1"}
None == 0                   \* no descriptor: -1

\* forked: SIGINT blocked; unmasked: in startCore's child branch, still the
\* server's code and handlers; grouped: out of its process group; running: exec'd.
NoProcess == [state |-> "none", held |-> {}, inGroup |-> FALSE, pending |-> FALSE,
              ncalls |-> 0, killed |-> FALSE, reply |-> "none"]

VARIABLES
    fds,                \* the server's descriptor table
    sessionContexts,    \* session ID -> its sockfd
    pipes,              \* core ID -> the descriptors its CoreInstance has noted
    coreInstances,      \* the IDs in the map of that name
    sessionIDCounter, coreIDCounter,
    clientsToRemove, coresToRemove,
    deferNewConnections,    \* deferNewConnectionsUntil has not been reached
    readfds,            \* what select reported
    cursor,             \* the ID that the iteration over a map has reached
    pc,                 \* where the server is
    quit, ncalls,
    sigintPending,      \* a SIGINT waits to be unblocked in the server
    failedStarts,       \* cores whose startCore returned false
    process,            \* core ID -> the process behind it
    connected,          \* how many clients have connected
    lines,              \* clients that have sent a create-graph line that was not read
    gone                \* clients that have closed their end

loopVars == <<clientsToRemove, coresToRemove, deferNewConnections, readfds, cursor>>
signalVars == <<quit, ncalls, sigintPending>>
clientVars == <<connected, lines, gone>>
vars == <<fds, sessionContexts, pipes, coreInstances, sessionIDCounter, coreIDCounter, loopVars, pc,
          signalVars, failedStarts, process, clientVars>>

-----------------------------------------------------------------------------
(* Descriptors. *)

IsFree(fd) == fds[fd] = Free
FreeFDs == {fd \in FDs : IsFree(fd)}

\* The kernel hands out the lowest free descriptor.
Rank(fd) == Cardinality({f \in FreeFDs : f <= fd})
Opening(objects) ==
    [fd \in FDs |-> IF IsFree(fd) /\ Rank(fd) \in DOMAIN objects THEN objects[Rank(fd)] ELSE fds[fd]]
Closing(numbers) == [fd \in FDs |-> IF fd \in numbers THEN Free ELSE fds[fd]]

FDsOf(kinds, id) == {fd \in FDs : fds[fd].kind \in kinds /\ fds[fd].id = id}
IsHeld(object) == object \in Range(fds) \/ \E c \in Cores : object \in process[c].held

\* ~CoreInstance. Mutant: stderr is forgotten.
DescriptorsOfTwo(c) == {pipes[c][end] : end \in ServerEnds \ {"stderr0"}}
DescriptorsOf(c) == {pipes[c][end] : end \in ServerEnds}

-----------------------------------------------------------------------------
(* SIGINT: the handler, and what a core process makes of the signal. *)

\* A process that has exited holds nothing; what it wrote can still be read.
Exited(p) == [state |-> "exited", held |-> {}, inGroup |-> FALSE, pending |-> FALSE, ncalls |-> 0,
              killed |-> p.killed, reply |-> p.reply]

\* The server, or any step of it that ends there: the rest of its step is in next.
HandleSigint(next) ==
    \/ ncalls < 2 /\ ncalls' = ncalls + 1 /\ quit' = (quit \/ ncalls = 1) /\ next
    \/ ncalls >= 2 /\ fds' = [fd \in FDs |-> Free] /\ pc' = "stopped" /\ UNCHANGED <<ncalls, quit>>

\* The child between fork and exec has its own copy of ncalls.
HandledByChild(p) == IF p.ncalls < 2 THEN [p EXCEPT !.ncalls = @ + 1] ELSE Exited(p)

Interrupted(p) ==
    IF ~p.inGroup THEN p
    ELSE IF p.state = "forked" THEN [p EXCEPT !.pending = TRUE]
    ELSE IF p.state = "unmasked" THEN HandledByChild(p)
    ELSE IF p.state = "running" THEN [Exited(p) EXCEPT !.killed = TRUE]
    ELSE p

SigintBlocked == pc \in {"fork", "parent"}

\* select returns EINTR if the signal finds it waiting; fgets is restarted.
Sigint ==
    /\ process' = [c \in Cores |-> Interrupted(process[c])]
    /\ \/ pc = "stopped" /\ UNCHANGED <<signalVars, fds, pc>>
       \/ SigintBlocked /\ sigintPending' = TRUE /\ UNCHANGED <<quit, ncalls, fds, pc>>
       \/ /\ pc # "stopped" /\ ~SigintBlocked
          /\ HandleSigint(fds' = fds /\ (pc' = pc \/ (pc = "select" /\ pc' = "top")))
          /\ UNCHANGED sigintPending
    /\ UNCHANGED <<sessionContexts, pipes, coreInstances, sessionIDCounter, coreIDCounter, loopVars,
                   failedStarts, clientVars>>

\* sigintfoo, its first half: unblock, which delivers what is pending.
Unblock(next) ==
    /\ sigintPending' = FALSE
    /\ IF sigintPending THEN HandleSigint(next) ELSE next /\ UNCHANGED <<quit, ncalls>>

-----------------------------------------------------------------------------
(* The clients. *)

Connect ==
    /\ connected < MaxClients /\ pc # "stopped"
    /\ connected' = connected + 1
    /\ UNCHANGED <<fds, sessionContexts, pipes, coreInstances, sessionIDCounter, coreIDCounter, loopVars, pc,
                   signalVars, failedStarts, process, lines, gone>>

AskForGraph(s) ==
    /\ s <= connected /\ s \notin lines \union gone /\ pc # "stopped"
    /\ coreIDCounter + Cardinality(lines) < MaxCores
    /\ lines' = lines \union {s}
    /\ UNCHANGED <<fds, sessionContexts, pipes, coreInstances, sessionIDCounter, coreIDCounter, loopVars, pc,
                   signalVars, failedStarts, process, connected, gone>>

Leave(s) ==
    /\ s <= connected /\ s \notin gone /\ pc # "stopped"
    /\ gone' = gone \union {s}
    /\ UNCHANGED <<fds, sessionContexts, pipes, coreInstances, sessionIDCounter, coreIDCounter, loopVars, pc,
                   signalVars, failedStarts, process, connected, lines>>

Waiting == connected > sessionIDCounter     \* a connection that was not accepted yet

-----------------------------------------------------------------------------
(* The main loop. *)

\* run() has returned; ~Graphserv and the end of main close what is open.
Stop ==
    /\ pc = "top" /\ quit
    /\ fds' = [fd \in FDs |-> Free]
    /\ pc' = "stopped"
    /\ UNCHANGED <<sessionContexts, pipes, coreInstances, sessionIDCounter, coreIDCounter, loopVars,
                   signalVars, failedStarts, process, clientVars>>

\* Deferred removal of clients.
LoopTop ==
    /\ pc = "top" /\ ~quit
    /\ fds' = Closing({sessionContexts[s] : s \in clientsToRemove})
    /\ sessionContexts' = Restrict(sessionContexts, DOMAIN sessionContexts \ clientsToRemove)
    /\ clientsToRemove' = {}
    /\ pc' = "select"
    /\ UNCHANGED <<pipes, coreInstances, sessionIDCounter, coreIDCounter, coresToRemove, deferNewConnections,
                   readfds, cursor, signalVars, failedStarts, process, clientVars>>

\* Mutant: the deferral is for good.
DeferralNeverEnds == deferNewConnections /\ UNCHANGED vars

\* Three seconds have passed. (The loop looks at the time when it comes to the top.)
DeferralEnds ==
    /\ deferNewConnections
    /\ deferNewConnections' = FALSE
    /\ UNCHANGED <<fds, sessionContexts, pipes, coreInstances, sessionIDCounter, coreIDCounter, clientsToRemove,
                   coresToRemove, readfds, cursor, pc, signalVars, failedStarts, process, clientVars>>

\* Input, or the end of the file: nobody holds the other end of the pipe.
Readable ==
    {fd \in FDs : \/ fds[fd] = Listen /\ ~deferNewConnections /\ Waiting
                  \/ \E s \in DOMAIN sessionContexts : sessionContexts[s] = fd /\ s \in lines \union gone
                  \/ \E c \in coreInstances : pipes[c]["stdout0"] = fd /\ ~IsHeld(Object("stdout1", c))}

\* Mutant: no timeout, select returns when there is something to read.
SelectWaits ==
    /\ pc = "select" /\ Readable # {}
    /\ readfds' = Readable /\ pc' = "accept"
    /\ UNCHANGED <<fds, sessionContexts, pipes, coreInstances, sessionIDCounter, coreIDCounter, clientsToRemove,
                   coresToRemove, deferNewConnections, cursor, signalVars, failedStarts, process, clientVars>>

\* After two seconds select returns with nothing to read, and there is nothing to do.
Select ==
    /\ pc = "select"
    /\ readfds' = Readable /\ pc' = IF Readable = {} THEN "top" ELSE "accept"
    /\ UNCHANGED <<fds, sessionContexts, pipes, coreInstances, sessionIDCounter, coreIDCounter, clientsToRemove,
                   coresToRemove, deferNewConnections, cursor, signalVars, failedStarts, process, clientVars>>

\* One connection per turn. At the limit new connections are deferred if errno
\* has survived the two log messages.
Accept ==
    /\ pc = "accept"
    /\ IF \A fd \in readfds : fds[fd] # Listen
       THEN UNCHANGED <<fds, sessionContexts, sessionIDCounter, deferNewConnections>>
       ELSE IF FreeFDs = {}
       THEN deferNewConnections' \in BOOLEAN /\ UNCHANGED <<fds, sessionContexts, sessionIDCounter>>
       ELSE LET s == sessionIDCounter + 1
            IN \E fd \in FreeFDs :
                /\ Rank(fd) = 1
                /\ fds' = Opening(<<Object("socket", s)>>)
                /\ sessionContexts' = [i \in DOMAIN sessionContexts \union {s} |->
                                          IF i = s THEN fd ELSE sessionContexts[i]]
                /\ sessionIDCounter' = s
                /\ UNCHANGED deferNewConnections
    /\ cursor' = 0
    /\ pc' = "sessions"
    /\ UNCHANGED <<pipes, coreInstances, coreIDCounter, clientsToRemove, coresToRemove, readfds, signalVars,
                   failedStarts, process, clientVars>>

\* The next object of a map, in the order of the IDs, that FD_ISSET holds for.
IsNext(id, ready) == id \in ready /\ id > cursor /\ \A i \in ready : i > cursor => id <= i

NextSession(s) == IsNext(s, {i \in DOMAIN sessionContexts : sessionContexts[i] \in readfds})
NextCore(c) == IsNext(c, {i \in coreInstances : pipes[i]["stdout0"] \in readfds})

\* recv returns 0.
ReadSessionEOF(s) ==
    /\ pc = "sessions" /\ NextSession(s)
    /\ s \in gone \ lines
    /\ clientsToRemove' = clientsToRemove \union {s}
    /\ cursor' = s
    /\ UNCHANGED <<fds, sessionContexts, pipes, coreInstances, sessionIDCounter, coreIDCounter, coresToRemove,
                   deferNewConnections, readfds, pc, signalVars, failedStarts, process, clientVars>>

SessionsDone ==
    /\ pc = "sessions" /\ ~\E s \in DOMAIN sessionContexts : NextSession(s)
    /\ cursor' = 0
    /\ pc' = "cores"
    /\ UNCHANGED <<fds, sessionContexts, pipes, coreInstances, sessionIDCounter, coreIDCounter, clientsToRemove,
                   coresToRemove, deferNewConnections, readfds, signalVars, failedStarts, process, clientVars>>

Reaped(c) == [process EXCEPT ![c] = [@ EXCEPT !.state = "reaped"]]

\* read returns 0, then waitpid.
ReadCoreEOF(c) ==
    /\ pc = "cores" /\ NextCore(c)
    /\ process[c].state = "exited"
    /\ process' = Reaped(c)
    /\ coresToRemove' = coresToRemove \union {c}
    /\ cursor' = c
    /\ UNCHANGED <<fds, sessionContexts, pipes, coreInstances, sessionIDCounter, coreIDCounter, clientsToRemove,
                   deferNewConnections, readfds, pc, signalVars, failedStarts, clientVars>>

EndIteration ==
    /\ pc = "cores" /\ ~\E c \in coreInstances : NextCore(c)
    /\ fds' = Closing(UNION {DescriptorsOf(c) : c \in coresToRemove})
    /\ coreInstances' = coreInstances \ coresToRemove
    /\ coresToRemove' = {} /\ readfds' = {} /\ cursor' = 0
    /\ pc' = "top"
    /\ UNCHANGED <<sessionContexts, pipes, sessionIDCounter, coreIDCounter, clientsToRemove, deferNewConnections,
                   signalVars, failedStarts, process, clientVars>>

-----------------------------------------------------------------------------
(* create-graph: startCore, called from the loop over the sessions. *)

Ends(c, kinds) == [i \in DOMAIN kinds |-> Object(kinds[i], c)]
Starting == pc \in {"fork", "parent", "group", "handshake"}

\* Three calls of pipe. What was opened before one fails stays open.
StartCore(s) ==
    /\ pc = "sessions" /\ NextSession(s) /\ s \in lines
    /\ coreIDCounter < MaxCores
    /\ lines' = lines \ {s}
    /\ cursor' = s
    /\ coreIDCounter' = coreIDCounter + 1
    /\ LET c    == coreIDCounter'
           made == IF Cardinality(FreeFDs) >= 6 THEN 6 ELSE 2 * (Cardinality(FreeFDs) \div 2)
           new  == Opening(Ends(c, SubSeq(PipeOrder, 1, made)))
       IN /\ fds' = new
          /\ IF made = 6
             THEN /\ pc' = "fork"
                  /\ \E numbers \in [ServerEnds -> FreeFDs] :
                        /\ \A end \in ServerEnds : new[numbers[end]] = Object(end, c)
                        /\ pipes' = [pipes EXCEPT ![c] = numbers]
                  /\ UNCHANGED failedStarts
             ELSE failedStarts' = failedStarts \union {c} /\ UNCHANGED <<pc, pipes>>
    /\ UNCHANGED <<sessionContexts, coreInstances, sessionIDCounter, clientsToRemove, coresToRemove,
                   deferNewConnections, readfds, signalVars, process, connected, gone>>

startVars == <<sessionContexts, pipes, sessionIDCounter, coreIDCounter, loopVars, clientVars>>

ForkFails ==
    /\ pc = "fork"
    /\ Unblock(fds' = fds /\ pc' = "sessions")
    /\ failedStarts' = failedStarts \union {coreIDCounter}
    /\ UNCHANGED <<startVars, coreInstances, process>>

\* The child has the server's descriptors, blocked signals and ncalls.
Forked == [state |-> "forked", held |-> Range(fds) \ {Free}, inGroup |-> TRUE, pending |-> FALSE,
           ncalls |-> ncalls, killed |-> FALSE, reply |-> "none"]

Fork ==
    /\ pc = "fork"
    /\ pc' = "parent"
    /\ process' = [process EXCEPT ![coreIDCounter] = Forked]
    /\ UNCHANGED <<startVars, coreInstances, signalVars, fds, failedStarts>>

ParentUnblocks ==
    /\ pc = "parent"
    /\ Unblock(fds' = fds /\ pc' = "group")
    /\ UNCHANGED <<startVars, coreInstances, failedStarts, process>>

\* setpgid is refused for a child that has called exec.
Detached(p) == IF p.state \in {"forked", "unmasked"} THEN [p EXCEPT !.inGroup = FALSE] ELSE p

\* Mutant: the parent keeps the core's end of its stdout.
ParentClosesTwo == {"stdin0", "stderr1"}
ParentCloses == CoreEnds

\* The parent closes the core's ends, opens streams on copies of its own, and asks
\* for the protocol version.
ParentSetsUp ==
    LET c      == coreIDCounter
        closed == FDsOf(ParentCloses, c)
        copies == Ends(c, <<"stdin1", "stdout0">>)
        rank(fd) == Cardinality({f \in FreeFDs \union closed : f <= fd})
    IN /\ pc = "group"
       /\ process' = [process EXCEPT ![c] = Detached(@)]
       /\ fds' = [fd \in FDs |-> IF fd \notin FreeFDs \union closed THEN fds[fd]
                                 ELSE IF rank(fd) \in DOMAIN copies THEN copies[rank(fd)] ELSE Free]
       /\ pc' = "handshake"
       /\ UNCHANGED <<startVars, coreInstances, signalVars, failedStarts>>

\* fgets returns the core's reply; the streams are closed.
HandshakeReply ==
    LET c == coreIDCounter
    IN /\ pc = "handshake" /\ process[c].reply # "none"
       /\ fds' = Closing(FDsOf(ServerEnds, c) \ DescriptorsOf(c))
       /\ IF process[c].reply = "ok"
          THEN coreInstances' = coreInstances \union {c} /\ UNCHANGED failedStarts
          ELSE failedStarts' = failedStarts \union {c} /\ UNCHANGED coreInstances
       /\ pc' = "sessions"
       /\ UNCHANGED <<startVars, signalVars, process>>

\* fgets finds the end of the file; the streams stay open.
HandshakeEOF ==
    LET c == coreIDCounter
    IN /\ pc = "handshake" /\ process[c].reply = "none"
       /\ ~IsHeld(Object("stdout1", c)) /\ process[c].state = "exited"
       /\ process' = Reaped(c)
       /\ failedStarts' = failedStarts \union {c}
       /\ pc' = "sessions"
       /\ UNCHANGED <<startVars, coreInstances, signalVars, fds>>

-----------------------------------------------------------------------------
(* The process of a core. *)

ProcessStep(c, p) ==
    /\ process' = [process EXCEPT ![c] = p]
    /\ UNCHANGED <<fds, sessionContexts, pipes, coreInstances, sessionIDCounter, coreIDCounter, loopVars, pc,
                   signalVars, failedStarts, clientVars>>

ChildUnblocks(c) ==
    LET p == [process[c] EXCEPT !.state = "unmasked", !.pending = FALSE]
    IN /\ process[c].state = "forked"
       /\ ProcessStep(c, IF process[c].pending THEN HandledByChild(p) ELSE p)

\* Mutant: left to the parent.
ChildSkipsGroup(c) ==
    process[c].state = "unmasked" /\ ProcessStep(c, [process[c] EXCEPT !.state = "grouped"])

ChildSetsGroup(c) ==
    process[c].state = "unmasked" /\ ProcessStep(c, [process[c] EXCEPT !.state = "grouped", !.inGroup = FALSE])

\* Mutant: the child keeps the server's end of its stdin.
ChildClosesTwo == {"stdout0", "stderr0"}
ChildCloses == ServerEnds

\* What a core starts with: dup2, close, and close on exec for the clients' sockets.
HeldAfterExec(c, held) ==
    {o \in held : o.kind # "socket" /\ ~(o.kind \in ChildCloses /\ o.id = c)}

\* Or exit(101), exit(103), exit(102).
ChildExecs(c) ==
    /\ process[c].state = "grouped"
    /\ \/ ProcessStep(c, [process[c] EXCEPT !.state = "running", !.held = HeldAfterExec(c, @), !.ncalls = 0])
       \/ ProcessStep(c, Exited(process[c]))

CoreReplies(c) ==
    /\ process[c].state = "running" /\ process[c].reply = "none"
    /\ pc = "handshake" /\ c = coreIDCounter
    /\ \E reply \in {"ok", "refused"} : ProcessStep(c, [process[c] EXCEPT !.reply = reply])

\* A command, drop-graph or a crash.
CoreExits(c) == process[c].state = "running" /\ ProcessStep(c, Exited(process[c]))

\* It reads the end of the file from its stdin.
CoreReadsEOF(c) ==
    /\ process[c].state = "running" /\ ~IsHeld(Object("stdin1", c))
    /\ ProcessStep(c, Exited(process[c]))

-----------------------------------------------------------------------------
Init ==
    /\ fds = [fd \in FDs |-> IF fd = 1 THEN Listen ELSE Free]
    /\ sessionContexts = [s \in {} |-> None]
    /\ pipes = [c \in Cores |-> [end \in ServerEnds |-> None]]
    /\ coreInstances = {}
    /\ sessionIDCounter = 0 /\ coreIDCounter = 0
    /\ clientsToRemove = {} /\ coresToRemove = {} /\ deferNewConnections = FALSE
    /\ readfds = {} /\ cursor = 0 /\ pc = "top"
    /\ quit = FALSE /\ ncalls = 0 /\ sigintPending = FALSE
    /\ failedStarts = {}
    /\ process = [c \in Cores |-> NoProcess]
    /\ connected = 0 /\ lines = {} /\ gone = {}

ServerStep ==
    \/ Stop \/ LoopTop \/ Select \/ Accept \/ SessionsDone \/ EndIteration
    \/ \E s \in Clients : ReadSessionEOF(s) \/ StartCore(s)
    \/ \E c \in Cores : ReadCoreEOF(c)
    \/ ForkFails \/ Fork \/ ParentUnblocks \/ ParentSetsUp \/ HandshakeReply \/ HandshakeEOF

ChildStep(c) == ChildUnblocks(c) \/ ChildSetsGroup(c) \/ ChildExecs(c)

CoreStep(c) == ChildStep(c) \/ CoreReplies(c) \/ CoreExits(c) \/ CoreReadsEOF(c)

ClientStep == Connect \/ \E s \in Clients : AskForGraph(s) \/ Leave(s)

Next == ServerStep \/ DeferralEnds \/ Sigint \/ ClientStep \/ \E c \in Cores : CoreStep(c)

Spec == Init /\ [][Next]_vars

CoreProgress == \E c \in Cores : ChildStep(c) \/ CoreReplies(c) \/ CoreReadsEOF(c)

\* The server runs on and time passes; a child gets to exec, and a core answers
\* the handshake and exits at the end of its input. Each does so once, so that
\* one condition is enough for all the cores.
Fairness == WF_vars(ServerStep) /\ WF_vars(DeferralEnds) /\ WF_vars(CoreProgress)

FairSpec == Spec /\ Fairness

-----------------------------------------------------------------------------
Objects == [kind : Kinds, id : Nat]
States == {"none", "forked", "unmasked", "grouped", "running", "exited", "reaped"}
Process == [state : States, held : SUBSET Objects, inGroup : BOOLEAN, pending : BOOLEAN, ncalls : 0..2,
            killed : BOOLEAN, reply : {"none", "ok", "refused"}]

FilesOK ==
    /\ fds \in [FDs -> Objects]
    /\ DOMAIN sessionContexts \subseteq 1..sessionIDCounter
    /\ \A s \in DOMAIN sessionContexts : sessionContexts[s] \in FDs
    /\ clientsToRemove \subseteq DOMAIN sessionContexts
    /\ pipes \in [Cores -> [ServerEnds -> FDs \union {None}]]
    /\ coreIDCounter \in 0..MaxCores
    /\ coreInstances \subseteq 1..coreIDCounter /\ failedStarts \subseteq 1..coreIDCounter
    /\ coresToRemove \subseteq coreInstances

LoopOK ==
    /\ pc \in {"top", "select", "accept", "sessions", "fork", "parent", "group", "handshake", "cores", "stopped"}
    /\ readfds \subseteq FDs /\ cursor \in Nat
    /\ deferNewConnections \in BOOLEAN /\ quit \in BOOLEAN /\ sigintPending \in BOOLEAN /\ ncalls \in 0..2
    /\ connected \in 0..MaxClients /\ sessionIDCounter \in 0..connected
    /\ lines \subseteq 1..connected /\ gone \subseteq 1..connected

(* Every variable has its type; what is marked for removal is still there,  *)
(* and a process holds something only until it exits.                       *)
TypeOK ==
    /\ FilesOK
    /\ LoopOK
    /\ process \in [Cores -> Process]
    /\ \A c \in Cores : process[c].held # {} => process[c].state \in {"forked", "unmasked", "grouped", "running"}

(* No descriptor is lost or used after it was closed: what a session or     *)
(* core has noted refers to its own socket or pipe, and whatever else is    *)
(* open belongs to a startCore that is under way, or failed (those leak:    *)
(* coreinstance.h:120-251; test/closetest looks for lost descriptors).      *)
DescriptorsOwned ==
    pc # "stopped" =>
        /\ \A s \in DOMAIN sessionContexts : sessionContexts[s] \in FDsOf({"socket"}, s)
        /\ \A c \in coreInstances, end \in ServerEnds : pipes[c][end] \in FDsOf({end}, c)
        /\ \A fd \in FDs :
              LET o == fds[fd]
              IN /\ o.kind = "socket" => o.id \in DOMAIN sessionContexts /\ sessionContexts[o.id] = fd
                 /\ o.kind \in ServerEnds \union CoreEnds =>
                       \/ o.id \in failedStarts
                       \/ Starting /\ o.id = coreIDCounter
                       \/ o.id \in coreInstances /\ o.kind \in ServerEnds /\ pipes[o.id][o.kind] = fd

(* What startCore has opened and noted, and what it has closed by the time  *)
(* it waits for the core; and that a ready listening socket has somebody    *)
(* waiting, since accepting would block otherwise (servapp.h:397).          *)
StartUnderWay ==
    /\ Starting =>
          /\ coreIDCounter \in Cores \ coreInstances
          /\ \A end \in ServerEnds : pipes[coreIDCounter][end] \in FDsOf({end}, coreIDCounter)
    /\ pc = "handshake" => FDsOf(CoreEnds, coreIDCounter) = {}

AcceptDoesNotBlock == pc = "accept" /\ (\E fd \in readfds : fds[fd] = Listen) => Waiting

(* A core is never killed by the user's ctrl-c, whenever it comes: it has   *)
(* left the server's process group before it can be (coreinstance.h:139).   *)
CoresSurviveSigint == \A c \in Cores : ~process[c].killed

(* Cores inherit the pipes of the cores before them and so keep them alive, *)
(* but a core never holds the writing end of its own stdin or of a later    *)
(* core's: cores cannot wait for one another in a circle.                   *)
NoCircularWait ==
    \A c, d \in Cores : process[c].state = "running" /\ Object("stdin1", d) \in process[c].held => d < c

(* What a process may hold, depending on how far it has come, and what there *)
(* is for the next one to inherit.                                          *)
Inheritance ==
    /\ \A c \in Cores : process[c].state \in {"grouped", "running"} => ~process[c].inGroup
    /\ \A fd \in FDs : fds[fd].kind = "stdin1" => fds[fd].id <= coreIDCounter
    /\ \A c \in Cores : \A o \in process[c].held : o.kind = "stdin1" => o.id <= c
    /\ \A c \in Cores : process[c].state = "running" => Object("stdin1", c) \notin process[c].held

\* The invariant of the proofs.
Inv == TypeOK /\ DescriptorsOwned /\ StartUnderWay /\ AcceptDoesNotBlock /\ Inheritance /\ CoresSurviveSigint

(* The exit of a core is noticed by the server, whoever else was started    *)
(* since and inherited descriptors (servapp.h:465).                         *)
ExitNoticed ==
    \A c \in Cores : (c \in coreInstances /\ process[c].state = "exited") ~> (c \notin coreInstances \/ pc = "stopped")

(* When the server has quit or was ended by a third ctrl-c, its cores go    *)
(* one after the other and the port becomes free for the next server.       *)
PortReleased == (pc = "stopped") ~> ~IsHeld(Listen)

(* "hit ctrl-c again to quit": the server then comes to the end of its      *)
(* loop, also if the signal came between the test of quit and select.       *)
ServerQuits == quit ~> (pc = "stopped")

(* A connection that waits is accepted when there is room for it, also      *)
(* after accepting was deferred (servapp.h:308, 400-406).                   *)
ConnectionsAccepted ==
    (Waiting /\ FreeFDs # {}) ~> (~Waiting \/ FreeFDs = {} \/ pc = "stopped")
=============================================================================
