---------------------------- MODULE MCGraphserv ----------------------------
(***************************************************************************)
(* Graphserv on small instances.  The runs differ in the words the clients  *)
(* may send and in the state they start from: empty, or with sessions       *)
(* connected and cores running, as they are after the administrator's       *)
(* create-graph and the clients' use-graph have been answered.              *)
(***************************************************************************)
EXTENDS Graphserv

Word(word, arg) == Line(word, arg, FALSE, FALSE)
DataCommand == Line("add-arcs", NoArg, TRUE, FALSE)

TableInfos == [w \in {"help", "shutdown", "list", "add-arcs"} |->
                 CASE w = "shutdown" -> AccessLevels.admin
                   [] w = "add-arcs" -> AccessLevels.write
                   [] OTHER          -> AccessLevels.read]

Once == <<1, 1>>
Twice == <<2, 2>>
OnceTwice == <<1, 2>>
TwiceOnce == <<2, 1>>
ThriceOnce == <<3, 1>>

\* What each session's client may send, run by run.
ListAndHelp == {Word("list", NoArg), Word("help", NoArg), Word("help", "quit"), Word(Blank, NoArg)}
HelpLines ==
    <<ListAndHelp, ListAndHelp \union {Word("help", BadArgs), Word("help", "list"),
                                       Word("list-graphs", BadArgs), Word("protocol-version", NoArg)}>>
StalledLines == [s \in SessionIDs |->
    {DataCommand, Word("list", NoArg), Word("data", NoArg), Word(Blank, NoArg)}]
OtherLines ==
    {Word("create-graph", "k"), Word("authorize", "admin"), Word("authorize", BadArgs),
     Line("list", NoArg, FALSE, TRUE), Line("list-graphs", NoArg, FALSE, TRUE),
     Word("nonsense", NoArg), Word("quit", NoArg), Word("list", NoArg)}
SessionLines ==
    <<{DataCommand, Word("list", NoArg), Word("use-graph", "h"), Word(Blank, NoArg)}, OtherLines>>
AdminLines == [s \in SessionIDs |->
    {Word("create-graph", "g"), Word("use-graph", "g"), Word("drop-graph", "g"),
     Word("shutdown", NoArg), Word("list", NoArg)}]
ListLines == [s \in SessionIDs |-> {Word("list", NoArg)}]

\* Answered by a core, by the server, by both, and refused for three reasons.
GetRequests == [s \in SessionIDs |->
    {Request("g", "list", NoArg), Request(NoCore, "list-graphs", NoArg), Request(NoCore, "help", NoArg),
     Request(NoCore, "malformed", NoArg), Request("x", "list", NoArg),
     Request(NoCore, "nonsense", NoArg)}]
NoRequests == [s \in SessionIDs |-> {}]

\* Sessions of the given types, which use the given cores (0: none).
InitWith(types, level, uses, cores) ==
    /\ sessionIDCounter = Len(types) /\ coreIDCounter = Len(cores)
    /\ sessionContexts = [s \in 1..Len(types) |->
            [NewSession(types[s]) EXCEPT !.accessLevel = level, !.coreID = uses[s]]]
    /\ coreInstances = cores
    /\ clientsToRemove = {} /\ statusMessage = ""
    /\ inIteration = FALSE /\ readyClients = {} /\ readyCores = {} /\ coresToRemove = {}
    /\ drained = NoClient
    /\ lines = [s \in SessionIDs |-> <<>>]
    /\ linesRead = [s \in SessionIDs |-> 0]
    /\ closed = {}

\* A core that session 1 has shut down and that has yet to obey.
ShutDown(name) ==
    NotRunning(FlushCommandQ(QueueCommand(StartCore(name), NewCommand(1, 0, "shutdown", FALSE))))

TwoTcp == InitWith(<<"TCP", "TCP">>, AccessLevels.write, <<1, 1>>, <<StartCore("g"), StartCore("h")>>)
OneTcp == InitWith(<<"TCP">>, AccessLevels.read, <<1>>, <<StartCore("g")>>)
TwoAdmins == InitWith(<<"TCP", "TCP">>, AccessLevels.admin, <<2, 2>>, <<ShutDown("g"), StartCore("g")>>)

TwoTcpSpec == TwoTcp /\ [][Next]_vars
FairOneTcpSpec == OneTcp /\ [][Next]_vars /\ Fairness
TwoAdminsSpec == TwoAdmins /\ [][Next]_vars
=============================================================================
