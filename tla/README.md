# graphserv: a formal model

graphserv shares GraphCore processes among network clients: sessions come in
over TCP (a line protocol) or HTTP (one request, one reply), connect to a named
core, and have their commands queued, forwarded and answered. This directory
holds TLA+ modules of its control logic, TLC configurations that check them on
small instances, and TLAPS proofs for every size. All references are to the
repository (`src/servapp.h` means the file `servapp.h` of its source directory).

Contents: 1 inventory, 2 modules and how they correspond to the code, 3 runs,
bounds and fairness, 4 proofs, 5 known deviations of the code, 6 what is not
modelled, 7 plan.

## 1. Inventory

The program is one process with one thread. Concurrency comes from outside: the
clients, the core processes at the other ends of their pipes, the
administrator who edits the credential files, the user who hits ctrl-c, the
kernel that takes part of a write and returns part of a line. The main loop is
`select` based (`mainloop_select`) or, with an option, libevent based (`mainloop_libevent`).

| component | state it keeps | operations | interacts with |
|---|---|---|---|
| **CoreInstance** (`coreinstance.h`, `main.cpp:65-118`) | `commandQ`, `lastClientID`, `expectingReply`, `expectingDataset`, `processRunning`, the pipes | `startCore`, `queueCommand`, `flushCommandQ`, `lineFromCore`, `hasDataForClient`, `terminate` | sessions (forwards replies to `lastClientID`), the core process |
| **SessionContext** (`session.h`, `main.cpp:120-139`) | `accessLevel`, `coreID`, `lineQueue`, `curCommand`, the write buffer | `forwardStatusline`, `forwardDataset`, `isWaitingForCoreReply` | its client, the core it uses |
| **HTTPSessionContext** (`session.h:120`, `main.cpp:141`) | `commandsExecuted`, `conversationFinished`, the request read so far | the same, plus the end of the conversation | the sweep of the select loop |
| **Server commands** (`main.cpp:243-778`, `servcli.h`) | the status message a command object keeps | `create-graph`, `use-graph`, `drop-graph`, `shutdown`, `authorize`, `help`, `quit`, listings | sessions, the table of cores, the authority |
| **Graphserv** (`servapp.h`) | `sessionContexts`, `coreInstances`, ID counters, `clientsToRemove` | the two loops, `lineFromClient`, `lineFromHTTPClient`, `processCommand`, `forwardToCore`, creation and removal of sessions and cores | everything |
| **PasswordAuth** (`auth.h`) | the cached users, `lastCacheRefresh` | constructor, `refreshFileCache`, `readCredentialFiles`, `authorize` | two files and the clock |
| **NonblockWriter** (`utils.h:107`) | a list of strings not yet written | `write`, `flush`, `writeString` | sessions and cores inherit it; the loops call `flush` |
| **Line assembly** (`session.h` `linebuf`, `coreinstance.h` `LineRecvQ`, `servapp.h:1005-1012`) | the rest of an incomplete line, the lines of an incomplete request | append, take lines | the loops |
| **Core start-up** (`coreinstance.h:92-252`) | three pipes, the child's process ID, the process group | `startCore`, `~CoreInstance` | the kernel, the core process |
| **Accept path** (`servapp.h:303-408`, `810-845`) | listening sockets, deferral after `EMFILE` | `acceptConnection` | sessions |
| **Signals** (`servapp.h:719-742`) | the count of SIGINTs, `quit`, the mask around `fork` | `handleSigint` | the loops, start-up |
| options, logging, statistics, localisation | | | none that decides anything |

What is hard about it, and which property is for it:

* *Replies carry no address.* Core output goes to `lastClientID`, which the next
  flushed command overwrites, and only two flags know where a reply ends.
  `ReplyRouting`, `ReplyFraming`, `OneOutstanding` on one core; `RepliesRouted`,
  `CoresInStep` in the whole server.
* *Input is held back in three places* (a session's `lineQueue`, its `curCommand`,
  a core's `commandQ`), moved on by different code, and may not overtake or be
  forgotten. `RepliesInOrder`, `OneInFlight`, `QueuedWhileWaiting`,
  `OrderInv`, `LinesAccountedFor`, `LinesGoWithCores`, `ServedInOrder`, `NoCommandLost`; that
  only complete commands reach a core's queue is part of `Inv` (`CoresTyped`).
* *Names and IDs outlive what they name*: a session's `coreID` may name a core
  that was dropped; a core that was shut down is neither running nor gone.
  Graphserv's `Inv` (with its `TypeOK`), `RunningNamesUnique`, `TerminatedRemoved`.
* *Something must happen later*: a queued command is flushed by a loop that gets
  round to it, an HTTP connection is closed by a sweep that looks at three
  conditions. `EveryCommandServed`, `AllAnswered`, `HTTPClosed`,
  `HTTPResponseComplete`.
* *A cache compared with times of one-second resolution*, and files edited
  between two system calls. `ChecksCurrentFiles`, `StaleIsNoticed`,
  `ReplacedWholeOrKept`.
* *Partial writes*, resumed by a loop that asks or by an event that comes once.
  `WireInOrder`, `NothingDropped`, `AllWritten`.
* *Partial reads.* A line, a request or an encoded character may be cut anywhere,
  and an end of file may overtake what was written before it. `LinesAsWritten`,
  `UnderstoodAsMeant`, `AllLinesRead`, `StderrDrained`.
* *Descriptors are shared by processes*: a pipe has an end for as long as anybody
  holds it, cores inherit the pipes of other cores, and starting a core has ten
  calls that can fail. `DescriptorsOwned`, `NoCircularWait`, `ExitNoticed`,
  `PortReleased`, `ConnectionsAccepted`.
* *A signal may come between any two system calls*, in the server and in a child
  that is still the server's code. `CoresSurviveSigint`, `ServerQuits`.

`PROJECT.json` lists each hazard at the line where it bites, also some that no
property covers; section 5 has the smaller deviations.

## 2. Modules

```
CommandService        what a shared core promises (abstract)
      ^ implemented by
CoreService  ---- EXTENDS ---->  CoreInstance   (operators on one core record)
      ^                                ^  ^
MCCoreService, CoreService_proofs      |  Graphserv  <--- MCGraphserv, Graphserv_proofs
                                CoreInstance_proofs  (used by the proofs of both)
Graphserv_proofs <--- GraphservOrder_proofs <--- GraphservLines_proofs
HTTPRequest  <--- EXTENDS --- LineInput <--- MCLineInput
PasswordAuth <--- PasswordAuth_proofs
NonblockWriter <--- NonblockWriter_proofs
Processes    <--- Processes_proofs
```

Graphserv is the middle: it starts from whole lines (LineInput and HTTPRequest
are below it), takes a core from "created" to "end of file" (Processes is below
it), and a session's output as a buffer that is empty or not (NonblockWriter).

**CoreInstance** has no variables. A core is a record with the fields of the
class plus the two pipes and the state of the process behind them (`toCore`,
`fromCore`, `process`, and `killed`, set by the SIGTERM of `terminate()`); each
method is an operator on it. The one-core specification and the whole server
use the same operators, so what is proved of them in one is about the code the
other runs. A command carries the number of its line in its client's input
(`tag`); a line of core output carries what the server can see (`colon`: it ends
in a colon and announces a data set; `blank`) and, for the properties only, the
command it really answers. The process is external: it answers in order, a
status line and then data lines up to a blank one, and exits after `shutdown`.

**CoreService** composes one CoreInstance with its clients. `Submit` and
`Shutdown` are the paths of `forwardToCore` and `ccShutdown` that reach
`queueCommand` and then `flushCommandQ`; `LoopTop` is the flush of every queue at
the top of the select loop (absent under libevent); `Drop` is `drop-graph`,
`Disconnect` is `removeSession`, `ReadLine` one line through `lineFromCore`,
`Remove` the end of file that deletes the object. `served` is a history variable.

**CommandService** is the abstract specification: a queue of accepted commands,
answered one at a time in order, that may stop for good at any time. The
refinement maps `pending` to the command being answered followed by `commandQ`.

**Graphserv** is the server: any number of sessions and cores. A step handles
one line of input, because the code does: between two lines of one `recv` nothing
else runs, but what a line does depends on what the one before it did. The
select loop is a small program counter made of `inIteration`, `readyClients`,
`readyCores` and `drained`:
`LoopTop` (remove marked sessions, flush all queues, select) ->
`ReadClientLine`/`ReadClientEOF` per ready session -> `ReadCoreLine` per line of
core output, after each `DrainLine`* and `DrainDone` for the client that was
waiting (`servapp.h:487-501`) -> `ReadCoreEOF` -> `EndIteration` (delete dead
cores, shut finished HTTP sessions down). `Dispatch` replaces `LoopTop` under
libevent: one callback, in any order. The lines of a client are executed by
`LineFromClient` (data sets, queueing, dispatch), `ProcessCommand`,
`ExecuteServerCommand` with one operator per server command, and
`ForwardToCore`; HTTP requests come in through `LineFromHTTPClient`.

Clients and core processes move only between iterations (`~inIteration`). The
set of ready descriptors is fixed by `select`, and what arrives on one of them
while the iteration runs cannot be told from input that arrives after it; the
number of lines one `recv` returns is a choice (`readyClients' \in ...`). A core
exits at the moment its pipe closes. A session's writes are abstracted to
`writeBufferEmpty` (`FlushSession`, `WriteFailed`), which is what the sweep looks
at; NonblockWriter has the detail.

**PasswordAuth** makes each system call of `authorize` a step, with the
administrator's `Edit` and the clock's `Tick` in between. Reading one file is one
step; files are well-formed, malformed or missing, and well-formed at the start
(otherwise the server does not come up with users). A failed `stat` leaves the
cache as it is; a failed `fopen` ends the server (`pc = "ended"`). An edit always
stamps the present second: a file replaced by one with an older time is not modelled.
`read` and `kept` are history: what the last call of `readCredentialFiles` has read,
and the cache it began with. `ReplacedWholeOrKept` compares the cache with them once
the call has returned, so that it is about a call as a whole, with edits between its
two files: reading straight into the cache, clearing it first, renewing `passwd`
beside an old `group`, or keeping the old `passwd` beside a new `group` each violate it.

**NonblockWriter** makes each `write(2)` a step; bytes are numbered, strings are
ranges of them. Empty strings are left out (the status of a successful `shutdown` is
one, `main.cpp:233`): such a write is complete at once and leaves no trace. Under the select loop
`Writable` may happen whenever there is something to write and room for it;
under libevent (`EV_ET`) only after an edge: the event that comes with
`event_add`, and one whenever a full descriptor has room again or the peer
closes.

**HTTPRequest** has no variables: it is what `lineFromHTTPClient` makes of the
lines of a complete request. `HandleRequest` splits the request line, checks the
version, decodes the URI (`DecodeURI` with
`DecodeChar`, into a string of its own, the digits of a code skipped) and finds core name and command (`Interpret`). What
Graphserv calls a malformed request is refused here for its actual reason.

**LineInput** is the way from bytes to lines. A peer (a TCP client, an HTTP
client, a core with two pipes) writes one character at a time and may close at
any moment; `Select` reports what is readable; `Read` takes up to `BufSize`
characters and assembles lines from them (`Assemble`, with `AddChar` of the
select loop), `HandleInput` is the libevent callback, `HandleStderr` and
`AddStderrChar` are `LineRecvQ`, which works on C strings and so stops at a NUL.

**Processes** is the server and its cores as the kernel sees them. `fds` is the
server's descriptor table: each number is free or refers to the listening socket,
a session's socket, or an end of one of a core's three pipes. `process` has, for
each core, how far its process has come (forked, unmasked, grouped, running,
exited, reaped) and what it holds; a pipe has an end for as long as the server or
any process holds it, which is when `Readable` and `CoreReadsEOF` say end of file.
`pc` follows the select loop and, inside it, `startCore`: `StartCore` (three calls
of `pipe`, which may run out of descriptors), `Fork` or `ForkFails`,
`ParentUnblocks`, `ParentSetsUp` (setpgid, closing the core's ends, the two
streams on copies), `HandshakeReply` or `HandshakeEOF`; the child goes through
`ChildUnblocks`, `ChildSetsGroup`, `ChildExecs`. Closing and reopening several
descriptors between two points at which anything else can happen is one step: the
only thing that could come between is a signal, and the handler does not look at
descriptors. `Sigint` goes to the process group, at any moment: it interrupts
`select`, restarts `fgets`, waits if it is blocked, and a third one ends the
server (`servapp.h:719-742`). Clients connect, ask for one graph each and leave;
what cores are asked once they run is left to Graphserv.

Operators marked "Mutant" in a module are deliberately wrong variants of the
definition that follows them, one for each property: replacing the definition by
its mutant makes the property fail. They are part of no specification.

## 3. Runs

Every run is exhaustive for its constants. The type invariants of the core, the
server, Processes, PasswordAuth and NonblockWriter are proved (section 4); the
first three are also part of the `Inv` their runs check, and so is `OneOutstanding`; that of
LineInput is the first conjunct of `LinesAsWritten`. `CHECK_DEADLOCK FALSE` is used where
clients run out of lines, which is where the bounded instances stop.

| run | instance | checks |
|---|---|---|
| `core` | 2 clients x 2 commands, pipe of 2 lines, crashes, select loop, fair | routing, framing, order, nothing lost, the invariant of the proofs, the refinement of CommandService, `EveryCommandServed`, `TerminatedRemoved` |
| `server_sessions` | 2 TCP sessions (3 lines and 1), cores g and h. Session 1: commands with and without a data set, `use-graph h`, blank lines; session 2: one command, also refused ones and `quit` | queueing and switching cores with replies outstanding; data sets collected while waiting; that refusals answer; two invariants of the proofs |
| `server_libevent` | 2 TCP sessions (2 and 1 lines); `list`, both kinds of `help`, blank lines, and in session 2 the malformed and the answered kinds of other server commands; libevent | the order of a session's lines and what is queued in it (`QueuedWhileWaiting`, within `PlainInv`), with the invariants of both proofs, and callbacks in any order |
| `server_registry` | 2 administrators, one command each out of create, use, drop, shutdown, list; one core already on its way out; cores fail and exit | names, stale IDs, routing when cores die, and which lines they take with them |
| `server_http` | a TCP client with one command, an HTTP client that connects and sends 2 requests out of 6; fair | when connections are shut down, and that they are |
| `auth_refresh` | 4 seconds, 3 versions of each file, some malformed or missing | the cache |
| `writer` | 8 bytes in strings of up to 3, a socket of 2 bytes, both loops, fair | partial writes |
| `line_input` | every text of up to 4 characters out of `a`, CR, LF, NUL; every merge of 3 outputs on stdout with 5 on stderr, both loops; requests for every command of up to 2 characters in every encoding, malformed ones, two on one connection; buffer of 3, pipe of 4; fair | lines, requests, ends of file |
| `processes` | 11 descriptors, 2 clients, 2 cores; fair | descriptors, signals, accepting, quitting, and the invariant of the proofs |
| `core_libevent`, `server_stalled_dataset`, `server_stalled_exit` | | one known deviation each (section 5) |

*Why the bounds are enough to be interesting.* The hazards need two clients (one
whose reply another could get), two cores (to switch between), and a line that
arrives while one is queued while one is out: three lines of one session. A pipe
of one line makes every line of a reply a separate step, so that all else
interleaves with it; the core run has two so that the core can be ahead of the
server. Creating a third core of a name after one was shut down needs two
earlier ones; the registry run starts there. The writer's socket is smaller than
its largest string, so strings are cut in the middle. `MaxCores` is at least the
number of cores the clients can ask for: a smaller one would stop the server.
LineInput's buffer is smaller than its texts, so that every line can be cut at
every place, and its pipe larger than the buffer, so that one read does not empty
it. In `processes` a second core can inherit from the first, which is what
inheritance needs; with 11 descriptors both cores fit beside both clients, or the
second start fails at its second `pipe` because the first one leaked or both
clients are there, or accepting fails because a start is under way.

*Initial states.* Most server runs start with sessions connected and cores
running (`InitWith` in MCGraphserv), the state after the administrator's
`create-graph` and the clients' `use-graph` have been answered, with the history
of lines and replies reset. Connecting is covered by `server_http`, authorization
and failing cores by `server_sessions` and `server_registry`.

*Alphabets.* Each run gives each session the words that matter for its question.
Some properties would not hold for every word, and their runs leave these out
knowingly: `RepliesInOrder` and `OrderInv` are about sessions whose cores are not
dropped or shut down under them (replies of an old core are still read and may come
late), which is the hypothesis `NoTermination` of the theorem, too;
`QueuedWhileWaiting` leaves out data sets and dying cores, for which it fails
(the two `server_stalled_*` runs); `LinesAccountedFor` and `LinesGoWithCores` leave out `quit` with an
argument (section 5), and data sets without a command, which are read and dropped;
`LinesAccountedFor` leaves out dying cores, too, which take the lines they have with
them (`LinesGoWithCores`, checked where cores do die, says that nothing else is lost); `HTTPClosed` leaves out `help` on a server command, commands of blanks
only and cores that exit (section 5). `UnderstoodAsMeant` is about requests that
mean something (a core name and a command, encoded in any way) and about
malformed ones, not about URIs with extra slashes.

*Fairness.* The server's loop runs on (`WF` of its steps: it is a loop around
`select`). A core answers the commands it is given, ends the data sets it began
(`SF` of the blank line: it could otherwise go on with data lines for ever), and
goes when it has been told to (`WF` of an exit only for a core that was sent
SIGTERM). A connection takes what is written to it (`WF(FlushSession)`). In
NonblockWriter the loop calls `flush()` when a descriptor is reported writable
and the peer reads. In LineInput only the server's steps go on: a peer may stop
writing at any point. In Processes the server runs on (`select` has a timeout of
two seconds, so its turn always comes), three seconds pass some time, and a child gets to exec, answers the handshake or not,
and exits at the end of its stdin; one weak fairness condition serves all cores
because each does these things once. The last is an assumption about cores that
the code needs: a core that keeps silent in the handshake blocks the server
(`coreinstance.h:206`). Clients and the user are not obliged to do anything. No
liveness property is checked without these, and the violated ones are violated
with them.

## 4. Proofs

`CoreService_proofs`, for any set of clients, any number of commands, any pipe
capacity, both loops, with or without crashes (assumptions: the named `ASSUME` of
CoreService):

* `Invariance`: `Spec => []Inv`. Neither routing nor framing is inductive. `Inv`
  says what the pipes may hold between two steps: at most one command is out, and
  only while a reply is due; every line on its way and the command at the core's
  end belong to it and to `lastClientID`; the pipe starts with a status line
  exactly while one is expected; the line that ends the reply is the last one and
  leaves the core without a command (`OneReply`, `PipeLines`). One lemma per
  operator of CoreInstance shows that it keeps a record well formed
  (`CoreInstance_proofs`, for any names, clients and commands, so that the server's
  proof uses the same lemmas), and each action is a short step. `TypeCorrect`, `Routing`, `Framing`, `OneAtATime` follow.
* `FirstComeFirstServed` and `NothingLost`, from a second invariant about the
  history: what was served, followed by what is due, is in order for each client
  and has exactly the commands accepted. `FlushDue`, `QueueDue` and `ReadDue` say
  how each operator moves that sequence.
* `Refinement`: `Spec => ServiceSpec`. Every step of the core is an `Accept`,
  `Serve`, `Stop` or a stutter of CommandService, by the same three lemmas.

`Graphserv_proofs`, for any set of sessions of any types, any number of cores, any
lines and requests, any table of core commands, both loops, with or without
failing cores (assumptions: `BoundsAssumption`, which says no more than that the
constants have their types): `Invariance`, and from it `TypeCorrect`,
`CoresStayInStep`, `RepliesReachTheirSession`, `NamesStayUnique`, `QueuedComplete`
and `OneCommandInFlight`. None of the five properties is inductive. `Inv`, checked
by run `server_sessions` before it was proved and by the other server runs while
it was being found, says beside `TypeOK`, `RunningNamesUnique` and `CoresInStep`:

* a command that is on its way (queued at a core, at its far end, or being answered)
  is complete, and one that a session still collects data for is not (`CoresTyped`,
  `GivenCommand`, `InputHeld`);
* IDs count up, and everything that exists has a smaller one (`CountersTyped`),
  which is why a stale `coreID` never finds another core than the one it named;
* replies are due only to sessions that have existed (`DueToKnown`), so a new session
  is owed nothing;
* a TCP session is owed at most one reply by all running cores together, and none
  while it has a command of its own that waits for data (`InFlight`); and a drain
  comes when the sessions of the iteration have been read (`DrainedAlone`).

The heart is that a TCP session executes a command only when nothing is due to it:
`ReadClientLine` queues the line otherwise, and `DrainLine` stops. `Executed` sums
up what executing a command can do to the session (answer it here, or give it to one
core) and to the cores (one created, one dropped, one told to shut down); one lemma
per server command shows that it does no more, and `CommandExecuted` puts them
together, through `ForwardToCore` and `LineFromClient` (`LineStep`). After that each
action has one lemma that says that it keeps the invariant, by three ways in which
cores can move: quietly (`CoresQuieter`), by one command given (`Given`), or gone.
`StepInv` is a fact about states, not behaviours, so it also covers the runs' initial
states, which are not `Init`: TLC checks that they satisfy `Inv`.

`GraphservOrder_proofs`: `OrderInvariance` and `RepliesStayInOrder`, from the same
assumptions and one hypothesis, `NoTermination`: no client's alphabet has
`drop-graph` or `shutdown`. It is needed. A core that is told to go is no longer
counted as running, so its session does not wait for it any more and executes its
next line, while the reply of the old core is still read and forwarded when it
comes. Cores that exit by themselves do no harm: a core is deleted only after its
output has been read, and until then it counts as running. Alphabets of all else
are covered, with data sets, `help` (whose list the server begins and the core
completes: two replies to one line), blank lines, HTTP sessions beside TCP ones.
`OrderInv`, checked by run `server_libevent`, says of the numbers of a TCP session's
lines: those of its replies are ascending; a line that is being collected as a
command is after every line answered, a queued one after both, and the queue is
ascending (`InputOrdered`); a command of it with a core is before all that is queued,
and while its status line has not come (`Coming`) its line has not been answered, but
for the server's part of help (`DueOrdered`). With `InFlight`, that at most one reply
is due, the next status line is to a later line than all before (`ReplySent`); with
`MustWait`, that a line is executed only when the queue is empty and nothing is due,
executing it keeps this so (`ExecutedOrder`, `LineOrdered`). `OrderMove` says what a
core's step may add to what it owes: nothing, or the command given.

HTTP sessions are outside `InFlight` and `OneInFlight` for a reason: a request is
executed although a reply may be due to an earlier one.

`PasswordAuth_proofs`, for any bounds: `ChecksCurrent` and `StaleNoticed`, if files are
not edited while the server starts, from `RefreshInv`. A refresh notes the time before
it reads, so an edit it misses happens in the noted second or later and has a
modification time that is `>=` the noted one; `Progress` says what is known at each
system call. `CacheWhole` needs no such hypothesis. Its invariant, `CacheInv`, says
beside the property what holds between the two files of one call (`BetweenFiles`: the
cache is untouched, and what is about to be put there is what was read and could be
parsed) and that a version, once read, stays well-formed or malformed however the
files are edited afterwards (`Versions`).

`NonblockWriter_proofs`, for any bounds and both loops: `InOrder` and `AllKept`.
The invariant is the conjunction of the type invariant with the two properties:
the buffer continues the wire without a gap.

`Processes_proofs`, for any number of descriptors, clients and cores: `Ownership`,
`Survival`, `WellFounded`, all from one inductive invariant (`Inv`, also checked
by run `processes`). Beside the properties themselves it says:

* what a start has opened is noted in `pipes` and refers to the new core, and by
  the handshake the core's own ends are closed (`StartUnderWay`); with it, closing
  the copies of the streams leaves exactly the three descriptors of the core;
* a listening socket that `select` reported has a connection waiting, which is why
  the session ID that `Accept` gives is new (`AcceptDoesNotBlock`);
* nothing in the server's table is the stdin of a core not yet made, so what a
  child inherits is of its own or an earlier core; past exec it has lost its own;
  and a process past `setpgid` is out of the group (`Inheritance`, in the proofs
  `Inheritable` and, process by process, `Fit`).

`RankInjective` (two free descriptors have different ranks, by the cardinality of
the set below them) is what makes `Opening` give each object to one descriptor.
One lemma per action, one step per conjunct.

`GraphservLines_proofs`, about the lines a TCP client has sent: none is forgotten,
and none is left in a queue that nothing will look at again. Each theorem has the
hypotheses it needs, and a run or section 5 shows why it needs them:

* `AllAnswerable`: clients send no `quit` with an argument and no blank line that
  announces a data set, which are read and never answered. No more is needed for
  `LinesInvariance` and `LinesLeaveWithCores`: with any cores, dropped, shut down or failing,
  both loops and HTTP sessions beside, every step leaves each line that has been read
  where it is known (`KnownLines`: answered, in `lineQueue`, collected, or with a
  core), moves it on, or deletes the core that had it. This is about steps; what makes
  it inductive is `LinesInv`: a core sends a data set only after its status line has
  been recorded for the client (`StatusCame`), so the step that ends the reply loses
  nothing, and a session collects only commands that will be answered
  (`CollectsCommand`). `CoreKeeps` says what an operation on a core leaves due.
* `NoTermination` and `~CoresMayFail`: nobody tells a core to go, and none goes by
  itself. Then `CoresStayAlive`, and with `AllAnswerable`, `LinesStayAccountedFor`: the
  property of states that `LinesGoWithCores` is of steps. `server_stalled_exit`
  shows what happens otherwise.
* `PlainLines`: TCP sessions only and no data sets. `PlainInvariance` and, from it,
  `QueuedUntilAnswered`. `server_stalled_dataset` shows that data sets break it. HTTP sessions
  execute a request although a reply is due, and may have moved to another core
  when a line is queued, so the theorem leaves them out. The heart is
  `ReadCoreLinePlain`: the one client to which a line of output may have ended what
  was due is the one that is drained next (`ClientWaiting`, taken before the line is
  handled), everybody else's reply is still due; and `DrainDonePlain`: the drain ends
  only when the queue is empty or a reply is due again.

With the hypotheses a server with TCP clients still does everything else:
it creates cores, switches between them, completes help, refuses and authorizes,
and loses sessions at any moment.

The module's last part is about HTTP, where the order of the parts above fails: a
request is executed although a reply may be due to an earlier one. With one request
per connection, as `doc/usage.rst` has it ("One command can be executed per
request"), no more is needed. `HTTPInvariance` is about each such connection, whatever
the others do: until its request is read its client may do only what every client may
(a lone request cannot authorize and then create, drop or shut down), so the request
gives at most one core one command (`ReadLevelCommand`, `RequestAnswered`); the line
that marks the conversation finished is the one that ends what that core owes
(`ToldOn`, `ReadCoreLineHTTP`, by the framing invariant of the core); and the sweep
shuts down what is marked (`HTTPOrderly`). `OneRequestAnswered` has from it
`HTTPResponseComplete`; its hypothesis, `OneRequest` in every state, is about the
clients of a behaviour, and the server's other sessions and cores are not restricted:
cores may be dropped and may fail. With two requests on one connection to two cores the
property is false, because the sweep asks the core of the second alone; run
`server_http` checks two requests to one core.

*Only model-checked*: `HTTPResponseComplete` for several requests to one core on one
connection; LineInput and HTTPRequest, whose `DecodeURI` is a
fold, so that what it computes for every URI would need induction over data; and
all liveness: fairness and `ENABLED` are out of the prover's reach. No module declares a RECURSIVE operator.

## 5. Known deviations of the code

Three are runs whose property TLC refutes:

* `core_libevent`: `mainloop_libevent` never flushes queues. A command queued
  behind another client's is written only when somebody gives the core another
  command (`servapp.h:287`, against `servapp.h:353`).
* `server_stalled_dataset`: a queued command that takes a data set makes the
  session wait for itself in the middle of the drain; the data lines queued
  behind it stay in `lineQueue` although no core reply is due (`servapp.h:492`).
* `server_stalled_exit`: a core that exits leaves the queued lines of the session
  that waited for it, and nothing else drains them (`servapp.h:517`).

Others were met while modelling, and are part of the modules, but have no run of
their own:

* `help <server command>` over HTTP never ends the conversation, although
  `doc/usage.rst:116` has the server close the connection after its one response:
  the terminating blank line is inside one string (`main.cpp:650`; the second
  disjunct of `CcHelp`, `ForwardDataset(listed, FALSE)`). A command of blanks only
  (`GET /core/+`) is taken for a blank line and leaves the connection open, too.
* `quit` with an argument answers nothing (`main.cpp:257`; first disjunct of
  `CcQuit`).
* Under libevent no HTTP session is shut down after its reply: the sweep exists in
  the select loop only (`servapp.h:520-535`; `EndIteration`).
* The constructor of PasswordAuth reads the files before it notes the time: an edit
  in between is never loaded (`auth.h:176`; `EditsAtStartup = TRUE` makes
  `ChecksCurrentFiles` fail). A file that is missing at the moment of a reload ends
  the running server (`auth.h:84`).
* A `startCore` that fails leaves its descriptors open, and forgets the child if it
  has one (`main.cpp:296`; `failedStarts` is the exception in `DescriptorsOwned`).
* Whether accepting is deferred after `EMFILE` depends on an `errno` that two log
  calls may have changed (`servapp.h:400`; both branches of `Accept`). Without the
  deferral the loop spins until a descriptor is free, and accepts then.
* Under libevent `quit` is never looked at (`servapp.h:287`), and the copy of a
  session's socket is inherited by cores (`servapp.h:212`).
* The port stays bound after the server has quit until the last core is gone: cores
  inherit the listening socket (`PortReleased` is "eventually" for this reason).
* The last lines a core writes to stderr are lost if the end of its stdout is read
  in the same turn (`servapp.h:465-510`), and a NUL hides the rest of a read
  (`coreinstance.h:84`).
* The comment "force output to be drained on close" (`session.h:82`): strings in
  the write buffer are lost (`Destroy`).
* A successful `shutdown` sets no status message, so the client gets the last
  error the command object remembers, or an empty line (`main.cpp:741-753`;
  `statusMessage`, `AfterShutdown`).

## 6. What is not modelled

Parsing of credential files and the comparison of hashes; libevent's own
bookkeeping; opening of the listening sockets, which happens once before the
loop, and the command line; accept errors other than `EMFILE`; read errors on
pipes; a core that closes its stdout and lives on, or that stays silent in the
handshake (the server would wait: `servapp.h:471`, `coreinstance.h:206`); choking
(switched off in the code), logging, statistics, localisation and texts. `EBADF`
from `select` is not modelled because `DescriptorsOwned` shows that a watched
descriptor is open. Words of one line are split by the `graphcore` submodule,
which is not in the repository: in Graphserv a line is a record of what the
server's decisions depend on, and HTTPRequest has its `splitString` from its use.
ID counters do not wrap. A connection that has been reported is still there when it
is accepted (the blocking `accept` of `servapp.h:397` has no property), and the end of the
deferral is looked at when `select` is called instead of at the loop top just before it. Undefined behaviour on lines of separators only
(`servapp.h:894`) is outside the alphabets. Processes has the select loop only,
one line per client (`create-graph`), and one of the two listening sockets.

## 7. Plan

Done: the core and its abstract service, the server, lines and HTTP requests, the
authority, the writer, processes and descriptors; the proofs of section 4. Next,
in this order:

1. `HTTPResponseComplete` for several requests to one core on one connection, from an
   invariant that ties `commandsExecuted` to the replies due.
2. Lemmas about LineInput: that `Assemble` of two reads is `Assemble` of their
   concatenation, for one character more (the step of the induction).
3. Graphserv's `writeBufferEmpty` as a refinement of NonblockWriter, and its
   creation of cores as a refinement of Processes.
