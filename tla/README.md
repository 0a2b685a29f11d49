# Formal model of ssh-session-mcp

ssh-session-mcp is an MCP server that keeps SSH terminals open and lets an AI
agent (through tool calls) and people (through viewers: a browser page or a
terminal program) work in the same terminal at the same time.  This directory
holds TLA+ modules that model its core logic, TLC configurations that check
them on small instances, and proofs that TLAPS checks for all instances.

Line numbers are those of the files under `src/`; `PROJECT.json` gives for
every definition the lines it stands for.

## 1. The system

Everything runs in one Node.js process, so the unit of atomicity is a piece of
a handler from one `await` to the next.  What interleaves are tool calls, viewer
messages, HTTP requests, callbacks of the SSH channel, and timers.

| Component | State | Operations | What makes it hard | What makes it correct |
|---|---|---|---|---|
| Input lock and drafts (`session.ts`, `tools.ts`, `viewer-ws-handler.ts`, `viewer-http-handler.ts`) | `lockPolicy`, `inputLock` (a cache), `agentInputActive`, `userDraftActive`, `draftViewers`, `userDraftBuffer`, `operationMode`, `runningCommands` of the session | `ssh-run`, `ssh-retry`, `ssh-session-send`, viewer input, draft, lock, mode and control messages, debug endpoints, close | several callers, one terminal; the flag is the only mutual exclusion; state read before an `await` and used after it | one command at a time, no user key in a command's output, the lock always comes back and is never held by nobody |
| Output and event rings (`session.ts`, `shared.ts`, `paging.ts`) | `buffer`, `bufferStart`, `events`, `eventSeqStart`, `nextEventSeq`, `transcriptCharCount`, `waiters` | output, records, finalize, `waitForChange`, `readSnapshot` | offsets outlive the text they name; a change between check and wait | an offset names the same character for ever, no lost wake-up, clients get everything in order or are told |
| Command completion (`session.ts` `waitForCompletion`) | four kinds of timers, the last 4000 characters | start, output, close, timers | all timers run at once, chunks end anywhere | answers once, in time, and never invents an exit code |
| Asynchronous commands (`server-state.ts`, `tools.ts`) | `runningCommands`, the monitors, the sweep interval | promotion, monitor, sweep, `ssh-command-status`, close | callbacks that run long after their entry has gone | nothing is lost without a reason, nothing stays for ever, nothing comes back |
| Session history (`history.ts`) | lines, a pending line, a ring | append, finalize, read | line ends cut by chunks, a virtual last line | numbering never restarts, every character is in one line |
| Session registry (`server-state.ts`, `tools.ts`) | `sessions`, the default target | open, quick connect, close, sweep, resolve, select | checks before the `await` of a connection, registration after it; the default target is recomputed while sessions end | nothing is lost sight of, an argument keeps its meaning, an end moves no default that is open |
| SSH connection (`session.ts`) | the client and the shell channel | connect, shell, error, end | error and close callbacks in any order | one finalize, no session without a channel |
| Distributed mode (`distributed.ts`, `server-state.ts`) | records in Redis or in memory, caches of them, the connection to Redis | register, save, remove, look up, heartbeat | writes that nobody waits for, replies matched by position, a node that crashes | every reply reaches its command, records follow what the node holds, nobody is sent to a node that is gone |
| Viewer clients (`viewer-cli.ts`, `viewer-html/*-script*`) | position in the raw output, decoder, queue of keys, reconnect timer | connect, replay, output, poll, type, leave | output that arrives twice or with a hole after a reconnect, bytes that end inside a character | what is shown is what the terminal printed, keys arrive in order |
| Viewer processes (`server-state.ts`, `scripts/ctl.mjs`) | `viewerProcesses` and its file, `server-info.json` | ensure, list, terminate, start and stop of servers, `ctl launch`, `kill`, `cleanup` | files shared by processes that start, stop and die in any order | a viewer that runs is on record, the info names the server that runs |
| Viewer server (`viewer-http-handler.ts`, `viewer-ws-handler.ts`, `viewer-routes.ts`) | open sockets | attach, input, poll | requests that are gone when their wait ends | no effect after the end |
| Command policy (`validation.ts`, `session.ts`, `config-cli.ts`, `viewer-html/home-page.ts`) | the rules in the configuration, of a session, and on the page that edits them | set, replace, remove, reset, save, validate | a page that refreshes itself while the user edits and the tools write | what the page shows is what the server judges by, what it saves comes back |
| Profiles, configuration, parsers, diagnostics, logging, local shell, pages, repository checks | files or none | sequential | - | covered by the repository's tests |

`ssh-run` and `ssh-retry` take the agent flag (component 1), write the command,
wait for its end (component 3) on the output ring (component 2), and hand
a command that takes too long to the asynchronous part (component 4).  Viewers
change the lock, are told of output through the ring and may close the session;
the sweep closes idle sessions and drops what belonged to them.  Sessions are
opened, found and chosen through the registry; with `--mode distributed` every
change of it is also written to Redis for the other nodes.

## 2. Modules

| Module | Models | Uses |
|---|---|---|
| `CommandSlot` | abstract: what callers are promised about a session, one command slot | |
| `InputLock` | who may type: lock policy, flag, drafts, `ssh-run`, `ssh-retry`, viewers, debug endpoints | implements `CommandSlot` |
| `BufferSnapshot` | `createBufferSnapshot`: one page of a ring | |
| `SessionStream` | output ring, event ring, waiters, polling clients | extends `BufferSnapshot` |
| `CommandCompletion` | one `waitForCompletion` with its timers, over a stream of tokens | |
| `AsyncCommands` | tracked commands, monitors, sweep, status, ends of sessions | |
| `SessionHistory` | the line-numbered history and its reader | |
| `SessionRegistry` | opening, connecting, closing, selecting and resolving sessions | |
| `RespParser` | how replies are found in what Redis sent | |
| `RedisClient` | the connection to Redis, its queue of requests, failures | extends `RespParser` |
| `Cluster` | records of nodes and items in Redis, heartbeat, caches | |
| `ViewerProcess` | servers, viewer processes, the `ctl` script and the files between them | |
| `ViewerClient` | what follows a session's output and sends keys, four kinds | extends `BufferSnapshot` |
| `PolicyRules` | the rules of a session, the configuration and the page that edits them | |
| `MC*` | symmetry and constants of a run, where its configuration needs definitions | the module named |
| `*_proofs` | theorems and proofs | the module named; `LockAndPolicy` is `InputLock` and `PolicyRules`, `Viewers` `ViewerProcess` and `ViewerClient`, `Distributed` `Cluster`, `RedisClient` and `RespParser` |

### InputLock

State: the fields of `SSHSession` that decide about input, the viewers with an
open socket, `pc` and `retry` of the tool calls in flight, and `tracked`, the
running entries of `runningCommands` for this session; `debugMode` says whether
the server was started with the debug endpoints.  A text is its length.
Ghosts: `line` and `typist` say what a user really has on the remote command
line and who typed it, `plain` that nothing but typing and erasing at its end was
done to it, `wire` who wrote last, `unfinished` which commands have neither ended
nor been given up.  Tab, esc, an arrow key, or an agent's text without a newline
may make any line of it (completion, history, a moved cursor); the draft counts two
characters for an arrow that is typed and ignores the others.  `RunStart` is the body of `ssh-run` from its checks to the
`await`; `RunComplete` and `RunTimeout` are what follows, with the `finally`
block; `RunStartDetached` is `waitMs = 0`.  `Attempt` is one round of the loop
of `ssh-retry`.  `SettleTracked` stands for everything that ends an entry
(monitor, sweep, status), which `AsyncCommands` models in detail.

### SessionStream

A character is its position in the whole output of the session; an event text
is its length.  `Output`, `Record` and `Finalize` change the rings and wake
clients in the same handler, as `flushWaiters` does.  A poll is three steps:
`StartPoll` (the check and the registration), `WaitTimesOut` or a wake-up, and
`FinishPoll` (the page is read after the `await`, on the ring as it is then).
`HintClients` go on where `readMore` points, the others at `nextOffset`.

### CommandCompletion

The stream is made of tokens: the trailer, the marker, the digits, text that
looks like a prompt, and other text.  `Deliver(n)` is a chunk that ends
anywhere, also between the marker and the digits; `BufferTail` keeps the last
`Window` tokens (4000 characters).  `maxTimer`, `idleTimer` and the set
`finishing` (every look that saw the sentinel or a prompt starts one 50 ms timer
and cancels none) count ticks; a tick never passes a timer that is due, and
timers due together fire in any order.  `WaitAgain` is the monitor's next wait.

### AsyncCommands

`runningCommands` maps commands to their status, `monitor` to the wait under
way, `age` and `doneAge` count ticks since `startTime` and `completedAt`.
Callbacks of promises that a handler resolved run directly after it, so an
action that ends a session also holds what the waits on it do (`EndHandler`,
`WaitsEnd`).  A sweep may find any open session idle and any closed one past its
retention.  How a wait ends is left open here: `CommandCompletion` says how.

### SessionHistory

A printable character is its position among all of them, a chunk a sequence of
"char", "cr" and "lf"; `IsBreak` and `Piece` do what normalising and splitting
do.  Of an event only its number of lines matters.  `AppendOutput` and
`AppendEvent` are the loops over `pushLine` with `trim`, in one step because
nothing comes between.  `Finalize` first appends what the UTF-8 decoder still
holds.  The reader goes on at `nextLine`, as `ssh-session-history` tells it to.
Two things the model shows and nobody promises otherwise: a line end cut between
two chunks gives an empty line more, and a reader that was shown the incomplete
last line goes on behind it and never gets its rest.

### SessionRegistry

`reg` is what the server holds: the tracked sessions, the open ones with the order
of their last updates (`later`, pairs of sessions), the default target and the
live connections.  A session id
stands for the call that opens it, so `call` is the progress of
`ssh-session-open` or `ssh-quick-connect` through the connection (`ConnReady`,
`ConnFails`) and the shell (`ShellOpens`, `ShellFails`).  The checks are in
`OpenStart` and `QuickStart`, the registration in `ShellOpens`: everything may
come between.  Tools sweep before they begin, so their actions start from one of
`Sweeps(reg)`; which sessions are idle or past their retention is a choice.
`Resolve` is `resolveSession` with an argument, `UseDefault` without one.
`seen` is a ghost: the open sessions an opening call checked against.

### RedisClient and RespParser

`client` holds the fields of the class and the state of each socket.  An action
is an event of the runtime with all the promise continuations it sets off:
`Connected`, `Data` (replies in chunks of any size, with a part of the next one),
`Error`, `Close`, a `Call` and `CloseStore`.  Replies carry no number; `mixed`
is a ghost for the cases in which the code loses its place (an error reply with
others behind it, an old socket that still answers).

`RespParser` is the parser on characters, which are numbers; what is written with
digits is one character; a character of several bytes counts as one, as in a
string, and as several in the length before it.  `Flushed` is a turn of the loop in `flushPending`,
`Drained` the loop.  `Whole` speaks of any sequence of up to `MaxReplies` replies,
errors among them, and every place it can be cut at, and justifies that `Data`
hands on whole replies.  `ParsedWhole`, in `RedisClient`, is `Whole` for the
requests that are in the queue.  Values with a character of several bytes are
excepted from both: there the parser takes a part of the next reply, which
`BytesCounted` shows (section 4).  Arrays hold scalars: no command of the client is
answered with an array in an array, so the elements are parsed by
`ParseRedisScalar`, one after the other.

### Cluster

Sessions, bindings and running commands are saved, removed and listed in the
same way, so an item is any of them.  A node's requests go through its
connection in order: `sent`, then `Redis`, then `replies`, then `Receive`, which
makes the requests that follow (a value and then its index, the items of a
heartbeat one by one).  Continuations that one reply sets off run in any order
(`Orders`).  `Open` and `Forget` are the saves and removals nobody
waits for.  A node stops (`Stop` is `cleanup` up to the removal of the node's record,
`Exit` what follows it), is killed, is started again, or loses its connection; time
is counted in heartbeat intervals.  Between `Stop` and `Exit` a session may still be
opened, by a call whose connection comes up then.  The exit handler starts the removal
of its record but the process ends before it is written, so the record stays; such an
item gets the opener `Lost`, as one of a node that crashed.

### ViewerProcess

A process is numbered in the order of its start and that number is its pid.
`Ensure`, `Terminate`, `Saved`, `Launch` and `Launched` are the pieces of
`ensureViewerForSession` between its awaits, `List` is `ssh-viewer-list`.
Servers load the records, listen (the port is configured or drawn), stop, exit or
are killed at any point; `Ctl*` are the commands of `scripts/ctl.mjs`, which look
at the files and send signals.  Each await may fail and the call with it: the end of
a viewer (`TerminateFails`), a save (`SaveFails`, the file is then old, empty or
written) and a launch before or after PowerShell has started the viewer
(`LaunchFails`).  Two ghosts say under which histories the invariants hold.  `failed`
has the viewers whose launch failed once they ran, and whether the last save failed.
`excuses` has "servers" once two servers have overlapped, and "records" once calls
have, a server has ended in the middle of a call or after a failed save, or the files
were removed.  What happens in the overlaps is not what the invariants are about:
`SingletonScoped` (section 4) is, for calls; for servers it is that one that is slow
to stop removes the info of its successor (`server-state.ts:1412`).

### ViewerClient

The four kinds of viewer (xterm page and `viewer-cli` over a WebSocket, legacy
page and legacy loop by polling), each with the server's end.  The shell sends
bytes; the decoder of the server makes them the characters of the ring, and the
page's own decoder counts what it received for `rawOffset`.  `Connect`, `Attach`
(with `Replay`), `Receive` and `Drop` are the WebSocket, `Poll` and `Answer` the
requests.  A binding may move to another session, sessions close and are
forgotten.  `reasons` is a ghost that names what a viewer is known not to survive: it
was sent a ring without its start ("trimmed"), the server had part of a character when
it connected or sent nothing for one ("split"), the binding moved, or `viewer-cli`
reconnected.

### PolicyRules

`files` are the two configuration files, `defaults` and `active` the rules of a
session, `rows` what the page keeps and `screen` what it shows, `fetches` its
requests.  `Validate` is the order of `validateCommand`: always blocked, the
first custom rule, the built-in lists (which a command is a member of is its
kind).  `Save` sends what the page has, `Posted` is the handler, and the page
asks again before it shows the answer (`Saved`, then `Loaded`).
Things the model shows and nobody promises otherwise: a refresh under way opens
details that were closed; an added rule has an empty pattern, which matches
everything; an edit made while an answer is under way is overwritten and the page
then believes it has one; a POST with an id of more than 40 characters leaves the
rules half replaced; a save removes rules that a tool added meanwhile, and makes
rules of one id one rule.

## 3. Runs

| Run | Shows |
|---|---|
| `input_lock` | the draft bookkeeping and the tracking survive every interleaving of a browser viewer, an HTTP user, a run, a retry and the debug endpoints; without these, one command in flight, no user key in it, the calls implement `CommandSlot`, and every call returns |
| `session_stream` | offsets, event numbers and counts stay right, no wake-up is lost, a client gets every character in order or is told, and a poll comes back |
| `command_completion` | a wait ends within 50 ms of the exit code, once, honestly, and says idle only after silence; it always comes back |
| `async_commands` | results disappear only for a reason, running entries have their monitor, limits hold, nothing comes back; every entry is dropped in the end |
| `session_history` | lines are numbered without holes and for ever, every character stands in one line and events in their place, a reader gets every line or is told |
| `session_registry` | an open session can be found and a live connection has an owner, duplicates need overlapping opens, ends do not move a default that is open, an argument never comes to name another session |
| `redis_client` | no reply is taken before it is there, an answered command got its own reply, commands that waited run in the chosen database, every call settles, unless replies were mixed up |
| `cluster` | the store has what a node holds and nothing it forgot (of what it opened before it began to stop), a ready node is known to the others, what was forgotten leaves every cache |
| `viewer_process` | a viewer that runs is on record, also after launches, saves and ends of viewers that fail, and `server-info.json` names the server that runs, but for the histories in `excuses` and `failed` |
| `viewer_client` | characters in sequence through reconnects, but for what `reasons` names, keys in order, and a viewer that is left alone catches up |
| `policy_rules` | no inherited id is without its rule, the page shows what the server judges by, a save comes back as sent, and the page follows the server |
| `draft_lost` | ends in a counterexample, see section 4 |

Some invariants of the runs are conjunctions of named parts: `RingsExact`
(`BufferIsTail`, `EventsContiguous`, `CharCountExact`), `ReadsOnward`
(`ReceivedInOrder`, `NoSilentGap`), `EntryLifetime` (`UnknownExplained`,
`MonitorAlive`, `EntriesBounded`), `HistoryFaithful` (`NumbersConsecutive`,
`TextKept`, `EventsInPlace`) and `ResultHonest` (`ExitCodeHonest`,
`IdleOnlyAfterSilence`, `AnswerStays`).

### Bounds

`InputLock`: a run and a retry are two callers for a race, the retry with a
first, a last and a failed attempt (`MaxRetries = 1`); a browser viewer and the user
of the HTTP input, so that one leaves while the other types; a draft of two
characters, which is what an arrow key adds.  `SessionStream`: a ring of three characters and pages of one and
three over seven characters of output make clients fall behind, pages cut and
chunks larger than the ring; the event ring (two events, four characters) trims
for both of its limits and empties itself.  `CommandCompletion`: the idle timer
is shorter than the longest wait and longer than the 50 ms, as in the code;
four tokens under way hold a whole trailer or a whole exit.  `MaxWire` is at
most `Window`, that is, a chunk does not exceed 4000 characters by itself.
`AsyncCommands`: `MonitorTicks = 1` and `MaxDepth = 2` put the monitor's limit
and the sweep's stuck limit at the same age, so that either may come first; with
the code's values (12 waits of 5 minutes, and 10 minutes) the sweep always does.
The eviction time is below the stuck time as in the code.
Ages stop counting at `LastAge` and `LastDoneAge`, beyond every limit.
`SessionHistory`: a ring of three lines under eight line numbers trims several
times, and the chunks break off before, inside and after a line end.
`SessionRegistry`: three sessions are two that race and one that was there
before; one profile, one name, which is also the default one, and one number
that may be asked for are enough for every clash.  `RedisClient`: three commands
over two connections, with password and database, so that AUTH, SELECT and a
failure of either come; two replies in the buffer, arrays of up to two, and values
that are empty, look like a type, a line end or the beginning of one.  `Cluster`: one node that hosts and one that
looks on, one item, and one end (a stop, a crash or a lost connection, with the
restart); a record expires after two intervals, and the clock counts for the
node that hosts.  `ViewerProcess`: two servers, in turn or at once, two calls,
two viewers of one binding and one pid that is used again.  `ViewerClient`: three
characters, the second of two bytes, through a ring of two and pages of one; two
failures against one attempt to reconnect; keys and output are not mixed in one
behaviour (`Limits`), as they do not meet in the code.  `PolicyRules`: two rules
of the global configuration, one that the workspace replaces, one the tools
replace and one they add, four events and one refresh under way; an edit switches
a rule off, makes it an error, clears its id or gives it that of another row.

Deadlock is not checked where the system rests: a wait that has answered
(`CommandCompletion`), a client whose calls are used up (`RedisClient`), a viewer
that has stopped (`ViewerClient`), and where the bounds leave nothing to do
(`ViewerProcess`, `PolicyRules`).

### Fairness

Node.js fires due timers, delivers what has been received and runs the code
after an `await` by itself; that is all that is assumed of this side.  Waits have
a maximum (`RunTimeout`, `WaitTimesOut`, `TimerStep`), delays are timers
(`RetryAttempt` or `RetryBlocked`, `Connect`, `Poll`, `Heartbeat`, `Refresh`).
Nothing is assumed of SSH hosts, of clients or of users: liveness holds when they
are silent for ever.  `RedisClient` assumes that a socket that owes something
(a connection attempt, a reply, the end of a destroyed socket) reports it or
fails, which TCP does by its own time limits; `Cluster` that Redis answers while
the connection holds; `ViewerClient` and `PolicyRules` that what is sent and not
lost arrives.  Failures there are bounded, so that "in the end" means after the
last failure.

## 4. What the code does not keep

`draft_lost` is a run: a browser viewer that leaves or clears its line releases
the auto lock although another user's line is half typed
(`NoAgentWriteIntoDraft`; README.md:375).

More properties of this kind stand at the end of the modules, each with a
configuration of its own that shows the counterexample
(`tlc -config <cfg> <module>`, with the `MC` module where there is one).  Where two
properties have one configuration it checks the first, and a comment in it names the
other, to be put in its place:

| Property | Configuration | What happens | What is promised |
|---|---|---|---|
| `NoCommandOverTimedOut` | `InputLockRetry.cfg` | an attempt of `ssh-retry` that timed out leaves no entry, so the next attempt, or anyone's command, is typed over it (`tools.ts:2514`) | CHANGELOG.md:214, `AGENT_BUSY` while a command is running |
| `SafeModeHolds` | `InputLockRetry.cfg` | `ssh-retry` checks later attempts against the operation mode of its beginning (`tools.ts:2331`, `:2405`) | README.md:354, safe mode blocks dangerous commands |
| `DraftSeesLine` | `InputLockLine.cfg` | a line that completion or the history has put on the terminal, or an agent's text of which the user then erases, is not in the draft (`session.ts:771`) | README.md:375, agent writes are blocked while the user drafts |
| `UserPolicyBlocksAgent` | `InputLockUserPolicy.cfg` | while `ssh-run` waits, its flag hides the user policy from `ssh-session-send` (`session.ts:816`) | README.md:374, "Only the user can type" |
| `OneCommandInFlight` | `InputLockDebug.cfg` | the debug endpoint resets a flag that it does not own (`viewer-http-handler.ts:768`) | tools.ts:1633, "Mutual exclusion" |
| `HintGoesOn` | `SessionStreamHint.cfg` | `readMore` of a truncated page points to its beginning (`paging.ts:42`) | CHANGELOG.md:161, consistent offset guidance |
| `SentinelFirst` | `CommandCompletionFirst.cfg` | a prompt or idle timer that is already running ends a wait that has seen the sentinel (`session.ts:929`) | CHANGELOG.md:212, sentinel before prompt and idle |
| `SentinelHasExitCode` | `CommandCompletionCode.cfg` | a chunk that ends between marker and digits costs the exit code (`session.ts:928`) | CHANGELOG.md:209, exit code in the response |
| `SentinelMeansExit` | `CommandCompletionEcho.cfg` | an echo cut by the window is taken for the end (`session.ts:125`) | session.ts:862, "We need to match only #2" |
| `ReportedFinishedHasFinished` | `AsyncCommandsEnd.cfg` | three silent seconds are reported as "Command has finished" (`tools.ts:2231`) | the answer itself |
| `InterruptedMeansStopped` | `AsyncCommandsEnd.cfg` | an interrupted entry leaves its command running (`server-state.ts:1782`) | CHANGELOG.md:215, stuck commands auto-interrupted |
| `AmbiguityRefused` | `SessionRegistryDefault.cfg` | without a selection the session updated last is the default (`server-state.ts:841`) | docs/acceptance-scenarios.md:38, "avoid silent mis-targeting" |
| `BytesCounted` | `RedisClientWide.cfg` | a length counts bytes and is used on a string of UTF-16 units, so a value with a character of several bytes takes part of the next reply (`distributed.ts:274`) | the protocol of Redis |
| `StoppedLeavesNothing` | `ClusterLate.cfg` | a session opened while `cleanup` waits for Redis is saved, and its removal is started too late to be written (`server-state.ts:518`, `index.ts:144`) | docs/acceptance-scenarios.md:30 |
| `StoreFailureSurvived` | `ClusterFailure.cfg` | nobody handles the rejection of a save or removal, which ends the process (`server-state.ts:522`) | docs/docker.md:187, Redis failures "keep the pod out of service" |
| `OwnerAnswers` | `ClusterBinding.cfg` | two nodes with a session to one host write one binding record (`server-state.ts:1291`) | README.md:487, `REMOTE_OWNER` when not the owner |
| `SingletonScoped` | `ViewerProcessDuplicate.cfg` | two calls for one binding launch two viewers (`server-state.ts:2599`) | tools.ts:1194, "singleton-scoped" |
| `NothingTwice` | `ViewerClientGaps.cfg` | the page counts from 0 what began at `rawBufferStart` (`xterm-script-sections.ts:231`) | CHANGELOG.md:322, "Reconnect without duplication" |
| `VerdictAsShown` | `PolicyRulesWarn.cfg` | the files may say `warn` (`profiles.ts:76`), which blocks nothing but is shown as an error, and a save of the page makes it one (`home-page.ts:70`) | home-page.ts:310, "Order: error > warning > log" |
| `RawPassthrough` | `ViewerClientGaps.cfg` | bytes that complete no character reach no viewer (`session.ts:400`) | viewer-cli.ts, "WebSocket + raw PTY passthrough" |

## 5. Proofs

`LockAndPolicy_proofs` proves, for any callers, viewers and bounds, the type
invariant and every safety property of `input_lock`.
`DraftInv` (types, `DraftHasOwner`, `LineWithinDraft`, `CachedLockFresh`)
is inductive as one: who owns the draft decides the lock, and a line that was only
typed and erased at its end (`plain`) is bounded by the draft; any other line is not
(`DraftSeesLine`, section 4).  `SlotInv` adds that the flag is up while a
caller of an open session waits; this is what keeps a second caller out, and it
needs the debug endpoints off.  `debugMode` never changes (`DebugModeFixed`), and
those theorems say `debugMode \/ ...`.  From `SlotInv` follow the refinement of
`CommandSlot` and `NoUserKeysIntoCommand`.

It also proves the three safety properties of `policy_rules` for any rules, ids,
edits and writers.  `RulesInv` says that no two rules of a file or of a session have
one id, that a session has a rule for each id of its defaults, and that what the page
has and sends are rows.
`VerdictsAlwaysAsShown` relates two orders: the session sorts by priority, the page
by level.  In a strict total order each rule has a place, the number of rules before
it (`PlacesAre`), so the first rule of a list is the one with nothing before it
(`FirstRuleIs`, `FirstRowIs`).  Its hypothesis is that no installed rule has the
action `warn` (section 4); `NeverWarn` carries that to whatever the tools and the
page add.  `SavesAlwaysAsSent` needs that rows are sent in levels and that one save
is under way at a time (`SavesOK`): the priorities given then put the rules in the
order of their rows.

`SessionStream_proofs` proves that the rings are what they are addressed as
(`RingsExact`), that no wake-up is lost, and that clients receive in order and
without silent gaps (`ReadsOnward`), for any sizes and any number of clients.
`RingInv` holds the true count of characters, since trimming removes as many
events as the count says: the prefixes that are too short to drop are the shorter
ones (`FirstThatFits`), and what is left has the sum that is left (`SamePrefix`).  The helpers of `BufferSnapshot` are proved to return a page
that is inside the ring.  The client properties need that a cursor is never
beyond the end of the buffer and that the last received character is below the
cursor.

`AsyncCommands_proofs` proves every safety property of `async_commands` for any
commands, sessions and time limits.  The invariants of the run are not inductive:
that the sweep comes in time is in its timer (a running entry is no older than
the limit plus what the timer has run), and that the monitor's limit is a time
is in its counters (`age + left = (depth + 1) * MonitorTicks`).  `Entry` says
this per command, `Foreground` ties what `ssh-run` waits for to an open session.

`CommandCompletion_proofs` proves the types and both safety properties of
`command_completion` for any times and sizes.  `ExitCodeHonest` needs that the code
is nowhere in the stream before the command has exited (`HonestInv`); that 'idle'
means silence needs that what is left of the idle timer is what is left of the
silence (`IdleInv`).  For `SentinelEndsWait` the code must be seen together with its
marker wherever a chunk ends: `StreamInv` says that a code that is still under way
follows a printed marker, on the wire or at the end of the tail, and `FinishInv` that
a wait which has such a marker in its tail has a finish timer.  `TicksAssumption`
bounds what is under way by `Window`.  The code has no such bound: behind the marker
one chunk could bring more than the 4000 characters that are looked at, only from a
program that runs on in the background, since after the marker the shell prints its
prompt; such a wait ends by another timer.

`Viewers_proofs` proves both safety properties of `viewer_process` for any
servers, viewers, bindings and calls.  What keeps `server-info.json` right is
`OneServer`: at most one server runs, until one is started beside another (the
excuse "servers").  `ServerInv` is that with the types.  `ViewersRecorded` needs
`RecordInv`, which holds while there is no excuse.  `CallInv`: one call is under way,
on the server that runs, what it is about to write is what that server has, and
nothing runs for a binding it launches for.  `FileInv`: between calls the file is
the server's records.  `ViewerInv`: each viewer is on record or has just been launched.
Two things a failure may leave are allowed for: after a failed save the file need not
be what the server has (`Same`), and a viewer whose launch failed is on no record
(`Known` are the others).
Excuses are only added (`ExcusesStay`), so the theorem covers each behaviour up
to its first one.

It also proves both safety properties of `viewer_client` for any characters, ring,
page and failures.  Nothing of what is shown stands in the state of the server, so
`ClientInv` says where a viewer is: up to its first excuse it stands between two bytes
of the session (`SocketShows`), its decoders hold what is begun there, the chunks under
way are exactly the bytes behind it, and a page that will reconnect asks for what it
has; a polling viewer has a piece that ends at its offset (`PollShows`).
`KeysInv` puts what was typed, what is under way and what the session got in one order.

`SessionRegistry_proofs` proves the four properties of `session_registry` for any
sessions, profiles and names.  `NothingStray` and `DuplicatesOverlapped` need `Inv`:
the registry is well formed (`later` orders the open sessions, which are tracked),
what it holds was opened by a call that has ended or is the connection of one that
waits for its shell (`Owned`), and whom a call checked against had another name and
connection, which outlives those sessions (`Checked`).  That ends keep the default
(`DefaultKept`) rests on one lemma for every way a session is dropped: what is
left is `Within` what there was.  That an argument keeps its meaning
(`ExplicitStable`) follows from `Named`: an argument of an open session names that
session or nobody, in every registry that `Inv` allows.

`Distributed_proofs` proves both invariants of `cluster` for any nodes and items.
`ReadyMeansKnown` needs `Stands` (no removal of its own record is under way for a
node that is up) and `Clock`: while the node counts itself ready its record in Redis
is no older than the last heartbeat it heard of, and once the heartbeat under way is
past its first request the record is no older than that heartbeat (`Renewed`), however
long its answers take.  `StoreExact` speaks of a moment
when nothing is under way, and needs to know what is under way before:
`Owns` and `Recorded` say that only the node that opened an item writes it and that
only removals are never the heartbeat's, and `Keeps` says per item, of what is held
(`AsHeld`), that behind each removal stands a save, and of what was forgotten
(`AsLeft`), that behind each save stands a removal, on the way to Redis and among
the replies.  It excludes the items in `Shared`, as the property does, and what is opened while the
node stops, whose opener is `Lost` at once.

It also proves `RepliesMatch` and `WaitersInDatabase`, the safety properties of
`redis_client` that do not speak of characters, for any number of commands and
connections, with and without password and database.  `OwnConnection` says that the
client's socket is open, that without one the queue is empty, and that no request is
on a socket that is not open yet.  While the ghost `mixed` is down, `InStep` says that
no other socket is open, that what was received is answered and that the queue is
what the connection still owes, and `Selecting` that SELECT went out on the
connection when it is in the queue.

`ParsedWhole` is proved for any values, sizes of arrays and numbers of replies.  The
proof is about what a buffer holds from a position on: it `Agrees` with the text of a
reply when the two are the same as far as the buffer goes.  A buffer that agrees is
read (`Reads`) as that reply when all of it is there and as nothing when not, for a
line (`LineEndIs`), a bulk value, which may hold line ends of its own (`BulkReads`),
and an array, whose elements are read up to the first that is not whole
(`ElementsAre`, `ArrayReads`).  `FlattenPlaced` says where in the text each element
and each reply begins.  Then a turn of the loop takes exactly the next reply or
nothing (`TakesNext`), and the loop ends where the first error, the last request or
the last whole reply is (`DrainedIs`).

`SessionHistory_proofs` proves the three properties of `session_history` for any
ring, chunks, events and pages.  `NumbersConsecutive` is not enough for the text:
`Text` says that the pending output is the characters from some `q` up to the last
one printed (`Interval`), and that the stored lines have, in order and once each,
the characters up to `q` from their first one on (`Kept`) and the events between
them (`Placed`).  Every append, of output, of an event or of the rest at the end,
does what `Grows` says, and keeping the newest lines keeps all of this
(`NewestKept`).  The last conjunct of `Inv`, that the reader is never ahead of what
there is, is what `ReaderGoesOn` needs: pages go by numbers, and indices computed
from them are right only for numbers without holes.

Sums, filters and recursive functions are reasoned about by the least number for
which something fails (`LeastNumber`, from the well-foundedness of the natural
numbers), one statement at a time.

Assumed are only the named assumptions on constants.  Left to TLC are all liveness
properties (`CallsReturn`, `PollReturns`, `WaitReturns`, `EntriesForgotten`,
`EveryCallSettles`, `ForgottenVanishes`, `CatchesUp`, `FollowsServer`), since they
need fairness and what is enabled.  Every other property of a passing run is a
theorem.

## 6. What is not modelled

- `InputLock`: what the terminal shows, terminal-mode detection, the wording of
  answers.
- `SessionStream` and `ViewerClient`: characters of more than one UTF-16 unit,
  what the decoder gives when it ends inside a character, resizing, the status
  bar, the panel of records, the page's switch of modes (a GET and then a POST),
  viewer access policies, text that stands on the page before it connects.
- `AsyncCommands`: the rejection of `waitForCompletion` (it never rejects, so the
  monitor's `catch` branch cannot run).
- `RedisClient`: values with characters of several bytes (the length counts
  bytes, the position UTF-16 units: `ParsedWhole` leaves them out), parts of
  replies of two sockets in one buffer, and arrays in arrays.
- `Cluster`: loss of data in Redis, heartbeats that overlap, what is left in the
  index for records that are gone (readers skip it).
- `ViewerProcess`: what a process of somebody else that has a viewer's pid does,
  the opening of a browser.
- `PolicyRules`: the patterns themselves and the built-in lists, which are pure
  functions of the text of a command; a rule whose pattern is no regular expression,
  which the POST of the page does not look for (`viewer-http-handler.ts:633`) and on
  which every command that comes as far as it throws (`validation.ts:182`).
- Profiles, parsers, diagnostics, logging, the local debug shell, pages, and the
  checks of the repository are sequential code on files and text; `PROJECT.json`
  lists them with the reason.

## 7. Plan

1. The records that the history and the panel of the page build from one stream
   of events: the page's view of them after a reconnect.
2. Profiles and configuration: two CLI processes that write one file.
3. Arrays in arrays in `RespParser`: the parser as a function of the depth of
   nesting, and the proof of `ArrayReads` once for each depth.
