# A verification project for simplecc

simplecc is an LSP client for Vim 9 in two processes: a Vim9 script plugin
(`autoload/`, `plugin/`) and a Rust daemon (`src/simplecc/`) that starts the
language servers and talks to them.  The editor and the daemon exchange JSON
lines; the daemon and each server exchange JSON-RPC frames.  This directory
holds TLA+ models of the parts where order, concurrency and failure decide
whether the program is right, the TLC runs that check them on small instances,
and TLAPS proofs.  Paths below are relative to `src/`.

## The system

| Component | Source | State it keeps | Operations | Interacts by |
|---|---|---|---|---|
| Request engine of a client | `src/simplecc/lsp/client.rs` 327-900 | `pending`, `latest_requests`, `alive`, ids | request, request_latest, notify, shutdown, cancel, timeout, dispatcher | locks, oneshot channels, the transport |
| Transport | `lsp/transport.rs` | child process, writer | send, terminate, read loop | stdin/stdout of the server |
| Completion cache and menu | `client.rs` 1057-1157, 2521-2576; `simplecc.vim` 1796-2500 | generation, items; request id, popup, resolved items | complete, resolve, select | replies and generations |
| Code lens / code action caches | `client.rs` 42-157, 1297-1507, 2469-2632; `simplecc.vim` 2873-3013, 6764-7308 | generation, uri, items; pending requests, lens cache, menu, executions | list, resolve, execute, refresh, invalidate | indices into a cached reply |
| Daemon main loop | `simplecc_daemon.rs` 521-1980 | task set, in-flight ordered request, registry, install tasks | read a line, run in order / spawn / barrier, drain at EOF | channels |
| Server registry | `registry.rs` | clients by (server, root), settings | ensure, prune, forward events, reload, shutdown_all | event channel, RwLock |
| Daemon supervisor | `autoload/simplecc/core.vim` | job, handshake, requests with deadlines, back-off, breaker | ensure, stop, restart, request, cancel, exit | job callbacks, timers |
| Document sync | `simplecc.vim` 1383-1740; `client.rs` 926-1050 | versions, changedticks, pending changes, timers | open, change, flush, close, save | ordered daemon requests |
| Semantic tokens | `client.rs` (semtok), `simplecc.vim` | result ids, token data, per-URI locks | full, delta, edit, evict | cache, replies, the lock of a document |
| Watched files | `workspace_watcher.rs`, `client.rs` | registrations, batch, dedupe window, refresh throttle | register, coalesce, filter, notify | notify thread, requests of the editor |
| Installer | `installer.rs` | hidden siblings on disk, running children | recover, download, unpack, activate, roll back | file system, other daemons |
| Save pipeline | `autoload/simplecc/save.vim` | waiting saves, deadline | format, actions, write | BufWriteCmd, timers |
| File rename | `autoload/simplecc/files.vim` | one transaction | willRename, apply, didRename, roll back | daemon replies |
| Workspace edits, diagnostics | `simplecc.vim` | buffers, diagnostics store | apply, show | events |
| Configuration | `config.rs` | parsed file | select, merge | registry |

What is hard here: every feature request is a task of its own (started in any
order, overtaken at every `.await`, aborted when the lifecycle changes); the
editor debounces text changes, so requests, text changes, replies and server
notifications cross; caches on both sides are indexed by numbers from earlier
replies; servers hang, crash and withdraw things on their own; and the daemon
itself is restarted under a running editor.  `PROJECT.json` lists these hazards
with the line where each bites and the property that would catch it.

## How the modules correspond to the code

**LspRequests** models one server connection: any number of calls to
`request_with_timeout_inner`, `notify` and `shutdown`, the dispatcher, the
server, and the abort of tasks at a lifecycle barrier of the daemon's loop.  A
call's `pc` names the `.await` at which it is suspended and each action is the
code up to the next one.  `pending`, `latest`, `latestLock`, `alive` and
`terminated` are the fields of `LspClient` and its transport; `chan` is the
state of a call's oneshot channel; `wire` is all that was written to the server.
`send_message` is shared by its callers and written once (`CheckAlive`, `Write`,
`WriteFails`, `AfterSend`), with `job` saying for which message.  Ids come from
one counter and are only compared, so a call names its id.  A frame is written
in one step and pipes are unbounded.

**CompletionCache** models completion of one document: editor requests, tasks
that take a generation when they start, superseding by the editor's request id,
the client's cache, the popup menu and the resolve of its items.

**CommandExecution** models code lenses and code actions from the key press to
the edit: the debounced change, the request, the daemon's loop and tasks, the
cache, the server with its refresh request, and the execution contexts the
editor keeps.  Every request to the server may fail, with an error answer or in
time: that fails the task with an error reply, except that an action whose
resolve fails is run as it was listed (`KeepsGoing`).  The two features are the same machine with a few differences, so
`feature` is a variable that never changes; a text is the changedtick it was
read at; one document, one server.

**Supervisor** models the daemon process as the editor sees it: `core.vim`
(ensure, stop, back-off, crash breaker, requests with a deadline) and the
plugin's Start, Stop, Restart and InstallServer.  Vim runs one thing at a time:
a command, a timer, a line of the daemon, an exit callback, each with
everything it calls, so each is one action, and the editor's state is the
record `vim` which functions (`Ensure`, `CoreStop`, `Exited`, `Start`, ...)
transform.  Asking for the status of an ended job runs its exit callback on the
spot (`Reap`), and lines written before the end may be read after it (`lines`
carry the generation that wrote them).  SimpleCC configures no handshake, so
that part of `core.vim` is left out.  `wanted` is a history variable: what the
user's last accepted command asked for.

**DocumentSync** models one server and several documents across server crashes:
the editor's versions, recorded changes, debounce timers and restart attempts
(`buffer`, `reopens`, `attempts`), the loop of the daemon, which runs document
notifications in order and everything else in tasks (`input`, `starting`,
`asking`), start on demand (`ReadOpen`, `Started`, `StartFails`), the forwarding
of texts by a client (`Applied`, `Forward`), and server processes that die and
are noticed late (`Dies`, `Noticed`, `SaysStopped`).  A text is the number of
edits that made it; a recorded change leads from one text to another and gives
`Wrong` on any other.  `copy` is the server's text, `checked` the last save or
completion it processed.

**DaemonLoop** models `serve` and `handle_request`: lines are read one at a
time (`Read*`), a lifecycle line aborts every feature task first, document and
registry requests run in place, and `loop` names what the loop waits for;
feature requests and installations are tasks (`task`), which differ in how
often they look up a client and ask the server, and in whether they may end in
silence (`AskLatest`, `AskPlain`, `AskDefinition`, `AskDiagnostics`) or without
asking (`RefuseRename`); a request whose item or parameters do not parse ends
like one that the server refuses.  `Locked` is the registry's write lock, kept by the
loop while a server starts.  Replies and events go through `Sent` and `GivesUp`,
the bounded path with its stall bit (`EventTx`); `Leaving` are the stages after
the end of input, which share one deadline (`late`).  Either pipe may fail
(`broken`): a read error ends the process at once and aborts every task
(`ReadFails`), a write error ends the writer and takes what was queued with it
(`OutputBreaks`), and the next send then trips the stall bit.  `NothingLost`
excuses what is lost that way.  `LoadSelected` is the
choice of a configuration file.  One server stands for all.

**Installer** models one managed server's directory shared by several daemons:
recovery of hidden siblings by pid, staging, download and the three unpackers,
children in process groups, the two renames of a promotion and what undoes
them, and daemons that are killed or shut down at any step.  **AtomicInstall**
is what that promises: the installation is replaced as a whole, by a newer one,
and is never lost.  `KeepsPromise` is the refinement: `installed` is the version
of what a recovery would find (`Kept`), the active tree or the newest backup, so
that the moment between the two renames is a stutter.  A promotion reads the
clock for the name of its backup (`TakeStamp`), looks for an active tree
(`Look`) and renames (`SetAside`, `Activate`) in steps of their own, because
another daemon's steps fall between them; stamps may be in any order.
`collided` is the one way out of the promise: a backup is put back or made under
an older stamp than another backup's.
**MCInstaller** gives archives at and beyond each limit.

**SemanticTokens** models the tokens of one document from the editor's timers
through the loop and the client to the server: what `OnReply` drops, the lock of
the document, the cached result and its id, deltas that do and do not apply
(`ApplyEdits`, against the reference `Edited`), lost results and the race of
didClose with requests in flight.  The daemon's order of sending is the
server's order of receiving, so the text of a request is the server's text when
it was sent.

**WatchedFiles** models how servers learn that files change: the watcher of a
local workspace and its batch (`Take`, `WindowEnds`, `MergePath`), the editor's
requests, handled in the loop (`TakeLine`), and in each client the registrations
(`Register`, `Unregister`, `Matches`) and the window of repetitions (`Claim`,
`Fade`), read under one lock and told after it.  `stale` are the files a server
does not know as they are; `unasked` and `doubled` record why it was not told.
Three timers (batch, repetitions, Julia's refresh) are events that may happen
when they are armed; the window of a batch ends only when no event waits.

A module `XProofs` holds the TLAPS proofs about `X`; those of CompletionCache and
SemanticTokens, the two caches that a client keeps of its replies, are together
in **ClientCacheProofs**.  **MCLspRequests** names the calls of the instances.  The other modules take numbers and small sets as constants and are
checked directly.

## Runs

| Run | Instance | What it shows |
|---|---|---|
| `lsp_requests_calls` | six calls: three completions of one document, a request, a notification, shutdown; one barrier | the stream and the registries stay consistent through superseding, cancelling, answers, timeouts, failed writes, a disconnect and aborts |
| `lsp_requests_live` | two completions, no barrier, fair tasks | a disconnect wakes every waiter without any timer; with timers every call returns |
| `completion_menu` | four editor requests | a resolved item belongs to the menu shown |
| `command_runs` | three requests, one edit, a refresh, two runs at once, fair tasks | an index is never looked up in another reply; lens commands fit the text; every execution slot is given back |
| `supervisor_life` | three commands, three crashes, a breaker of one restart | breaker, sessions, shutdown order, stops and recovery |
| `document_sync` | two documents, four user operations, two crashes, one restart | texts converge, saves and completions are served on their text, a crash is recovered from |
| `daemon_loop` | three lines of any kind, a queue of one event, a Vim that may stop reading, pipes that fail | nothing runs or replies across a lifecycle edge, accepted requests end, and so does the process |
| `installer_crash` | three installations in up to three daemons, one I/O error, crashes anywhere | a complete installation is kept and only a newer one replaces it, unless backups and stamps are in different orders; live daemons' trees are left alone; a tree that a child fills is removed only by a later recovery |
| `semantic_tokens` | two edits, two requests, every answer | cache and server agree by id; tokens are shown for the text they are of and settle |
| `watched_files` | two files, one Julia server, three changes, registrations or deaths, local and remote | once quiet, a server knows what it asked for but for dropped repetitions; every change is told |
| `document_full_sync` | one document, a full-sync server | finding: the second flush empties the server's document |
| `semantic_tokens_missed` | as `semantic_tokens` | finding: a change that completion sends asks for no tokens |

Every property of a passing run has a mutant in `PROJECT.json`: a plausible bug
in one definition that makes that run fail.

### Bounds

* `lsp_requests_calls`: the constraint `FewAtOnce` lets three calls (a barrier
  counts as one) take part in a behaviour, in every combination that shares
  state: three latest-wins calls, two around a barrier, or one next to a plain
  request or a notification.  Three are needed for a call that is outranked
  while the call it would displace is being cancelled; a fourth adds no new pair
  of critical sections, because each call touches the registries only through
  the two locks and at most one predecessor.
* `completion_menu`: a menu, a reply overtaking it, a resolve and a reply to
  that need three ids; four allow one more overtaking.
* `command_runs`: an item shown for one text and run on another needs one edit; a
  second request and a second run while one is resolving need three ids.
* `supervisor_life`: the breaker opens at the second crash; three crashes and
  three commands allow a restart after it and a crash during that.
* `document_sync`: version 3, the first incremental change, takes an opening and
  two edits; the fourth operation follows a restart.  Two crashes with one
  restart allowed reach the refusal to restart; `MaxInput` holds the editor back
  while two lines are unread, which leaves room for a flush and the request
  that follows it to be read at different times.

* `daemon_loop`: a feature, a lifecycle request and one more on either side of
  it need three lines, and a queue of one event is full at once, so that each
  reply may meet a full queue.
* `installer_crash`: one daemon sets the tree aside and dies, a second restores
  it, a third races with the second.  One I/O error reaches every error path
  except the loss of both renames, which leaves a backup for the next recovery.
* `semantic_tokens`: a delta needs two requests, and a reply older than the text
  one edit; the second edit is the reload of the document.  Texts have none, one
  or two tokens in common, and deltas have one or two edits.
* `watched_files`: creation, deletion and creation of one file is the shortest
  sequence that one window can get wrong, and two events that wait are two of
  them in one batch.  A run starts with a manifest on disk, another file that is
  not there, and one registration for everything, which may be withdrawn or
  replaced.

`CHECK_DEADLOCK FALSE` everywhere: a model in which all calls have returned and
the user does nothing has stopped, and so has the program.

### Fairness

* LspRequests: the tokio runtime polls every runnable task (WF on each call and
  on the dispatcher) and its mutex is fair, waiters get it in turn (SF on taking
  the `latest` lock).  The server owes nothing, except that a reaped process has
  no stdout.  That an armed timer fires is not part of `FairSpec`; it is the
  premise of `EveryCallEnds` alone, so that disconnects are seen to wake callers
  without it.
* CommandExecution: tasks, the loop, the dispatcher and the editor's handlers
  run; a request ends (`EveryCallEnds` of LspRequests), here in an answer, an
  error or a timeout.
* Supervisor: armed Vim timers fire, Vim reads its channel and runs exit
  callbacks when it idles, and SIGKILL ends a process.  SIGTERM need not.
* DocumentSync: timers fire, the daemon's loop runs, a start succeeds or fails
  (the handshake has a deadline of 120 s), a closed stdout is noticed and the
  process reaped.  Nothing is assumed of the user, and a server need not die.
* DaemonLoop: tokio runs the loop and each task (requests end, see
  `EveryCallEnds`, and every step of an installation has a deadline), and the
  deadline of the exit passes.  Vim owes nothing: it may never read again.
* SemanticTokens: timers fire, the loop and the tasks run, requests end
  (`EveryCallEnds`), Vim handles replies.
* WatchedFiles: the loop, the watcher task and each of their reports run, and a
  window ends when no event arrives.  That events stop arriving is the bound
  `MaxChanges`; see the observation on a workspace that is never quiet.

## What is proved

Each theorem in `PROJECT.json` is about every value of the constants: any number
of calls, lines, documents, files, servers, daemons, crashes.  Where a theorem
states a property that a run checks, the run shows it on an instance.  The
theorems are safety properties, action properties and one refinement; each rests
on an inductive invariant, because hardly any property is preserved by itself.
A module has one lemma per action, and a last one that puts them together.

| Module | Theorems (the property each states) |
|---|---|
| `LspRequestsProofs` | `TypeCorrect` (`TypeOK`), `NoWaiterStranded` (`NoStrandedWaiter`), `NeverCancelBeforeSend` (`CancelOrder`), `SilentOnlyWhenReplaced` (`SupersededByNewer`), `AnswersOfTheNewest` (`AnswersAreCurrent`), `NothingLeftBehind` (`NothingLeaks`) |
| `DaemonLoopProofs` | `TypeCorrect` (`TypeOK`), `LifecycleIsFinal` (`BarrierIsFinal`), `RequestsAreKept` (`NothingLost`) |
| `DocumentSyncProofs` | `TypeCorrect` (`TypeOK`), `NoEditIsLost` (`TextsAgree`), `ServedInOrder` (`ServedOnItsText`), and the invariant `TextsFollow` |
| `InstallerProofs` | `TypeCorrect` (`TypeOK`), `KeptStaysWhole` (`KeptIsWhole`), `LivesAreLeftAlone` (`LivesUntouched`), `CleansAfterTheChild` (`CleanedAfterChild`), `PromiseIsKept` (`KeepsPromise`), the invariant `NewestIsSpared`, and of the operators of the model `ArchivesAreComplete` |
| `SupervisorProofs` | `TypeCorrect` (`TypeOK`), `SessionOfTheRunningDaemon` (`SessionIsCurrent`), `ServersShutDownFirst` (`ShutdownFirst`), `StoppedStaysStopped` (`StopStays`) |
| `CommandExecutionProofs` | `TypeCorrect` (`TypeOK`), `CommandsFromShownReply` (`CommandFromShownReply`), `LensesOnTheirText` (`LensOnItsText`), `NothingAfterRefresh` (`NoCommandAfterRefresh`) |
| `ClientCacheProofs` | `TypeCorrect` (`TypeOK`), `ResolvesTheMenu` (`ResolvedFromMenu`), `TokenTypeCorrect` (`TokenTypeOK`), `CacheIsGiven` (`CacheAgrees`), `ShownIsCurrent` (`ShowsOnlyItsText`), and of the operators of the model `EditsTakePlace`, `MalformedIsRefused` |
| `WatchedFilesProofs` | `TypeCorrect` (`TypeOK`), `NothingIsLost` (`KnowsWhenQuiet`) |

The proofs assume the types of the constants, which each module names in its
`ASSUME` and TLC evaluates in every run of it.  Finiteness is assumed of `Docs`
and `Install`, because one is turned into a sequence and the other is counted.
Two theorems of DocumentSync and the one about edits have a hypothesis of their
own, named below.

**LspRequests.**

* `TypeOK` is not inductive: a message appended to `wire` must name a call.
  `CancelsNameCalls` says that a call carrying the cancellation of its
  predecessor has one, and that a call that has not taken its key carries only
  its request.
* `NoStrandedWaiter` becomes inductive with `ReadingWhileAlive`: the dispatcher
  stops reading only for a client already marked dead.  The steps that matter
  are those that set `alive` to FALSE, whose next step clears `pending`, and
  `CheckAlive`, which comes after a call has registered; the others leave that
  part of the state alone (`QuietStep`).
* `CancelOrder`: the invariant (`CancelInv`) follows an id through the three
  places from which a cancellation is taken: the call registered in `latest` has
  written its request or holds the lock (`RegisteredIsWritten`); a displaced
  predecessor in `prev` has written its (`DisplacedIsWritten`); so has a call
  that waits, or cancels itself after its timeout (`WaitingIsWritten`).  The
  property speaks of behaviours without an abort, see "A cancel before its
  request" below.
* The three others see a call as fresh, holding its key, sent or over.  `Phases`
  maps every step of the module to a move between these, to a barrier or to
  nothing, and the invariant `LatestInv` is proved of the moves: who holds a lock
  has its key registered, a sent call is registered or a newer call has displaced
  it, each request is written once, and the registered call is the last of its
  key on the wire.  It survives barriers, so `AnswersAreCurrent` does.
  `NothingLeaks` needs `PendingInFlight` and `HoldersInFlight` besides, which an
  aborted task breaks.

**DaemonLoop.**  The three theorems share one inductive invariant, `Inv`.
`InPlace` says that what the loop works on is the last line, which has no task
and no answer yet; without it `Answer` could answer twice.  `TasksOfLines` says
that an answered line has no running task, so that the answer of a task is its
only one and comes before any barrier that would have aborted it.  `OnTheWayOut`
says which tasks are gone at each stage of the exit, which is what makes the
exit in time complete.

**DocumentSync.**  `Inv` says of each loaded buffer that what is recorded leads
from the text last sent to its present text (`Recorded`), and of the daemon that
a running server has only documents open whose filetype it knows (`Loop`).  The
core is `Texted`.  Before each unread line there is a text that the server will
have by then: the one of the last line that speaks of the document, or the one
it has (`Latest`).  A recorded change starts from it, and a save or a completion
is on it (`LinkedAt`); after all lines it is the one last sent; and it never goes
back (`Good`).  A didOpen, a restart and a reopen of many buffers fit in because
they carry the whole text.  `GoodAppend`, `GoodOpens`, `GoodTail` and
`GoodLater` say once what writing, reopening, reading and anything else does.
`NoEditIsLost` and `ServedInOrder` have the hypothesis `kind = "incremental"`:
the run `document_full_sync` shows that `TextsAgree` is false without it.

**Installer.**  `Base` says who may work on what: a daemon is busy with one
installation, a child writes only for one that waits or has ended, no two stamps
are the same, a recovery lists only backups that were made by its own daemon or
by dead ones, and what was not activated is nowhere yet.  It
gives the two action properties.  `Spared` is what a recovery relies on: while no
tree is active nobody is deleting the newest backup.  It holds until daemons
collide: nothing is assumed of the order in which stamps are read, so it is
`SetAside` that keeps it, by leaving the others' stamps behind or setting
`collided`.  The refinement follows,
with nothing known of archives.  That what is kept is *whole* also needs that an
archive which is accepted was unpacked to its end.  `ArchivesAreComplete` shows it
of a tar or a zip with any number of entries of any size, by induction along the
fold over its entries (see below): an archive that is still accepted after k
entries has counted k of them (`Counted`).  `TypeCorrect` and `KeptStaysWhole`
follow with `Complete` and `Sound`, what is promoted and what is kept.

**Supervisor.**  `Sound` relates the flags of the editor's state between any two
events: a running daemon is the newest generation, so an older back-off timer is
stale; the kill timer and the fence belong to a daemon that was stopped; a
plugin that is stopping waits for its shutdown request or for an exit.  `Down`
says that nothing armed brings a stopped daemon back, and `Serving` that a
session, an acknowledged shutdown or a signal belongs to a daemon that did serve
the initialize or release its servers.  One
lemma for each of `Reap`, `Ensure`, `CoreStop`, `Exited`, `Start`, `Stop` says
what it does to these, since the commands and callbacks are composed of them.

**CommandExecution.**  `Ordered` (requests reach the daemon in the order of
their ids), `Lists` (an item carries the number of its list, the cache holds items of
its own generation only, and a list that was given away is not begun again), `Refreshes` and `Fresh` (the stream of the server
is in the order of its epochs, and what a generation check lets through is not
older than the last refresh read), and for lenses `Quiet` (no change of the
editor is behind the lenses it awaits or shows) and `OfTheText`.  The last two do
not hold of code actions, which is the observation on `EditFitsBuffer` below.

**CompletionCache.**  A generation is handed out to one request, wherever it is
named: in a task, a reply, the cache or the menu (`GenerationsAgree`); and what is
awaited was asked of the menu that is shown (`Awaiting`).  The second is why a
resolve of an earlier menu that is still under way cannot fill in the next one,
which is the conjunct of `TypeOK` that matters.

**SemanticTokens.**  `TokenInv` relates the cache, what the server has given out
and the stream between editor and server.  The cache holds the tokens given out
under its id (`CacheGiven`), and so does the result that a request for a delta
names (`DeltasGiven`): it was read from the cache before the request was sent, and
the cache may be emptied or replaced until the answer comes.  `LocksExclude` is
the conjunct of `TokenTypeOK` that matters: of the requests under one lock only
one is with the server.  Each request of the editor is on its way, with a task, or
over (`AsksOnTheWay`).  `ShownIsCurrent` needs `TextsFollow` besides, an argument
like that of DocumentSync: there is a text h[k] that the server will have after the
first k messages on their way; after all of them it is the editor's, unless a
change still waits; and from the request whose reply counts onwards it is the
editor's throughout.  The theorems are about `TokenSpec`, which `FairSpec`, the
specification of the run, implies.

That the cache stays right when an answer is a delta rests on `ApplyEdits`.
`EditsTakePlace` says that for any tokens and any number of edits, sent in any
order, the code's splices from the last edit backwards make the text that has
every edit in its place (`Edited`, the reference), provided that each edit covers
whole tokens which are there (`InPlace`) and that no two overlap or begin at one
place (`Apart`); without the last condition it is false, which is the observation
about equal `start` below.  `MalformedIsRefused` says that a list is refused as a
whole if an edit is out of place or two of them overlap.

*Induction over data.*  The library's induction theorems cannot be used, since
they take an operator.  The two that are needed speak of sets instead: among any
numbers there is a least one (`LeastNumber`, from the theorem that finite sets
are well-founded under inclusion), so a set that contains 0 and with each number
the next is all of Nat (`SetOfAllNumbers`).  A fold of the community modules is a
function on sets of positions; that such a function exists is proved by that
induction, and then the fold satisfies its equations (`FoldOfSplices`,
`FlatteningByParts`, `ReadingExists`).

**WatchedFiles.**  What a server does not know is on its way to it (`Known`): in
an event, a request, the batch, or with a reporter that has not told this server
yet.  That needs `Recreated`: merging events of one file may forget a creation
only when another one follows, so the last word on a file is right.  `Refreshed`
says the same of Julia's index, and `Channels` says where an event can be.

Every safety property and every action property that a passing run checks is
thus a theorem.  Only model-checked is liveness (`EveryCallEnds`,
`EveryRequestEnds`, `DaemonEnds`, `EveryRunSettles`, `TokensSettle`,
`CrashRecovers`, `ServerComesBack`, `ChangesAreTold`): the prover has no rule for
ENABLED, and so none for fairness.

## What the runs found

Two runs end in a violation of what the source says:

* **A full-sync server is sent an empty document** (`document_full_sync`).
  `SendDidChange` sends recorded ranges from version 3 on whatever the server
  negotiated; `did_change` has no text to send in their place and sends `""`.
* **A change that completion sends asks for no tokens**
  (`semantic_tokens_missed`).  `SyncDocumentForCompletion` cancels the timer
  whose callback schedules the next token request, while the handler that drops
  a stale reply relies on that request.

Others were met while modelling.  Each is a property that no configuration
lists; adding it to the one named reproduces the behaviour.

* **A code action is asked for on an old text**: `EditFitsBuffer`, with
  `CommandExecution_runs.cfg` and `MaxTick = 2` (a typed change and the applied
  one).  `CodeAction()` does not flush the pending
  `didChange` as `CodeLens()` does.
* **A cancel before its request**: `CancelAfterRequest`, with
  `LspRequests_calls.cfg`.  An `initialize` whose configuration does not load
  aborts the tasks but keeps the client, whose registry of latest requests still
  names one that was never sent.
* **A stop that does not cancel a queued start**: `StopIsFinal`, with
  `Supervisor_life.cfg`; and **a late `initialized` that makes Start refuse**:
  `CanStart`, with the same.
* **didClose waits in the loop for a feature task**: `LoopNeverWaits`, with
  `SemanticTokens_settle.cfg`.  The token request it waits for has the lock of
  the document; if the server waits for the editor meanwhile (an answer to
  `workspace/applyEdit`), the answer is behind didClose until the token request
  times out.
* **A repetition that is none**: `LearnsWhatChanged`, with
  `WatchedFiles_all.cfg`.  A file that is created, deleted and created again, or
  saved and then written by a tool, within 250 ms is told once; the server
  keeps what it read first.  `KnowsWhenQuiet` excuses these (`doubled`).
* **Two installations at once can lose the server to a half-deleted backup**:
  `NeverCorrupted`, with `Installer_crash.cfg`.  One promotion makes the name of
  its backup (`installer.rs:1209`); another one makes its own, sets the tree
  aside, activates its tree and begins to delete the backup; then the first
  renames (1212), and both daemons die.  A recovery goes by the stamps in the
  names (1158), restores what is left of the older tree and deletes the newer
  one.  A recovery that lists the siblings while another daemon is between its
  two renames may go back to an older tree as well.
* **A recovery removes a directory in which a child still writes**:
  `CleanedOnlyAfterChild`, with the same.  What `StagingGuard` leaves alone
  because the child could not be reaped, the next installation removes: its own
  pid is always stale (`installer.rs:1110`).

Observations without a definition of their own:

* Completion generations follow the order in which tasks start, not the order of
  the editor's requests, so the cache may end with the reply to an older request
  (the menu is unharmed, its items fail to resolve).
* `stopped` may be reported after the replacement's `running`, whereupon the
  editor forgets the capabilities of a live server and opens its documents
  twice.
* A workspace in which something happens at least every 120 ms, be it only that
  files are read, keeps one batch open for as long as that lasts: the window is
  restarted by every event (`workspace_watcher.rs:57`).  `ChangesAreTold` holds
  because the model's changes are bounded.
* A registration for CHANGED alone never hears of a file that was deleted and
  created within one batch: the batch says CREATED.
* A manifest that changes again within two seconds of a refresh of Julia's index
  is not refreshed for later (`index = "left old"`).
* Semantic-token edits with equal `start` are refused or reordered depending on
  their order; the protocol does not forbid an insertion where another edit
  begins.

## Plan

Done, with their proofs: LspRequests, DaemonLoop, CompletionCache, SemanticTokens,
CommandExecution, Supervisor, DocumentSync, Installer over AtomicInstall and
WatchedFiles.  Next, in this order:

1. ServerRequests: `workspace/configuration`, `applyEdit` and the other requests
   a server makes of the client, the event channel that nobody drains until
   `initialize` has returned, and back-pressure of the pipes; composes with
   LspRequests.
2. SavePipeline and FileRename: one save or rename at a time, deadlines,
   deferral to InsertLeave, roll-back.
3. Edits: application of workspace edits, the line arithmetic of
   `OnBufferChange` and the UTF-16 conversions as operators against reference
   definitions.
4. LatestWins: per key at most one outstanding question and only the newest one
   answered, to be implemented by LspRequests under a refinement mapping.

Theorem to come: that LspRequests implements LatestWins.

## What is not modelled

JSON and the wording of messages; Content-Length framing and back-pressure of
pipes (a known hazard, see `PROJECT.json`); the path rewriting and remote
commands of remote workspaces; root discovery and the merging of settings
(data); rendering of popups, signs, hints and lenses; ranking and insertion of
completion items; buffer words; lookup of the daemon's executable and its
command line; the contents of downloads and checksums; `types.rs`, which
declares the protocol's data.  The arms of `handle_request` that only convert
parameters and replies are modelled by the kind of request they are, not one by
one.  The save pipeline, file renames and the diagnostics store of the editor
are still to come; `PROJECT.json` says for each component what its present
models leave out.
