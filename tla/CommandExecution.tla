--------------------------- MODULE CommandExecution ---------------------------
(***************************************************************************)
(* Running a code lens or a code action of one document, end to end: the   *)
(* editor (src/autoload/simplecc.vim) asks for a list, shows it, and later *)
(* asks the daemon to run one of its items by index; the daemon keeps the  *)
(* items of the newest list in a cache (CodeLensCache and CodeActionCache  *)
(* of src/src/simplecc/lsp/client.rs, the same machine twice) and sends    *)
(* the item's command to the language server.                              *)
(*                                                                         *)
(* A command names positions in a text.  Text changes travel editor ->     *)
(* daemon -> server while a request, a resolve or a command is under way,  *)
(* and the server may withdraw its lenses (workspace/codeLens/refresh).    *)
(* Document texts are represented by the changedtick they were read at.    *)
(* The life of one request on the connection is LspRequests' subject; here *)
(* it is written in one step and answered later.                           *)
(***************************************************************************)
EXTENDS Integers, Sequences, FiniteSets

CONSTANTS
    Features,     \* the features modelled: "lens" or "action" or both, one at a time
    MaxId,        \* bound on editor request ids
    MaxTick,      \* bound on edits of the buffer
    MaxRefresh,   \* bound on the server's refresh requests
    MaxRunning    \* MAX_CODE_LENS_EXECUTIONS

ASSUME CommandAssumption ==
    /\ Features \subseteq {"lens", "action"}
    /\ {MaxId, MaxTick, MaxRefresh} \subseteq Nat
    /\ MaxRunning \in Nat \ {0}

VARIABLES
    feature,      \* the feature of this behaviour
    (* the editor *)
    tick,         \* b:changedtick
    textChanged,  \* a TextChanged event is due
    timer,        \* a didChange debounce timer is armed
    sent,         \* s_doc_changedticks: the tick last sent to the daemon
    lastId,       \* NextId()
    asked,        \* s_codelens_requests / s_action_requests: the newest only
    shown,        \* s_code_lens_cache / the open menu and its context
    running,      \* s_codelens_executions / s_action_executions
    applied,      \* the last edit applied: the text it was computed on, the buffer's
    (* the daemon *)
    input,        \* request lines not yet read by the daemon's loop
    loop,         \* the tick of the didChange the loop is forwarding, or Idle
    tasks,        \* spawned feature tasks, by request id
    cache,        \* CodeLensCache / CodeActionCache of the client
    refreshes,    \* refresh events on their way to the editor
    output,       \* replies to the editor
    (* the language server *)
    doc,          \* the text it has, by the didOpen/didChange written to it
    epoch,        \* how often it has asked for a refresh
    stream,       \* its stdout, not yet read by the dispatcher
    retired,      \* refreshes the dispatcher has read
    command       \* the last command written to it

editorVars == <<tick, textChanged, timer, sent, lastId, asked, shown, running, applied>>
daemonVars == <<input, loop, tasks, cache, refreshes, output>>
serverVars == <<doc, epoch, stream, retired, command>>
vars == <<feature, editorVars, daemonVars, serverVars>>

None == [none |-> TRUE]
Idle == 0 - 1
Ids  == 1..MaxId

NoItem == [list |-> 0, snap |-> 0, epoch |-> 0]
NoTask == [pc |-> "none", gen |-> 0, item |-> NoItem]

-----------------------------------------------------------------------------
(* The document is open on both sides with its first text. *)
Init ==
    /\ feature \in Features
    /\ tick = 0 /\ textChanged = FALSE /\ timer = FALSE /\ sent = 0
    /\ lastId = 0 /\ asked = None /\ shown = None /\ running = {} /\ applied = None
    /\ input = <<>> /\ loop = Idle
    /\ tasks = [i \in Ids |-> NoTask]
    /\ cache = [gen |-> 0, live |-> FALSE, items |-> None]
    /\ refreshes = 0 /\ output = <<>>
    /\ doc = 0 /\ epoch = 0 /\ stream = <<>> /\ retired = 0 /\ command = None

-----------------------------------------------------------------------------
(* The editor. *)

Change(t) == [type |-> "change", id |-> 0, gen |-> 0, tick |-> t]

(* Text is typed; Vim raises TextChanged when it gets round to it. *)
Edit ==
    /\ tick < MaxTick
    /\ tick' = tick + 1 /\ textChanged' = TRUE
    /\ UNCHANGED <<timer, sent, lastId, asked, shown, running, applied,
                   daemonVars, serverVars>>

(* OnTextChanged: everything about lenses of the old text is dropped, and a
   pending lens execution makes the flush immediate. *)
FlushesOnEdit == feature = "lens" /\ running # {}
OnTextChanged ==
    /\ textChanged /\ textChanged' = FALSE
    /\ IF feature = "lens" THEN asked' = None /\ shown' = None /\ running' = {}
                           ELSE UNCHANGED <<asked, shown, running>>
    /\ timer' = ~FlushesOnEdit
    /\ IF FlushesOnEdit THEN input' = Append(input, Change(tick)) /\ sent' = tick
                        ELSE UNCHANGED <<input, sent>>
    /\ UNCHANGED <<tick, lastId, applied, loop, tasks, cache, refreshes, output, serverVars>>

TimerFires ==
    /\ timer /\ timer' = FALSE
    /\ input' = Append(input, Change(tick)) /\ sent' = tick
    /\ UNCHANGED <<tick, textChanged, lastId, asked, shown, running, applied,
                   loop, tasks, cache, refreshes, output, serverVars>>

(* SyncDecorationDocument: CodeLens() brings the daemon to the captured tick
   before it asks; CodeAction() does not. *)
SyncFirst == feature = "lens" /\ (timer \/ sent # tick)

AskForList ==
    /\ lastId < MaxId
    /\ lastId' = lastId + 1
    /\ asked' = [id |-> lastId', tick |-> tick]
    /\ shown' = None
    /\ running' = IF feature = "lens" THEN {} ELSE running
    /\ LET list == [type |-> "list", id |-> lastId', gen |-> lastId', tick |-> tick]
       IN  input' = IF SyncFirst THEN input \o <<Change(tick), list>>
                                 ELSE Append(input, list)
    /\ sent'  = IF SyncFirst THEN tick ELSE sent
    /\ timer' = IF SyncFirst THEN FALSE ELSE timer
    /\ UNCHANGED <<tick, textChanged, applied, loop, tasks, cache, refreshes, output,
                   serverVars>>

(* LiveDecorationContext / ActionContextCurrent, for one buffer and daemon. *)
Live(context) == context.tick = tick

(* DoCodeLensExecute / OnActionSelected. *)
RunItem ==
    /\ lastId < MaxId /\ shown # None /\ Live(shown)
    /\ feature = "lens" => Cardinality(running) < MaxRunning
    /\ lastId' = lastId + 1
    /\ LET run == [id |-> lastId', gen |-> shown.gen, tick |-> shown.tick]
       IN  /\ running' = IF feature = "lens" THEN running \union {run} ELSE {run}
           /\ input' = Append(input, [type |-> "run", id |-> lastId', gen |-> shown.gen,
                                      tick |-> tick])
    /\ shown' = IF feature = "lens" THEN shown ELSE None
    /\ UNCHANGED <<tick, textChanged, timer, sent, asked, applied,
                   loop, tasks, cache, refreshes, output, serverVars>>

(* OnCodeLens / OnCodeAction. *)
OnList ==
    /\ output # <<>> /\ Head(output).type = "list"
    /\ output' = Tail(output)
    /\ IF asked # None /\ asked.id = Head(output).id
         THEN /\ asked' = None
              /\ shown' = IF Live(asked) THEN [gen |-> asked.id, tick |-> asked.tick]
                                         ELSE shown
         ELSE UNCHANGED <<asked, shown>>
    /\ UNCHANGED <<tick, textChanged, timer, sent, lastId, running, applied,
                   input, loop, tasks, cache, refreshes, serverVars>>

(* OnCodeLensExecute / OnExecuteAction: the context is taken once, and the edit
   that the command returned is applied if the context is still current. *)
OnRunReply ==
    /\ output # <<>> /\ Head(output).type = "run"
    /\ output' = Tail(output)
    /\ \E mine \in {{r \in running : r.id = Head(output).id}}, hasEdit \in BOOLEAN :
           /\ running' = running \ mine
           /\ IF hasEdit /\ mine # {} /\ (\A r \in mine : Live(r)) /\ tick < MaxTick
                THEN /\ applied' = [on |-> Head(output).on, tick |-> tick]
                     /\ tick' = tick + 1 /\ textChanged' = TRUE
                ELSE UNCHANGED <<applied, tick, textChanged>>
    /\ UNCHANGED <<timer, sent, lastId, asked, shown,
                   input, loop, tasks, cache, refreshes, serverVars>>

(* The 'error' branch of OnBackendEvent gives the slot of a failed run back. *)
OnErrorIgnored ==                                             \* mutant
    /\ output # <<>> /\ Head(output).type = "error"
    /\ output' = Tail(output)
    /\ UNCHANGED <<editorVars, input, loop, tasks, cache, refreshes, serverVars>>
OnError ==
    /\ output # <<>> /\ Head(output).type = "error"
    /\ output' = Tail(output)
    /\ running' = {r \in running : r.id # Head(output).id}
    /\ asked' = IF feature = "lens" /\ asked # None /\ asked.id = Head(output).id
                  THEN None ELSE asked
    /\ UNCHANGED <<tick, textChanged, timer, sent, lastId, shown, applied,
                   input, loop, tasks, cache, refreshes, serverVars>>

OnRefresh ==
    /\ refreshes > 0 /\ refreshes' = refreshes - 1
    /\ asked' = None /\ shown' = None /\ running' = {}
    /\ UNCHANGED <<tick, textChanged, timer, sent, lastId, applied,
                   input, loop, tasks, cache, output, serverVars>>

-----------------------------------------------------------------------------
(* The daemon's cache. *)

MayBegin(gen) == gen > cache.gen

AnyLive(gen) == cache.live                                    \* mutant
Matches(gen) == cache.gen = gen /\ cache.live

Kept == cache                                                 \* mutant
Invalidated == [cache EXCEPT !.live = FALSE, !.items = None]

(* The loop handles a text change itself, in two steps, and spawns a task for
   anything else.  Tasks run concurrently with it. *)
ReadChange ==
    /\ loop = Idle /\ input # <<>> /\ Head(input).type = "change"
    /\ cache' = Invalidated
    /\ loop' = Head(input).tick
    /\ input' = Tail(input)
    /\ UNCHANGED <<editorVars, tasks, refreshes, output, serverVars>>

ForwardChange ==
    /\ loop # Idle
    /\ doc' = loop
    /\ loop' = Idle
    /\ UNCHANGED <<editorVars, input, tasks, cache, refreshes, output,
                   epoch, stream, retired, command>>

SpawnTask ==
    /\ loop = Idle /\ input # <<>> /\ Head(input).type # "change"
    /\ tasks' = [tasks EXCEPT ![Head(input).id] =
                    [pc |-> IF Head(input).type = "list" THEN "begin" ELSE "pick",
                     gen |-> Head(input).gen, item |-> NoItem]]
    /\ input' = Tail(input)
    /\ UNCHANGED <<editorVars, loop, cache, refreshes, output, serverVars>>

Moved(i, pc) == [tasks EXCEPT ![i].pc = pc]
Reply(type, i, on) == Append(output, [type |-> type, id |-> i, on |-> on])

(* A list request that came too late is silent for lenses, an error for actions. *)
Refuse(i) ==
    /\ tasks' = Moved(i, "done")
    /\ output' = IF feature = "lens" /\ tasks[i].pc \in {"begin", "listed"}
                   THEN output ELSE Reply("error", i, 0)

BeginListKeeping(i) ==                                        \* mutant
    /\ tasks[i].pc = "begin"
    /\ IF MayBegin(tasks[i].gen)
         THEN /\ cache' = [cache EXCEPT !.gen = tasks[i].gen, !.live = TRUE]
              /\ tasks' = Moved(i, "ask") /\ UNCHANGED output
         ELSE Refuse(i) /\ UNCHANGED cache
    /\ UNCHANGED <<editorVars, input, loop, refreshes, serverVars>>
BeginList(i) ==
    /\ tasks[i].pc = "begin"
    /\ IF MayBegin(tasks[i].gen)
         THEN /\ cache' = [gen |-> tasks[i].gen, live |-> TRUE, items |-> None]
              /\ tasks' = Moved(i, "ask") /\ UNCHANGED output
         ELSE Refuse(i) /\ UNCHANGED cache
    /\ UNCHANGED <<editorVars, input, loop, refreshes, serverVars>>

(* The request reaches the server between two text changes. *)
AskServer(i) ==
    /\ tasks[i].pc = "ask"
    /\ tasks' = [tasks EXCEPT ![i].pc = "asked",
                              ![i].item = [list |-> i, snap |-> doc, epoch |-> 0]]
    /\ UNCHANGED <<editorVars, input, loop, cache, refreshes, output, serverVars>>

StoreList(i) ==
    /\ tasks[i].pc = "listed"
    /\ IF Matches(tasks[i].gen)
         THEN /\ cache' = [cache EXCEPT !.items = tasks[i].item]
              /\ tasks' = Moved(i, "done")
              /\ output' = Reply("list", i, 0)
         ELSE Refuse(i) /\ UNCHANGED cache
    /\ UNCHANGED <<editorVars, input, loop, refreshes, serverVars>>

(* execute_code_lens / execute_code_action: the item is cloned, perhaps
   resolved by the server, and looked up again before and while it is sent. *)
PickItem(i) ==
    /\ tasks[i].pc = "pick"
    /\ IF Matches(tasks[i].gen) /\ cache.items # None
         THEN /\ \E next \in {"resolve", "check"} :
                    tasks' = [tasks EXCEPT ![i].pc = next, ![i].item = cache.items]
              /\ UNCHANGED output
         ELSE Refuse(i)
    /\ UNCHANGED <<editorVars, input, loop, cache, refreshes, serverVars>>

AskResolve(i) ==
    /\ tasks[i].pc = "resolve"
    /\ tasks' = Moved(i, "resolving")
    /\ UNCHANGED <<editorVars, input, loop, cache, refreshes, output, serverVars>>

(* After the resolve: the item may have a command, only an edit (actions), or
   neither. *)
Recheck(i) ==
    /\ tasks[i].pc = "check"
    /\ IF Matches(tasks[i].gen)
         THEN \/ tasks' = Moved(i, "send") /\ UNCHANGED output
              \/ /\ feature = "action"
                 /\ tasks' = Moved(i, "done")
                 /\ output' = Reply("run", i, tasks[i].item.snap)
         ELSE Refuse(i)
    /\ UNCHANGED <<editorVars, input, loop, cache, refreshes, serverVars>>

(* send_execution_message: the check and the write under the transport lock. *)
SendUnchecked(i) ==                                           \* mutant
    /\ tasks[i].pc = "send"
    /\ tasks' = [tasks EXCEPT ![i].pc = "sent", ![i].item.snap = doc]
    /\ command' = [item |-> tasks[i].item, gen |-> tasks[i].gen, doc |-> doc,
                   retired |-> retired]
    /\ UNCHANGED <<editorVars, input, loop, cache, refreshes, output,
                   doc, epoch, stream, retired>>
SendCommand(i) ==
    /\ tasks[i].pc = "send"
    /\ IF Matches(tasks[i].gen)
         THEN /\ tasks' = [tasks EXCEPT ![i].pc = "sent", ![i].item.snap = doc]
              /\ command' = [item |-> tasks[i].item, gen |-> tasks[i].gen, doc |-> doc,
                             retired |-> retired]
              /\ UNCHANGED output
         ELSE Refuse(i) /\ UNCHANGED command
    /\ UNCHANGED <<editorVars, input, loop, cache, refreshes, doc, epoch, stream, retired>>

(* Only actions are looked up once more after the command has run. *)
FinishRun(i) ==
    /\ tasks[i].pc = "ran"
    /\ IF feature = "action" /\ ~Matches(tasks[i].gen)
         THEN Refuse(i)
         ELSE /\ tasks' = Moved(i, "done")
              /\ output' = Reply("run", i, tasks[i].item.snap)
    /\ UNCHANGED <<editorVars, input, loop, cache, refreshes, serverVars>>

-----------------------------------------------------------------------------
(* The language server and the dispatcher task that reads it. *)

Answered(i) == \E n \in 1..Len(stream) : stream[n].id = i

(* A request is answered from the text that was current when it was written, with
   a result or with an error (DispatchAnswer tells them apart). *)
ServerAnswers(i) ==
    /\ tasks[i].pc \in {"asked", "resolving", "sent"}
    /\ ~Answered(i)
    /\ stream' = Append(stream, [type |-> "answer", id |-> i, epoch |-> epoch])
    /\ UNCHANGED <<editorVars, daemonVars, doc, epoch, retired, command>>

ServerRefreshes ==
    /\ feature = "lens" /\ epoch < MaxRefresh
    /\ epoch' = epoch + 1
    /\ stream' = Append(stream, [type |-> "refresh", id |-> 0, epoch |-> epoch'])
    /\ UNCHANGED <<editorVars, daemonVars, doc, retired, command>>

AfterAnswer(i) ==
    CASE tasks[i].pc = "asked"     -> "listed"
      [] tasks[i].pc = "resolving" -> "check"
      [] OTHER                     -> "ran"

(* The resolve of an action is not needed: when it fails, that is logged and the
   action is run as it was listed.  Any other failed request fails the task. *)
KeepsGoing(i) == feature = "action" /\ tasks[i].pc = "resolving"

DispatchAnswer ==
    /\ stream # <<>> /\ Head(stream).type = "answer"
    /\ stream' = Tail(stream)
    /\ LET i == Head(stream).id
       IN  \/ /\ tasks' = [tasks EXCEPT ![i].pc = AfterAnswer(i),
                                        ![i].item.epoch = IF tasks[i].pc = "asked"
                                                            THEN Head(stream).epoch ELSE @]
              /\ UNCHANGED output
           \/ ~KeepsGoing(i) /\ Refuse(i)
    /\ UNCHANGED <<editorVars, input, loop, cache, refreshes, doc, epoch, retired, command>>

(* No answer came in time; one that comes later finds no waiter and is dropped. *)
TimesOut(i) ==
    /\ tasks[i].pc \in {"asked", "resolving", "sent"}
    /\ ~Answered(i)
    /\ IF KeepsGoing(i) THEN tasks' = Moved(i, "check") /\ UNCHANGED output
                        ELSE Refuse(i)
    /\ UNCHANGED <<editorVars, input, loop, cache, refreshes, serverVars>>

(* The lenses are retired before the refresh is forwarded to the editor. *)
DispatchRefresh ==
    /\ stream # <<>> /\ Head(stream).type = "refresh"
    /\ stream' = Tail(stream)
    /\ retired' = Head(stream).epoch
    /\ cache' = Invalidated
    /\ refreshes' = refreshes + 1
    /\ UNCHANGED <<editorVars, input, loop, tasks, output, doc, epoch, command>>

-----------------------------------------------------------------------------
Editor ==
    \/ Edit \/ OnTextChanged \/ TimerFires \/ AskForList \/ RunItem
    \/ OnList \/ OnRunReply \/ OnError \/ OnRefresh

Task(i) ==
    \/ BeginList(i) \/ AskServer(i) \/ StoreList(i) \/ PickItem(i) \/ AskResolve(i)
    \/ Recheck(i) \/ SendCommand(i) \/ FinishRun(i) \/ ServerAnswers(i) \/ TimesOut(i)

Step ==
    \/ Edit \/ OnTextChanged \/ TimerFires \/ AskForList \/ RunItem
    \/ OnList \/ OnRunReply \/ OnError \/ OnRefresh
    \/ ReadChange \/ ForwardChange \/ SpawnTask
    \/ \E i \in Ids :
          \/ BeginList(i) \/ AskServer(i) \/ StoreList(i) \/ PickItem(i) \/ AskResolve(i)
          \/ Recheck(i) \/ SendCommand(i) \/ FinishRun(i) \/ ServerAnswers(i) \/ TimesOut(i)
    \/ ServerRefreshes \/ DispatchAnswer \/ DispatchRefresh

Next == Step /\ UNCHANGED feature

Spec == Init /\ [][Next]_vars

(* Spawned tasks, the loop, the dispatcher and the editor's event handlers all
   run; requests end (LspRequests!EveryCallEnds), here in an answer or a timeout. *)
FairSpec ==
    /\ Spec
    /\ \A i \in Ids : WF_vars(Task(i) /\ UNCHANGED feature)
    /\ WF_vars((ReadChange \/ ForwardChange \/ SpawnTask) /\ UNCHANGED feature)
    /\ WF_vars((DispatchAnswer \/ DispatchRefresh) /\ UNCHANGED feature)
    /\ WF_vars((OnList \/ OnRunReply \/ OnError) /\ UNCHANGED feature)

-----------------------------------------------------------------------------
Items == [list : 0..MaxId, snap : 0..MaxTick, epoch : 0..MaxRefresh]

Shapes ==
    /\ feature \in Features
    /\ tick \in 0..MaxTick /\ sent \in 0..MaxTick /\ lastId \in 0..MaxId
    /\ textChanged \in BOOLEAN /\ timer \in BOOLEAN
    /\ asked \in {None} \union [id : Ids, tick : 0..MaxTick]
    /\ shown \in {None} \union [gen : Ids, tick : 0..MaxTick]
    /\ running \subseteq [id : Ids, gen : Ids, tick : 0..MaxTick]
    /\ applied \in {None} \union [on : 0..MaxTick, tick : 0..MaxTick]
    /\ input \in Seq([type : {"change", "list", "run"}, id : 0..MaxId,
                      gen : 0..MaxId, tick : 0..MaxTick])
    /\ loop \in {Idle} \union 0..MaxTick
    /\ tasks \in [Ids -> [pc : {"none", "begin", "ask", "asked", "listed", "pick",
                                "resolve", "resolving", "check", "send", "sent", "ran",
                                "done"},
                          gen : 0..MaxId, item : Items]]
    /\ cache \in [gen : 0..MaxId, live : BOOLEAN, items : {None} \union Items]
    /\ refreshes \in 0..MaxRefresh /\ epoch \in 0..MaxRefresh /\ retired \in 0..MaxRefresh
    /\ output \in Seq([type : {"list", "run", "error"}, id : Ids, on : 0..MaxTick])
    /\ doc \in 0..MaxTick
    /\ stream \in Seq([type : {"answer", "refresh"}, id : 0..MaxId, epoch : 0..MaxRefresh])
    /\ command \in {None} \union [item : Items, gen : Ids, doc : 0..MaxTick,
                                  retired : 0..MaxRefresh]

(* Every variable has its shape, and the items that an index is looked up in are
   those of the generation that the cache is at, and of no earlier one:
   CodeLensCache::begin and CodeActionCache::begin empty them, invalidate too. *)
TypeOK == Shapes /\ (cache.items # None => cache.live /\ cache.items.list = cache.gen)

(* The command of a lens reaches the server only while the server's text is the
   one the lens was computed from (the generation checks of execute_code_lens). *)
LensOnItsText ==
    feature = "lens" /\ command # None => command.item.snap = command.doc

(* The item that runs belongs to the very reply the user was shown: indices
   mean nothing in another reply (client.rs: "a lens index is meaningful only
   inside the exact document reply that supplied it"). *)
CommandFromShownReply == command # None => command.item.list = command.gen

(* Once the dispatcher has read a refresh, no lens computed before it runs. *)
NoCommandAfterRefresh == command # None => command.item.epoch >= command.retired

(* An edit that the editor applies was computed by the server on the text the
   buffer has at that moment. *)
EditFitsBuffer == applied # None => applied.on = applied.tick

(* The slot of a run (there are MAX_CODE_LENS_EXECUTIONS of them) is given back. *)
EveryRunSettles ==
    \A i \in Ids : (\E r \in running : r.id = i) ~> ~\E r \in running : r.id = i
=============================================================================
