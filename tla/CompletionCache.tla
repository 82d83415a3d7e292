---------------------------- MODULE CompletionCache ----------------------------
(***************************************************************************)
(* Completion of one document: LspClient::completion and                   *)
(* completion_resolve (src/src/simplecc/lsp/client.rs) with the editor's   *)
(* completion menu (src/autoload/simplecc.vim).  The daemon reads requests *)
(* in the editor's order but runs each in a task of its own; a task takes  *)
(* a generation number when it starts, registers as the newest request of  *)
(* the document in the editor's order, and on success replaces the cache   *)
(* that later resolves index into.  A reply is named by the editor request *)
(* it answers.  (The registration is one step here; LspRequests has it in  *)
(* full.)                                                                  *)
(***************************************************************************)
EXTENDS Integers, Sequences

CONSTANT MaxId       \* bound on the editor's request ids

ASSUME MaxIdAssumption == MaxId \in Nat

VARIABLES
    lastId,       \* NextId()
    compId,       \* s_comp_id while s_comp_requesting, else 0
    menu,         \* the reply whose items the menu shows: its id and generation
    resolveId,    \* s_comp_resolve_id
    resolved,     \* s_comp_resolved_items for the item of the menu
    tasks,        \* the daemon's tasks, by request id
    counter,      \* completion_generation
    registered,   \* latest_requests["completion:<uri>"], 0 if unset
    cache,        \* cached_completions
    output        \* replies to the editor

editorVars == <<lastId, compId, menu, resolveId, resolved>>
vars == <<editorVars, tasks, counter, registered, cache, output>>

Ids == 1..MaxId
NoTask == [pc |-> "none", gen |-> 0, from |-> 0]
NoMenu == [from |-> 0, gen |-> 0]

Init ==
    /\ lastId = 0 /\ compId = 0 /\ menu = NoMenu /\ resolveId = 0 /\ resolved = 0
    /\ tasks = [i \in Ids |-> NoTask]
    /\ counter = 0 /\ registered = 0 /\ cache = [gen |-> 0, from |-> 0]
    /\ output = <<>>

-----------------------------------------------------------------------------
(* The editor. *)

Request(task) ==
    /\ lastId < MaxId
    /\ lastId' = lastId + 1
    /\ tasks' = [tasks EXCEPT ![lastId + 1] = task]

(* RequestCompletion: nothing is requested while the menu is open, and the resolve
   of an earlier menu is forgotten. *)
RequestCompletionKeeping ==                                   \* mutant
    /\ menu = NoMenu
    /\ Request([pc |-> "start", gen |-> 0, from |-> 0])
    /\ compId' = lastId'
    /\ UNCHANGED <<menu, resolveId, resolved, counter, registered, cache, output>>
RequestCompletion ==
    /\ menu = NoMenu
    /\ Request([pc |-> "start", gen |-> 0, from |-> 0])
    /\ compId' = lastId'
    /\ resolveId' = 0 /\ resolved' = 0
    /\ UNCHANGED <<menu, counter, registered, cache, output>>

(* The user types on or leaves the menu. *)
CloseMenu ==
    /\ menu # NoMenu /\ menu' = NoMenu
    /\ UNCHANGED <<lastId, compId, resolveId, resolved, tasks, counter, registered,
                   cache, output>>

(* ResolveCompletionItem, for the selected item of the menu. *)
ResolveItem ==
    /\ menu # NoMenu /\ resolved = 0 /\ resolveId = 0
    /\ Request([pc |-> "pick", gen |-> menu.gen, from |-> 0])
    /\ resolveId' = lastId'
    /\ UNCHANGED <<compId, menu, resolved, counter, registered, cache, output>>

Event(type) == output # <<>> /\ Head(output).type = type /\ output' = Tail(output)

(* OnCompletion: only the newest request's reply opens a menu, and only in the
   buffer, window and mode it was asked for. *)
Expected(reply) == compId # 0 /\ reply.id = compId
OnCompletion ==
    /\ Event("completion")
    /\ IF Expected(Head(output))
         THEN /\ compId' = 0
              /\ menu' \in {[from |-> Head(output).id, gen |-> Head(output).gen], menu}
         ELSE UNCHANGED <<compId, menu>>
    /\ UNCHANGED <<lastId, resolveId, resolved, tasks, counter, registered, cache>>

OnCompletionResolve ==
    /\ Event("resolve")
    /\ IF Head(output).id = resolveId
         THEN resolved' = Head(output).from /\ resolveId' = 0
         ELSE UNCHANGED <<resolved, resolveId>>
    /\ UNCHANGED <<lastId, compId, menu, tasks, counter, registered, cache>>

OnError ==
    /\ Event("error")
    /\ resolveId' = IF Head(output).id = resolveId THEN 0 ELSE resolveId
    /\ compId' = IF Head(output).id = compId THEN 0 ELSE compId
    /\ UNCHANGED <<lastId, menu, resolved, tasks, counter, registered, cache>>

-----------------------------------------------------------------------------
(* The daemon's tasks. *)

Moved(i, pc) == [tasks EXCEPT ![i].pc = pc]
Reply(r) == output' = Append(output, r)

StartCompletion(i) ==
    /\ tasks[i].pc = "start"
    /\ counter' = counter + 1
    /\ tasks' = [tasks EXCEPT ![i].pc = "register", ![i].gen = counter + 1]
    /\ UNCHANGED <<editorVars, registered, cache, output>>

(* request_latest: newer by the editor's request id; the displaced request's
   channel is closed, so its task finds itself superseded. *)
Register(i) ==
    /\ tasks[i].pc = "register"
    /\ IF registered > i
         THEN tasks' = Moved(i, "done") /\ UNCHANGED registered
         ELSE /\ registered' = i
              /\ tasks' = [j \in Ids |->
                    IF j = i THEN [tasks[j] EXCEPT !.pc = "wait"]
                    ELSE IF j = registered /\ tasks[j].pc = "wait"
                           THEN [tasks[j] EXCEPT !.pc = "done"] ELSE tasks[j]]
    /\ UNCHANGED <<editorVars, counter, cache, output>>

Answered(i) ==
    /\ tasks[i].pc = "wait"
    /\ tasks' = Moved(i, "settle")
    /\ UNCHANGED <<editorVars, counter, registered, cache, output>>

(* clear_latest_request; an answer may also be an error or a timeout. *)
Settle(i) ==
    /\ tasks[i].pc = "settle"
    /\ IF registered # i
         THEN tasks' = Moved(i, "done") /\ UNCHANGED <<registered, output>>
         ELSE /\ registered' = 0
              /\ \/ tasks' = Moved(i, "store") /\ UNCHANGED output
                 \/ /\ tasks' = Moved(i, "done")
                    /\ Reply([type |-> "error", id |-> i, gen |-> 0, from |-> 0])
    /\ UNCHANGED <<editorVars, counter, cache>>

(* A late answer of an older generation does not replace the cache. *)
Newer(i) == tasks[i].gen >= cache.gen
Store(i) ==
    /\ tasks[i].pc = "store"
    /\ cache' = IF Newer(i) THEN [gen |-> tasks[i].gen, from |-> i] ELSE cache
    /\ tasks' = Moved(i, "done")
    /\ Reply([type |-> "completion", id |-> i, gen |-> tasks[i].gen, from |-> i])
    /\ UNCHANGED <<editorVars, counter, registered>>

(* completion_resolve clones the item before it asks the server. *)
AnyGeneration(i) == cache.gen # 0                             \* mutant
Current(i) == cache.gen = tasks[i].gen
Pick(i) ==
    /\ tasks[i].pc = "pick"
    /\ IF Current(i)
         THEN /\ tasks' = [tasks EXCEPT ![i].pc = "resolve", ![i].from = cache.from]
              /\ UNCHANGED output
         ELSE /\ tasks' = Moved(i, "done")
              /\ Reply([type |-> "error", id |-> i, gen |-> 0, from |-> 0])
    /\ UNCHANGED <<editorVars, counter, registered, cache>>

Resolved(i) ==
    /\ tasks[i].pc = "resolve"
    /\ tasks' = Moved(i, "done")
    /\ \/ Reply([type |-> "resolve", id |-> i, gen |-> 0, from |-> tasks[i].from])
       \/ Reply([type |-> "error", id |-> i, gen |-> 0, from |-> 0])
    /\ UNCHANGED <<editorVars, counter, registered, cache>>

-----------------------------------------------------------------------------
Next ==
    \/ RequestCompletion \/ CloseMenu \/ ResolveItem
    \/ OnCompletion \/ OnCompletionResolve \/ OnError
    \/ \E i \in Ids :
          \/ StartCompletion(i) \/ Register(i) \/ Answered(i) \/ Settle(i) \/ Store(i)
          \/ Pick(i) \/ Resolved(i)

Spec == Init /\ [][Next]_vars

-----------------------------------------------------------------------------
Replies == [type : {"completion", "resolve", "error"}, id : Ids, gen : 0..MaxId,
            from : 0..MaxId]

Shapes ==
    /\ {lastId, compId, menu.from, menu.gen, resolveId, resolved} \subseteq 0..MaxId
    /\ {counter, registered, cache.gen, cache.from} \subseteq 0..MaxId
    /\ tasks \in [Ids -> [pc : {"none", "start", "register", "wait", "settle", "store",
                                "pick", "resolve", "done"},
                          gen : 0..MaxId, from : 0..MaxId]]
    /\ output \in Seq(Replies)

(* Every variable has its shape, and while a completion is awaited nothing of an
   earlier menu is left that its resolve, still under way, could fill in. *)
TypeOK == Shapes /\ (compId # 0 => menu = NoMenu /\ resolveId = 0 /\ resolved = 0)

(* The documentation and edits shown for an item of the menu were resolved from
   the very reply the menu shows, whatever the cache held in the meantime. *)
ResolvedFromMenu == menu # NoMenu /\ resolved # 0 => resolved = menu.from
=============================================================================
