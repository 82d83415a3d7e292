----------------------------- MODULE WatchedFiles -----------------------------
(***************************************************************************)
(* How language servers learn that files change: the watcher task of a     *)
(* local workspace (workspace_watcher.rs), which coalesces what the        *)
(* platform reports; the requests of the editor, which are all there is in *)
(* a remote workspace; and the clients (lsp/client.rs), which filter both  *)
(* through the patterns their server has registered and drop what was said *)
(* a moment ago.                                                           *)
(*                                                                         *)
(* A change is <<file, type>>.  `stale' are the files of which a server    *)
(* has not heard since they changed: it reads a file when it hears that it *)
(* was created or changed, and believes that it was deleted.  `unasked'    *)
(* and `doubled' tell why it was not told.                                 *)
(***************************************************************************)
EXTENDS Naturals, Sequences, FiniteSets

CONSTANTS Files,
          Manifests,    \* the files that are Julia manifests
          Servers,
          JuliaServers, \* the servers that are the Julia language server
          Ids,          \* the ids of registrations
          MaxChanges,   \* changes of files, registrations and deaths of servers
          MaxQueue      \* events, and requests, that wait

\* "none" stands for no server.
ASSUME SetsAgree == /\ Manifests \subseteq Files /\ JuliaServers \subseteq Servers
                    /\ "none" \notin Servers
                    /\ MaxChanges \in Nat /\ MaxQueue \in Nat

CREATED == 1
CHANGED == 2
DELETED == 3
Types == {CREATED, CHANGED, DELETED}
Changes == Files \X Types
Reporters == {"watcher", "loop"}

VARIABLES remote,     \* whether the workspace is remote: nothing is watched
          disk,       \* the files that exist
          left,       \* changes still to come
          events,     \* what the platform reported, as sequences of changes
          lines,      \* requests of the editor, as sets of changes
          live,       \* the servers that run
          registered, \* of each server, its registrations by id
          recent,     \* of each server, what it was told a moment ago
          watcher,    \* what the watcher task is doing
          pending,    \* the batch it collects: of each file, 0 or a type
          refreshing, \* the batch has a manifest and a refresh is due
          cooling,    \* the last refresh was a moment ago
          work,       \* of each reporter, whom it tells what
          stale, unasked, doubled,
          index       \* whether Julia's index is that of the manifests

world == <<remote, disk, left>>
batching == <<watcher, pending, refreshing, cooling>>
tasks == <<batching, work>>
servers == <<live, registered, recent>>
knowledge == <<stale, unasked, doubled, index>>
vars == <<world, events, lines, servers, tasks, knowledge>>

Empty == [f \in Files |-> 0]
NoWork == [batch |-> {}, todo |-> {}, at |-> "none", step |-> "next", chosen |-> {}]
None == [method |-> "none", watched |-> {}]

\* A pattern stands for the files its base and glob match; all kinds of change
\* unless the server names some.
Pattern(files, kinds) == [files |-> files, kinds |-> kinds]
Watching(patterns) == [method |-> "watch", watched |-> patterns]

Everything == Watching({Pattern(Files, Types)})
Offers == {Everything,
           Watching({Pattern(Manifests, {CHANGED}),
                     Pattern(Files \ Manifests, {CREATED, DELETED})}),
           [method |-> "other", watched |-> {}],
           [method |-> "bad", watched |-> {}]}
Offered == {o \in Offers : o.method # "bad"} \union {None}

\* The manifests are there and the other files yet to come; a server has
\* registered for everything when it was initialized.
Init == /\ remote \in BOOLEAN /\ disk = Manifests /\ left = MaxChanges
        /\ events = <<>> /\ lines = <<>>
        /\ live = Servers
        /\ registered = [s \in Servers |-> [i \in Ids |-> Everything]]
        /\ recent = [s \in Servers |-> {}]
        /\ watcher = "idle" /\ pending = Empty
        /\ refreshing = FALSE /\ cooling = FALSE
        /\ work = [r \in Reporters |-> NoWork]
        /\ stale = [s \in Servers |-> {}]
        /\ unasked = [s \in Servers |-> {}]
        /\ doubled = [s \in Servers |-> {}]
        /\ index = "fresh"

-----------------------------------------------------------------------------
(* merge_event: what a platform event says of its paths.                   *)

Marks(kind, paths) ==
  LET all(type) == [i \in DOMAIN paths |-> <<paths[i], type>>]
  IN  CASE kind \in {"create", "to"}   -> all(CREATED)
        [] kind \in {"remove", "from"} -> all(DELETED)
        [] kind = "both"   -> << <<paths[1], DELETED>>, <<paths[2], CREATED>> >>
        [] kind = "modify" -> all(CHANGED)
        [] kind = "access" -> <<>>

\* Mutant: what was said first stands.
MergePathFirst(batch, f, type) ==
  [batch EXCEPT ![f] = IF @ = 0 THEN type ELSE @]

\* A creation or deletion overrides what was said before, a change does not.
MergePath(batch, f, type) ==
  [batch EXCEPT ![f] = IF type # CHANGED \/ @ \in {0, CHANGED} THEN type ELSE @]

MergeEvent(batch, marks) ==
  CASE Len(marks) = 0 -> batch
    [] Len(marks) = 1 -> MergePath(batch, marks[1][1], marks[1][2])
    [] Len(marks) = 2 -> MergePath(MergePath(batch, marks[1][1], marks[1][2]),
                                   marks[2][1], marks[2][2])

-----------------------------------------------------------------------------
(* Files change.                                                           *)

Outdated(touched) ==
  /\ stale' = [s \in Servers |-> IF s \in live THEN stale[s] \union touched ELSE {}]
  /\ unasked' = [s \in Servers |-> unasked[s] \ touched]
  /\ doubled' = [s \in Servers |-> doubled[s] \ touched]
  /\ index' = IF touched \intersect Manifests # {} /\ ~remote THEN "old" ELSE index

\* The files of paths were touched and fs exist now.  The platform reports it
\* in a local workspace; in a remote one it reaches us through the editor.
Touch(kind, paths, fs) ==
  /\ disk' = fs
  /\ LET touched == {paths[i] : i \in DOMAIN paths}
         marks == Marks(kind, paths)
     IN  /\ IF remote THEN /\ Len(lines) < MaxQueue
                           /\ lines' = Append(lines, {marks[i] : i \in DOMAIN marks})
                           /\ UNCHANGED events
                      ELSE /\ Len(events) < MaxQueue
                           /\ events' = Append(events, marks)
                           /\ UNCHANGED lines
         /\ Outdated(touched)
  /\ UNCHANGED <<remote, servers, tasks>>

Spend == left > 0 /\ left' = left - 1

Create(f) == /\ Spend /\ f \notin disk
             /\ \E kind \in {"create", "to"} : Touch(kind, <<f>>, disk \union {f})

Write(f) == Spend /\ f \in disk /\ Touch("modify", <<f>>, disk)

Delete(f) == /\ Spend /\ f \in disk
             /\ \E kind \in {"remove", "from"} : Touch(kind, <<f>>, disk \ {f})

Rename(f, g) == /\ Spend /\ f \in disk /\ f # g
                /\ Touch("both", <<f, g>>, (disk \ {f}) \union {g})

\* A file is opened and read: the platform reports that, too.
Access(f) == /\ Spend /\ f \in disk /\ ~remote /\ Len(events) < MaxQueue
             /\ events' = Append(events, Marks("access", <<f>>))
             /\ UNCHANGED <<remote, disk, lines, servers, tasks, knowledge>>

\* The editor writes a buffer, and says so (DidSave) whatever the platform says.
Save(f) ==
  /\ Spend /\ Len(lines) < MaxQueue
  /\ disk' = disk \union {f}
  /\ lines' = Append(lines, {<<f, CHANGED>>})
  /\ IF remote THEN UNCHANGED events
     ELSE /\ Len(events) < MaxQueue
          /\ events' = Append(events,
                 Marks(IF f \in disk THEN "modify" ELSE "create", <<f>>))
  /\ Outdated({f})
  /\ UNCHANGED <<remote, servers, tasks>>

-----------------------------------------------------------------------------
(* Registrations (client/registerCapability and its opposite).             *)

\* Mutant: registrations are taken over before all of them have been parsed.
RegisterUnparsed(s) ==
  /\ Spend /\ s \in live
  /\ \E ids \in SUBSET Ids \ {{}} : \E offers \in [ids -> Offers] :
       registered' = [registered EXCEPT ![s] =
                        [i \in Ids |-> IF i \in ids THEN offers[i] ELSE @[i]]]
  /\ UNCHANGED <<remote, disk, events, lines, live, recent, tasks, knowledge>>

\* One registration that cannot be parsed refuses all of the request; ids that
\* are known are replaced.
Register(s) ==
  /\ Spend /\ s \in live
  /\ \E ids \in SUBSET Ids \ {{}} : \E offers \in [ids -> Offers] :
       /\ \A i \in ids : offers[i].method # "bad"
       /\ registered' = [registered EXCEPT ![s] =
                           [i \in Ids |-> IF i \in ids THEN offers[i] ELSE @[i]]]
  /\ UNCHANGED <<remote, disk, events, lines, live, recent, tasks, knowledge>>

\* A registration is taken back by its id and its method.
Unregister(s) ==
  /\ Spend /\ s \in live
  /\ \E i \in Ids : \E method \in {"watch", "other"} :
       /\ registered[s][i].method = method
       /\ registered' = [registered EXCEPT ![s][i] = None]
  /\ UNCHANGED <<remote, disk, events, lines, live, recent, tasks, knowledge>>

\* matches_watched_file
Matches(s, change) ==
  \E i \in Ids : /\ registered[s][i].method = "watch"
                 /\ \E p \in registered[s][i].watched :
                      change[2] \in p.kinds /\ change[1] \in p.files

\* Registrations and recent notifications belong to the client of one server.
ServerDies(s) ==
  /\ Spend /\ s \in live /\ live' = live \ {s}
  /\ registered' = [registered EXCEPT ![s] = [i \in Ids |-> None]]
  /\ recent' = [recent EXCEPT ![s] = {}]
  /\ stale' = [stale EXCEPT ![s] = {}]
  /\ unasked' = [unasked EXCEPT ![s] = {}] /\ doubled' = [doubled EXCEPT ![s] = {}]
  /\ UNCHANGED <<remote, disk, events, lines, tasks, index>>

\* 250 ms have passed since the server was told.
Fade(s) == /\ \E c \in recent[s] : recent' = [recent EXCEPT ![s] = @ \ {c}]
           /\ UNCHANGED <<world, events, lines, live, registered, tasks, knowledge>>

-----------------------------------------------------------------------------
(* The watcher task.                                                       *)

Take == /\ watcher \in {"idle", "batching"} /\ events # <<>>
        /\ watcher' = "batching"
        /\ pending' = MergeEvent(pending, Head(events))
        /\ events' = Tail(events)
        /\ UNCHANGED <<world, lines, servers, refreshing, cooling, work, knowledge>>

Batch == {c \in Changes : pending[c[1]] = c[2]}

\* Mutant: a batch without changes ends the task.
WindowEndsTask ==
  /\ watcher = "batching" /\ events = <<>> /\ pending' = Empty
  /\ watcher' = IF Batch = {} THEN "ended" ELSE "telling"
  /\ work' = [work EXCEPT !["watcher"].batch = Batch, !["watcher"].todo = live]
  /\ refreshing' = (~cooling /\ \E c \in Batch : c[1] \in Manifests)
  /\ index' = IF cooling /\ (\E c \in Batch : c[1] \in Manifests) THEN "left old" ELSE index
  /\ UNCHANGED <<world, events, lines, servers, cooling, stale, unasked, doubled>>

\* 120 ms without an event close the batch.  It is offered to every server, and
\* a manifest in it refreshes Julia unless that was done two seconds ago.
WindowEnds ==
  /\ watcher = "batching" /\ events = <<>>
  /\ pending' = Empty
  /\ LET manifest == \E c \in Batch : c[1] \in Manifests
     IN  /\ refreshing' = (manifest /\ ~cooling)
         /\ index' = IF manifest /\ cooling THEN "left old" ELSE index
  /\ IF Batch = {} THEN watcher' = "idle" /\ UNCHANGED work
     ELSE /\ watcher' = "telling"
          /\ work' = [work EXCEPT !["watcher"].batch = Batch, !["watcher"].todo = live]
  /\ UNCHANGED <<world, events, lines, servers, cooling, stale, unasked, doubled>>

Told == /\ watcher = "telling" /\ work["watcher"].todo = {} /\ work["watcher"].at = "none"
        /\ watcher' = "idle"
        /\ work' = [work EXCEPT !["watcher"] = NoWork]
        /\ refreshing' = FALSE
        /\ UNCHANGED <<world, events, lines, servers, pending, cooling, knowledge>>

\* Two seconds have passed since the last refresh.
Cooled == /\ cooling /\ cooling' = FALSE
          /\ UNCHANGED <<world, events, lines, servers, watcher, pending,
                         refreshing, work, knowledge>>

-----------------------------------------------------------------------------
(* The daemon loop: DidSave and DidChangeWatchedFiles are handled in place. *)

TakeLine == /\ work["loop"].todo = {} /\ work["loop"].at = "none" /\ lines # <<>>
            /\ lines' = Tail(lines)
            /\ work' = [work EXCEPT !["loop"] =
                          [NoWork EXCEPT !.batch = Head(lines), !.todo = live]]
            /\ UNCHANGED <<world, events, servers, batching, knowledge>>

-----------------------------------------------------------------------------
(* did_change_watched_files, of one client after the other.                *)

FilesOf(changes) == {c[1] : c \in changes}

\* What comes after the notification, or after there was nothing to notify.
AfterNotify(r, s) ==
  work' = [work EXCEPT ![r].todo = @ \ {s}, ![r].chosen = {},
             ![r].at = IF r = "watcher" /\ refreshing THEN s ELSE "none",
             ![r].step = IF r = "watcher" /\ refreshing THEN "refresh" ELSE "next"]

\* The registrations are read under their lock.
Filter(r) ==
  /\ work[r].at = "none"
  /\ \E s \in work[r].todo :
       LET chosen == {c \in work[r].batch : Matches(s, c)}
       IN  /\ unasked' = [unasked EXCEPT ![s] =
                            @ \union (stale[s] \intersect FilesOf(work[r].batch \ chosen))]
           /\ IF chosen = {} THEN AfterNotify(r, s)
              ELSE work' = [work EXCEPT ![r].at = s, ![r].step = "claim",
                                        ![r].chosen = chosen]
  /\ UNCHANGED <<world, events, lines, servers, batching, stale, doubled, index>>

\* What was said less than 250 ms ago is dropped; the rest is noted before it
\* is said.
Claim(r) ==
  /\ work[r].step = "claim"
  /\ LET s == work[r].at
         fresh == work[r].chosen \ recent[s]
     IN  /\ recent' = [recent EXCEPT ![s] = IF s \in live THEN @ \union fresh ELSE @]
         /\ doubled' = [doubled EXCEPT ![s] = @ \union (stale[s] \intersect
                                                 FilesOf(work[r].chosen \ fresh))]
         /\ IF fresh = {} THEN AfterNotify(r, s)
            ELSE work' = [work EXCEPT ![r].step = "notify", ![r].chosen = fresh]
  /\ UNCHANGED <<world, events, lines, live, registered, batching, stale, unasked, index>>

\* A server that died is an error that is logged; the others are told.
Notify(r) ==
  /\ work[r].step = "notify"
  /\ LET s == work[r].at
         right == {c[1] : c \in {d \in work[r].chosen :
                                   d[2] = DELETED => d[1] \notin disk}}
     IN  /\ stale' = [stale EXCEPT ![s] = @ \ right]
         /\ unasked' = [unasked EXCEPT ![s] = @ \ right]
         /\ doubled' = [doubled EXCEPT ![s] = @ \ right]
         /\ AfterNotify(r, s)
  /\ UNCHANGED <<world, events, lines, servers, batching, index>>

\* refresh_julia_language_server; only a refresh that was sent starts the pause.
Refresh ==
  /\ work["watcher"].step = "refresh"
  /\ LET s == work["watcher"].at
         sent == s \in JuliaServers \intersect live
     IN  /\ cooling' = (cooling \/ sent)
         /\ index' = IF sent THEN "fresh" ELSE index
  /\ work' = [work EXCEPT !["watcher"].at = "none", !["watcher"].step = "next"]
  /\ UNCHANGED <<world, events, lines, servers, watcher, pending, refreshing,
                 stale, unasked, doubled>>

Watch == Take \/ WindowEnds \/ Told \/ Refresh
Report(r) == Filter(r) \/ Claim(r) \/ Notify(r)

Next == \/ \E f \in Files : \/ Create(f) \/ Write(f) \/ Delete(f) \/ Access(f)
                            \/ Save(f)
                            \/ \E g \in Files : Rename(f, g)
        \/ \E s \in Servers : Register(s) \/ Unregister(s) \/ ServerDies(s) \/ Fade(s)
        \/ Cooled \/ Watch \/ TakeLine
        \/ \E r \in Reporters : Report(r)

Spec == Init /\ [][Next]_vars

\* Tokio polls the two tasks, and the window of a batch is a timer.
FairSpec == /\ Spec /\ WF_vars(Watch) /\ WF_vars(TakeLine)
            /\ \A r \in Reporters : WF_vars(Report(r))

-----------------------------------------------------------------------------
Working == [batch : SUBSET Changes, todo : SUBSET Servers, at : Servers \union {"none"},
            step : {"next", "claim", "notify", "refresh"}, chosen : SUBSET Changes]

\* Every variable has its type: no registration is held that could not be parsed,
\* a batch says one thing of a file, and what a server asked for or heard lives no
\* longer than it does.
TypeOK ==
  /\ remote \in BOOLEAN /\ disk \subseteq Files /\ left \in 0 .. MaxChanges
  /\ events \in Seq(Seq(Changes)) /\ Len(events) <= MaxQueue
  /\ lines \in Seq(SUBSET Changes) /\ Len(lines) <= MaxQueue
  /\ live \subseteq Servers
  /\ registered \in [Servers -> [Ids -> Offered]]
  /\ recent \in [Servers -> SUBSET Changes]
  /\ \A s \in Servers \ live : recent[s] = {} /\ \A i \in Ids : registered[s][i] = None
  /\ watcher \in {"idle", "batching", "telling"}
  /\ pending \in [Files -> 0 .. 3]
  /\ refreshing \in BOOLEAN /\ cooling \in BOOLEAN
  /\ work \in [Reporters -> Working]
  /\ \A r \in Reporters : \A c, d \in work[r].batch : c[1] = d[1] => c = d
  /\ stale \in [Servers -> SUBSET Files] /\ unasked \in [Servers -> SUBSET Files]
  /\ doubled \in [Servers -> SUBSET Files]
  /\ index \in {"fresh", "old", "left old"}

Quiet == /\ events = <<>> /\ lines = <<>> /\ watcher = "idle"
         /\ \A r \in Reporters : work[r].todo = {} /\ work[r].at = "none"

\* When nothing is under way every running server knows every file as it is
\* now, but for changes it did not ask for and those that were dropped as
\* repetitions: merging a burst, filtering, two reporters at once and the death
\* of another server lose nothing else.  And while Julia's server runs its index
\* was refreshed after the last change of a manifest unless that was done a moment
\* before, whether or not the server asked to hear of manifests.
KnowsWhenQuiet ==
  Quiet => /\ \A s \in live : stale[s] \subseteq unasked[s] \union doubled[s]
           /\ JuliaServers \intersect live # {} => index # "old"

\* Each change is told, or found not to be for the server or a repetition.
ChangesAreTold ==
  \A s \in Servers : \A f \in Files :
    (f \in stale[s]) ~> (f \notin stale[s] \ (unasked[s] \union doubled[s]))

\* "This is the only way the language servers learn that a module appeared or
\* went" (simplecc.vim:5040): what a server asked for it learns.
LearnsWhatChanged ==
  Quiet => \A s \in live : stale[s] \subseteq unasked[s]
=============================================================================
