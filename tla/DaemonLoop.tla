----------------------------- MODULE DaemonLoop -----------------------------
(***************************************************************************)
(* The daemon process (simplecc_daemon.rs, serve and handle_request): one  *)
(* loop that reads request lines, runs lifecycle and document requests in  *)
(* place and everything else in tasks; the registry, whose write lock the  *)
(* loop alone takes and keeps while a server starts; the bounded path of   *)
(* events to Vim with its stall bit (EventTx, registry.rs); and the end of *)
(* the process at end of input, after a stall or with a broken pipe.       *)
(*                                                                         *)
(* A request is the number of its line.  `queue' holds the events between  *)
(* a sender and Vim, replies as the number of their request and others as  *)
(* 0; `said' are the replies that were ever queued.  There is one server.  *)
(* A request to it ends, one way or another (LspRequests!EveryCallEnds).   *)
(***************************************************************************)
EXTENDS Naturals, Sequences

CONSTANTS MaxLines,  \* lines that are read
          Capacity   \* events the queue holds

ASSUME BoundsAssumption == MaxLines \in Nat /\ Capacity \in Nat

Line == 1 .. MaxLines

\* The arms of handle_request that differ in what happens to a request; the
\* commands are ReloadConfiguration and those of Julia.
Barriers == {"initialize", "shutdown"}
Ordered == {"open", "command"}
Features == {"latest", "plain", "definition", "diagnostics"}
Kinds == Barriers \union Ordered \union Features \union {"install", "bad"}

VARIABLES lines,      \* the kinds of the lines that were read, in order
          closed,     \* the editor has closed our input
          loop,       \* what the loop is doing
          task,       \* of each request that runs as a task
          workspace,  \* whether a registry exists
          server,     \* its server: "down", "up"
          queue, said, stalled, late,
          broken      \* the pipes that failed: "input", "output"

reg == <<workspace, server>>
path == <<queue, said, stalled, broken>>
vars == <<lines, closed, loop, task, reg, path, late>>

Running == {"waiting", "asking", "again", "sending", "installing"}
Inline == {"loading", "stopping", "opening", "announcing", "starting",
           "reporting", "reloading", "activating", "answering"}
Leaving == {"draining", "uninstalling", "closing", "flushing"}

Init == /\ lines = <<>> /\ closed = FALSE
        /\ loop = "select"
        /\ task = [l \in Line |-> "none"]
        /\ workspace = FALSE /\ server = "down"
        /\ queue = <<>> /\ said = <<>> /\ stalled = FALSE
        /\ late = FALSE /\ broken = {}

Kind(l) == lines[l]
IsFeature(l) == l \in DOMAIN lines /\ Kind(l) \in Features
read == Len(lines)

\* The write lock of the registry is held from before a server starts until
\* its status was reported, and for a reload.
Locked == loop \in {"announcing", "starting", "reporting", "reloading"}

-----------------------------------------------------------------------------
(* The editor and the server.                                              *)

Closes == /\ ~closed /\ closed' = TRUE
          /\ UNCHANGED <<lines, loop, task, reg, path, late>>

ServerDies == /\ server = "up" /\ loop # "ended" /\ server' = "down"
              /\ UNCHANGED <<lines, closed, loop, task, workspace, path, late>>

VimReads == /\ queue # <<>> /\ loop # "ended"
            /\ queue' = Tail(queue)
            /\ UNCHANGED <<lines, closed, loop, task, reg, said, stalled, late, broken>>

\* The writer's next write fails, as it does once Vim has closed its end: the
\* writer ends, and what was queued goes with it.  (After a stall nothing more is
\* sent and this is as if Vim had read it all.)
OutputBreaks == /\ queue # <<>> /\ loop # "ended" /\ ~stalled
                /\ queue' = <<>> /\ broken' = broken \union {"output"}
                /\ UNCHANGED <<lines, closed, loop, task, reg, said, stalled, late>>

-----------------------------------------------------------------------------
(* EventTx.                                                                *)

\* send: waits for room, unless the path is stalled already.
Sent(e) == IF stalled THEN UNCHANGED path
           ELSE /\ Len(queue) < Capacity /\ "output" \notin broken
                /\ queue' = Append(queue, e)
                /\ said' = IF e = 0 THEN said ELSE Append(said, e)
                /\ UNCHANGED <<stalled, broken>>

\* Mutant: the sender waits for room forever.
GivesUpNever == FALSE /\ UNCHANGED path

\* After two seconds without room it gives up and trips the stall bit, and at
\* once if the writer has ended.
GivesUp == /\ ~stalled /\ (Len(queue) >= Capacity \/ "output" \in broken)
           /\ stalled' = TRUE
           /\ UNCHANGED <<queue, said, broken>>

-----------------------------------------------------------------------------
(* The loop.                                                               *)

Goes(to) == loop' = to
Reads(kinds) == /\ loop = "select" /\ ~stalled /\ ~closed /\ read < MaxLines
                /\ \E k \in kinds : lines' = Append(lines, k)

\* Every running feature task is aborted and joined before a lifecycle request.
Aborted(set) == [l \in Line |-> IF l \in set /\ task[l] \in Running
                                THEN "aborted" ELSE task[l]]
FeatureTasks == {l \in Line : IsFeature(l)}
InstallTasks == Line \ FeatureTasks

\* Mutant: the tasks are left running.
ReadBarrierRacing ==
  /\ Reads(Barriers) /\ UNCHANGED <<task, closed, reg, path, late>>
  /\ Goes(IF lines'[read + 1] = "initialize" THEN "loading" ELSE "stopping")

ReadBarrier ==
  /\ Reads(Barriers)
  /\ task' = Aborted(FeatureTasks)
  /\ Goes(IF lines'[read + 1] = "initialize" THEN "loading" ELSE "stopping")
  /\ UNCHANGED <<closed, reg, path, late>>

\* A line that is too long or cannot be decoded is answered as well.
ReadBad == /\ Reads({"bad"})
           /\ Goes("answering")
           /\ UNCHANGED <<closed, task, reg, path, late>>

ReadOrdered ==
  /\ Reads(Ordered)
  /\ IF lines'[read + 1] = "open" THEN Goes("opening")
                                   ELSE Goes("reloading") \/ Goes("activating")
  /\ UNCHANGED <<closed, task, reg, path, late>>

Spawn(kinds, as) == /\ Reads(kinds)
                    /\ task' = [task EXCEPT ![read + 1] = as]
                    /\ UNCHANGED <<closed, loop, reg, path, late>>

SpawnFeature == Spawn(Features, "waiting")
SpawnInstall == Spawn({"install"}, "installing")

\* A configuration file is the one that was named, or the first there is; one
\* that was named but is missing, or does not parse or validate, is an error.
LoadSelected(named, candidates) ==
  IF named # "none" THEN named = "good"
  ELSE LET there == {i \in DOMAIN candidates : candidates[i] # "none"}
       IN  there # {} => candidates[CHOOSE i \in there : \A j \in there : i <= j] = "good"

Loads == {LoadSelected(n, c) : n \in {"none", "missing", "bad", "good"},
                               c \in [1 .. 3 -> {"none", "bad", "good"}]}

\* Initialize keeps the old workspace if its configuration does not load.
Load == /\ loop = "loading"
        /\ \E ok \in Loads :
             /\ Goes(IF ok THEN "stopping" ELSE "answering")
        /\ UNCHANGED <<lines, closed, task, reg, path, late>>

\* Mutant: the servers are not shut down.
StopServersKept == /\ loop = "stopping" /\ Goes("answering")
                   /\ workspace' = (Kind(read) = "initialize")
                   /\ UNCHANGED <<lines, closed, task, server, path, late>>

\* The old registry is taken, its servers are shut down, and initialize
\* publishes a new one.
StopServers ==
  /\ loop = "stopping"
  /\ workspace' = (Kind(read) = "initialize")
  /\ server' = "down"
  /\ Goes("answering")
  /\ UNCHANGED <<lines, closed, task, path, late>>

\* didOpen: nothing to start without a workspace, or with the server running,
\* or without its executable, which is reported.
Open ==
  /\ loop = "opening"
  /\ IF ~workspace \/ server = "up" THEN Goes("select")
     ELSE Goes("announcing") \/ Goes("reporting")
  /\ UNCHANGED <<lines, closed, task, reg, path, late>>

\* If "starting" cannot be sent nothing is started.
Announce == /\ loop = "announcing"
            /\ \/ Sent(0) /\ Goes(IF stalled THEN "select" ELSE "starting")
               \/ GivesUp /\ Goes("select")
            /\ UNCHANGED <<lines, closed, task, reg, late>>

\* The handshake succeeds, fails, or runs into its deadline.
Handshake == /\ loop = "starting"
             /\ server' \in {"up", "down"}
             /\ Goes("reporting")
             /\ UNCHANGED <<lines, closed, task, workspace, path, late>>

Report == /\ loop = "reporting"
          /\ Sent(0) \/ GivesUp
          /\ Goes("select")
          /\ UNCHANGED <<lines, closed, task, reg, late>>

\* Every server is told; an error of one, or of the file, is the answer.
Reload == /\ loop = "reloading"
          /\ Goes("answering")
          /\ UNCHANGED <<lines, closed, task, reg, path, late>>

\* The Julia commands ask the running server in place, without the write lock.
Activate == /\ loop = "activating"
            /\ Goes("answering")
            /\ UNCHANGED <<lines, closed, task, reg, path, late>>

\* Lines that are not requests are answered under the id 0.
Answer == /\ loop = "answering"
          /\ Sent(IF Kind(read) = "bad" THEN 0 ELSE read) \/ GivesUp
          /\ Goes("select")
          /\ UNCHANGED <<lines, closed, task, reg, late>>

\* A stall interrupts whatever runs in place; the registry that initialize or
\* shutdown has taken is dropped with its servers.
BreakOnStall ==
  /\ stalled /\ loop \in {"select"} \union Inline
  /\ loop = "answering" => Kind(read) # "bad"
  /\ IF loop = "stopping" THEN workspace' = FALSE /\ server' = "down"
                          ELSE UNCHANGED reg
  /\ Goes("draining")
  /\ UNCHANGED <<lines, closed, task, path, late>>

EndOfInput == /\ loop = "select" /\ ~stalled /\ closed
              /\ Goes("draining")
              /\ UNCHANGED <<lines, closed, task, reg, path, late>>

\* An I/O error of the read leaves serve at once, past every stage of the exit:
\* the runtime drops the tasks.
ReadFails == /\ loop = "select" /\ ~stalled
             /\ Goes("ended")
             /\ task' = Aborted(Line)
             /\ broken' = broken \union {"input"}
             /\ UNCHANGED <<lines, closed, reg, queue, said, stalled, late>>

-----------------------------------------------------------------------------
(* Feature tasks: find the primary client, ask, reply.                     *)

Becomes(l, to) == task' = [task EXCEPT ![l] = to]
Quiet == UNCHANGED <<lines, closed, loop, reg, path, late>>

\* Without a running server the reply is an error.
FindClient(l) == /\ task[l] = "waiting" /\ ~Locked
                 /\ Becomes(l, IF workspace /\ server = "up" THEN "asking" ELSE "sending")
                 /\ Quiet

\* A rename of files is refused if the clients are not those it was prepared with.
RefuseRename(l) == /\ task[l] = "waiting" /\ ~Locked /\ Kind(l) = "plain"
                   /\ Becomes(l, "sending")
                   /\ Quiet

\* One answer or one error, and no answer at all if a newer request of the
\* same feature has displaced this one.
AskLatest(l) == /\ task[l] = "asking" /\ Kind(l) = "latest"
                /\ Becomes(l, "sending") \/ Becomes(l, "silent")
                /\ Quiet

AskPlain(l) == /\ task[l] = "asking" /\ Kind(l) = "plain"
               /\ Becomes(l, "sending")
               /\ Quiet

\* The publisher's name is read from the registry before the server is asked.
AskDiagnostics(l) == /\ task[l] = "asking" /\ Kind(l) = "diagnostics" /\ ~Locked
                     /\ Becomes(l, "again")
                     /\ Quiet

\* Without a definition the symbols of the workspace are asked for, too.
AskDefinition(l) == /\ task[l] = "asking" /\ Kind(l) = "definition"
                    /\ Becomes(l, "again") \/ Becomes(l, "sending")
                    /\ Quiet

\* Unchanged diagnostics are not answered.
AskAgain(l) == /\ task[l] = "again"
               /\ \/ Becomes(l, "sending")
                  \/ Kind(l) = "diagnostics" /\ Becomes(l, "silent")
               /\ Quiet

Installed(l) == task[l] = "installing" /\ Becomes(l, "sending") /\ Quiet

Reply(l) == /\ task[l] = "sending"
            /\ Sent(l) \/ GivesUp
            /\ Becomes(l, "done")
            /\ UNCHANGED <<lines, closed, loop, reg, late>>

Task(l) == /\ loop # "ended"
           /\ \/ FindClient(l) \/ RefuseRename(l) \/ AskLatest(l) \/ AskPlain(l)
              \/ AskDiagnostics(l) \/ AskDefinition(l) \/ AskAgain(l) \/ Installed(l) \/ Reply(l)

-----------------------------------------------------------------------------
(* The end: one deadline of five seconds for all of it.                    *)

DeadlinePasses == /\ loop \in Leaving /\ ~late /\ late' = TRUE
                  /\ UNCHANGED <<lines, closed, loop, task, reg, path>>

Drained(set) == \A l \in set : task[l] \notin Running

\* Mutant: the tasks are aborted at once.
DrainFeaturesAtOnce == /\ loop = "draining" /\ Goes("uninstalling")
                       /\ task' = Aborted(FeatureTasks)
                       /\ UNCHANGED <<lines, closed, reg, path, late>>

DrainFeatures == /\ loop = "draining"
                 /\ Drained(FeatureTasks) \/ late
                 /\ task' = Aborted(FeatureTasks)
                 /\ Goes("uninstalling")
                 /\ UNCHANGED <<lines, closed, reg, path, late>>

DrainInstalls == /\ loop = "uninstalling"
                 /\ Drained(InstallTasks) \/ late
                 /\ task' = Aborted(InstallTasks)
                 /\ Goes("closing")
                 /\ UNCHANGED <<lines, closed, reg, path, late>>

ShutServices == /\ loop = "closing"
                /\ \/ workspace' = FALSE /\ server' = "down"
                   \/ late /\ UNCHANGED reg
                /\ Goes("flushing")
                /\ UNCHANGED <<lines, closed, task, path, late>>

\* Mutant: the exit waits for Vim to read everything.
FlushAll == /\ loop = "flushing" /\ queue = <<>> /\ server = "down" /\ Goes("ended")
            /\ UNCHANGED <<lines, closed, task, reg, path, late>>

\* The writer ends when every sender is gone and the queue is empty, or when a
\* write failed.
Flush == /\ loop = "flushing"
         /\ late \/ "output" \in broken \/ (queue = <<>> /\ server = "down")
         /\ Goes("ended")
         /\ UNCHANGED <<lines, closed, task, reg, path, late>>

Read == ReadBarrier \/ ReadBad \/ ReadOrdered \/ SpawnFeature \/ SpawnInstall

Loop == \/ Load \/ StopServers
        \/ Open \/ Announce \/ Handshake \/ Report \/ Reload \/ Activate \/ Answer
        \/ BreakOnStall \/ EndOfInput
        \/ DrainFeatures \/ DrainInstalls \/ ShutServices \/ Flush

Next == \/ Closes \/ VimReads \/ OutputBreaks \/ ServerDies
        \/ Read \/ ReadFails \/ Loop \/ DeadlinePasses
        \/ \E l \in Line : Task(l)

Spec == Init /\ [][Next]_vars

\* Tokio polls what can run, deadlines pass, and Vim owes nothing.
FairSpec == Spec /\ WF_vars(Loop) /\ WF_vars(DeadlinePasses)
                 /\ \A l \in Line : WF_vars(Task(l))

-----------------------------------------------------------------------------
\* Every variable has its type; tasks are requests that were read, and only a
\* workspace has a server.
TypeOK ==
  /\ lines \in Seq(Kinds) /\ Len(lines) <= MaxLines
  /\ closed \in BOOLEAN
  /\ loop \in {"select", "ended"} \union Inline \union Leaving
  /\ task \in [Line -> Running \union {"none", "done", "silent", "aborted"}]
  /\ workspace \in BOOLEAN /\ server \in {"up", "down"}
  /\ server = "up" => workspace
  /\ queue \in Seq(0 .. MaxLines) /\ Len(queue) <= Capacity
  /\ said \in Seq(Line) /\ stalled \in BOOLEAN /\ late \in BOOLEAN
  /\ broken \subseteq {"input", "output"}
  /\ \A l \in Line : task[l] # "none" => l <= read

\* Once a lifecycle request is being handled no earlier feature request runs,
\* and none is answered after it ("Cancel those tasks before taking down the
\* registry so they cannot write after the lifecycle edge",
\* simplecc_daemon.rs:905), and nobody is answered twice.
BarrierIsFinal ==
  /\ \A b \in 1 .. read : Kind(b) \in Barriers =>
       \A l \in 1 .. b - 1 : IsFeature(l) => task[l] \notin Running
  /\ \A p, q \in DOMAIN said : p < q =>
       /\ said[p] # said[q]
       /\ Kind(said[p]) \in Barriers => ~(IsFeature(said[q]) /\ said[q] < said[p])

\* A request that was read is dropped only at a later lifecycle request, at the
\* deadline of the exit or when the input fails; installations only at the last
\* two.  An exit in time, without a stall and with both pipes, leaves no reply
\* unread ("EOF means no more requests, not
\* that replies to requests already accepted may be discarded",
\* simplecc_daemon.rs:943).
NothingLost ==
  /\ \A l \in Line : task[l] = "aborted" =>
       late \/ "input" \in broken
       \/ (IsFeature(l) /\ \E b \in l + 1 .. read : Kind(b) \in Barriers)
  /\ (loop = "ended" /\ ~late /\ ~stalled /\ broken = {}) =>
       /\ queue = <<>>
       /\ \A l \in Line : task[l] \notin Running

\* Every request that runs as a task comes to its end, although the registry
\* may be locked by a start and Vim may stop reading.
EveryRequestEnds ==
  \A l \in Line : (task[l] \in Running) ~> (task[l] \notin Running)

\* The daemon ends after its input has, or after a stall, whatever Vim, the
\* server and the installers do.
DaemonEnds == (closed \/ stalled) ~> loop = "ended"
=============================================================================
