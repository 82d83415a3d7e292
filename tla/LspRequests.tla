------------------------------ MODULE LspRequests ------------------------------
(***************************************************************************)
(* The request engine of one language-server connection: the part of       *)
(* LspClient (src/src/simplecc/lsp/client.rs) through which every daemon   *)
(* task talks to a server, together with its dispatcher task.              *)
(*                                                                         *)
(* A call is one execution of request_with_timeout_inner, notify or        *)
(* shutdown.  JSON-RPC ids come from one atomic counter and are only       *)
(* compared for equality, so a call also names its request's id.  Between  *)
(* two awaits a call may be overtaken by every other call, by the          *)
(* dispatcher and by the server; each action below is the code from one    *)
(* such point to the next.  The transport lock is held for exactly one     *)
(* action (Write or Terminate); the lock on latest_requests is held across *)
(* several and is explicit.                                                *)
(***************************************************************************)
EXTENDS Integers, Sequences

CONSTANTS
    Calls,        \* the calls that may be made on this client
    NoCall,       \* "no call", for an unset map entry or a free lock
    Keys,         \* latest-wins feature keys (completion:<uri>, codeLens, ...)
    Kind,         \* Kind[t]: "plain", "latest", "notify" or "shutdown"
    Key,          \* Key[t]: the feature key of a "latest" call
    SeqOf,        \* SeqOf[t]: the editor's request id carried by the call
    MaxBarriers   \* how many lifecycle barriers the daemon may reach

ASSUME CallsAssumption ==
    /\ NoCall \notin Calls
    /\ Kind \in [Calls -> {"plain", "latest", "notify", "shutdown"}]
    /\ Key \in [Calls -> Keys]
    /\ SeqOf \in [Calls -> Nat]
    /\ MaxBarriers \in Nat

VARIABLES
    pc,           \* where each call is suspended
    job,          \* which message the call's send_message is carrying
    prev,         \* the request a "latest" call displaced, still to be cancelled
    chan,         \* the call's oneshot response channel
    outcome,      \* what the call returned to its handler
    pending,      \* LspClient.pending: ids whose sender is still registered
    latest,       \* LspClient.latest_requests: key -> call
    latestLock,   \* the holder of the latest_requests mutex
    alive,        \* LspClient.alive
    terminated,   \* LspTransport: the writer is closed and the child reaped
    wire,         \* everything written to the server's stdin, in order
    disp,         \* the dispatcher task
    stdinOpen,    \* the server still reads its stdin
    stdoutOpen,   \* the server has not closed its stdout
    retiring,     \* the daemon has taken the registry away to shut it down
    barriers      \* lifecycle barriers so far

callVars   == <<pc, job, prev, chan, outcome>>
clientVars == <<pending, latest, latestLock, alive, terminated>>
serverVars == <<wire, stdinOpen, stdoutOpen>>
daemonVars == <<retiring, barriers>>
vars == <<callVars, clientVars, serverVars, daemonVars, disp>>

PCs == {"idle", "begin", "insert", "lock", "cancelPrev", "check", "write",
        "flag", "clear", "terminate", "forget", "wait", "expired", "settle",
        "loseRace", "done"}
Jobs == {"request", "cancelPrev", "cancelOwn", "notify", "exit", "retire"}

Message == [type : {"request", "cancel", "notify", "exit"}, of : Calls]

PointsAtSomething(t) == Kind[t] = "latest" /\ latest[Key[t]] # NoCall   \* mutant
OwnsKey(t) == Kind[t] = "latest" /\ latest[Key[t]] = t

Inline(t)  == Kind[t] \in {"notify", "shutdown"}  \* run by the daemon's own loop
Active(t)  == pc[t] \notin {"idle", "done"}
Written(m) == \E i \in 1..Len(wire) : wire[i] = m
Requested(t) == Written([type |-> "request", of |-> t])

-----------------------------------------------------------------------------
Init ==
    /\ pc      = [t \in Calls |-> "idle"]
    /\ job     = [t \in Calls |-> "request"]
    /\ prev    = [t \in Calls |-> NoCall]
    /\ chan    = [t \in Calls |-> "none"]
    /\ outcome = [t \in Calls |-> "none"]
    /\ pending = {}
    /\ latest  = [k \in Keys |-> NoCall]
    /\ latestLock = NoCall
    /\ alive = TRUE /\ terminated = FALSE
    /\ wire = <<>> /\ stdinOpen = TRUE /\ stdoutOpen = TRUE
    /\ disp = "run"
    /\ retiring = FALSE /\ barriers = 0

(* Senders dropped from the pending map close their receivers. *)
ClosedByReplacing(senders) == [t \in senders |-> "closed"]    \* mutant
ClosedBy(senders) ==
    [t \in Calls |-> IF t \in senders /\ chan[t] = "open" THEN "closed" ELSE chan[t]]

(* A request of shutdown() is followed by the exit notification whatever its
   result; every other call returns to its handler. *)
Return(t, result) ==
    /\ outcome' = [outcome EXCEPT ![t] = result]
    /\ IF Kind[t] = "shutdown"
         THEN /\ pc'  = [pc EXCEPT ![t] = "check"]
              /\ job' = [job EXCEPT ![t] = "exit"]
         ELSE /\ pc'  = [pc EXCEPT ![t] = "done"]
              /\ UNCHANGED job

-----------------------------------------------------------------------------
(* Entering a call. *)

(* request_with_timeout_inner up to the pending map: the alive check and the
   allocation of an id.  shutdown() arrives here from BeginShutdown. *)
BeginRequest(t) ==
    /\ \/ pc[t] = "idle" /\ ~Inline(t) /\ ~retiring
       \/ pc[t] = "begin"
    /\ IF alive
         THEN pc' = [pc EXCEPT ![t] = "insert"] /\ UNCHANGED <<job, outcome>>
         ELSE Return(t, "error")
    /\ UNCHANGED <<prev, chan, clientVars, serverVars, daemonVars, disp>>

(* The daemon's loop runs ordered requests one at a time. *)
LoopFree == \A u \in Calls : Inline(u) => ~Active(u)

BeginNotify(t) ==
    /\ pc[t] = "idle" /\ Kind[t] = "notify" /\ LoopFree /\ ~retiring
    /\ pc'  = [pc EXCEPT ![t] = "check"]
    /\ job' = [job EXCEPT ![t] = "notify"]
    /\ UNCHANGED <<prev, chan, outcome, clientVars, serverVars, daemonVars, disp>>

BeginShutdown(t) ==
    /\ pc[t] = "idle" /\ Kind[t] = "shutdown" /\ LoopFree /\ retiring
    /\ IF alive
         THEN pc' = [pc EXCEPT ![t] = "begin"] /\ UNCHANGED job
         ELSE /\ pc'  = [pc EXCEPT ![t] = "flag"]
              /\ job' = [job EXCEPT ![t] = "retire"]
    /\ UNCHANGED <<prev, chan, outcome, clientVars, serverVars, daemonVars, disp>>

Insert(t) ==
    /\ pc[t] = "insert"
    /\ pending' = pending \union {t}
    /\ chan' = [chan EXCEPT ![t] = "open"]
    /\ pc' = [pc EXCEPT ![t] = IF Kind[t] = "latest" THEN "lock" ELSE "check"]
    /\ UNCHANGED <<job, prev, outcome, latest, latestLock, alive, terminated,
                   serverVars, daemonVars, disp>>

(* The editor issued the request registered for the key later than t. *)
OutrankedByOlder(t) ==                                        \* mutant
    latest[Key[t]] # NoCall /\ SeqOf[latest[Key[t]]] < SeqOf[t]
Outranked(t) == latest[Key[t]] # NoCall /\ SeqOf[latest[Key[t]]] > SeqOf[t]

(* The call lost the spawn race.  The lock is dropped before the pending entry
   is removed. *)
YieldToNewer(t) ==
    /\ pc[t] = "lock" /\ latestLock = NoCall /\ Outranked(t)
    /\ pc' = [pc EXCEPT ![t] = "loseRace"]
    /\ UNCHANGED <<job, prev, chan, outcome, clientVars, serverVars, daemonVars, disp>>

LoseRaceRegistered(t) ==                                      \* mutant
    /\ pc[t] = "loseRace"
    /\ Return(t, "superseded")
    /\ UNCHANGED <<prev, chan, clientVars, serverVars, daemonVars, disp>>
LoseRace(t) ==
    /\ pc[t] = "loseRace"
    /\ pending' = pending \ {t}
    /\ chan' = [chan EXCEPT ![t] = "dropped"]
    /\ Return(t, "superseded")
    /\ UNCHANGED <<prev, latest, latestLock, alive, terminated,
                   serverVars, daemonVars, disp>>

(* Registering as the newest request of the key; the lock stays held. *)
TakeKeyUnlocked(t) ==                                         \* mutant
    /\ pc[t] = "lock" /\ ~Outranked(t)
    /\ latest' = [latest EXCEPT ![Key[t]] = t]
    /\ prev' = [prev EXCEPT ![t] = latest[Key[t]]]
    /\ pc' = [pc EXCEPT ![t] = IF latest[Key[t]] = NoCall THEN "check" ELSE "cancelPrev"]
    /\ UNCHANGED <<job, chan, outcome, pending, latestLock, alive, terminated,
                   serverVars, daemonVars, disp>>
TakeKey(t) ==
    /\ pc[t] = "lock" /\ latestLock = NoCall /\ ~Outranked(t)
    /\ latestLock' = t
    /\ latest' = [latest EXCEPT ![Key[t]] = t]
    /\ prev' = [prev EXCEPT ![t] = latest[Key[t]]]
    /\ pc' = [pc EXCEPT ![t] = IF latest[Key[t]] = NoCall THEN "check" ELSE "cancelPrev"]
    /\ UNCHANGED <<job, chan, outcome, pending, alive, terminated,
                   serverVars, daemonVars, disp>>

(* cancel_pending_request(previous_id): only the remover of the entry tells
   the server. *)
CancelPrevious(t) ==
    /\ pc[t] = "cancelPrev"
    /\ IF prev[t] \in pending
         THEN /\ pending' = pending \ {prev[t]}
              /\ chan' = ClosedBy({prev[t]})
              /\ job' = [job EXCEPT ![t] = "cancelPrev"]
         ELSE UNCHANGED <<pending, chan, job>>
    /\ pc' = [pc EXCEPT ![t] = "check"]
    /\ UNCHANGED <<prev, outcome, latest, latestLock, alive, terminated,
                   serverVars, daemonVars, disp>>

-----------------------------------------------------------------------------
(* send_message, for whichever message the call is sending. *)

MessageOf(t) ==
    CASE job[t] = "cancelPrev" -> [type |-> "cancel", of |-> prev[t]]
      [] job[t] = "cancelOwn"  -> [type |-> "cancel", of |-> t]
      [] job[t] = "notify"     -> [type |-> "notify", of |-> t]
      [] job[t] = "exit"       -> [type |-> "exit", of |-> t]
      [] OTHER                 -> [type |-> "request", of |-> t]

(* What the caller of send_message does with its result: an undelivered
   cancellation is ignored; an undelivered request gives its key up again. *)
AfterSend(t, ok) ==
    \/ /\ job[t] = "cancelPrev"
       /\ job' = [job EXCEPT ![t] = "request"]
       /\ pc'  = [pc EXCEPT ![t] = "check"]
       /\ UNCHANGED <<latest, latestLock, outcome>>
    \/ /\ job[t] = "request"
       /\ pc' = [pc EXCEPT ![t] = IF ok THEN "wait" ELSE "forget"]
       /\ latest' = IF OwnsKey(t) /\ ~ok THEN [latest EXCEPT ![Key[t]] = NoCall]
                                         ELSE latest
       /\ latestLock' = IF latestLock = t THEN NoCall ELSE latestLock
       /\ UNCHANGED <<job, outcome>>
    \/ /\ job[t] = "cancelOwn" /\ Kind[t] = "latest"
       /\ pc' = [pc EXCEPT ![t] = "settle"]
       /\ UNCHANGED <<job, latest, latestLock, outcome>>
    \/ /\ job[t] = "cancelOwn" /\ Kind[t] # "latest"
       /\ Return(t, "error")
       /\ UNCHANGED <<latest, latestLock>>
    \/ /\ job[t] = "notify"
       /\ Return(t, IF ok THEN "ok" ELSE "error")
       /\ UNCHANGED <<latest, latestLock>>
    \/ /\ job[t] = "exit"
       /\ job' = [job EXCEPT ![t] = "retire"]
       /\ pc'  = [pc EXCEPT ![t] = "flag"]
       /\ UNCHANGED <<latest, latestLock, outcome>>
    \/ /\ job[t] = "retire"
       /\ pc' = [pc EXCEPT ![t] = "done"]
       /\ UNCHANGED <<job, latest, latestLock, outcome>>

CheckAlive(t) ==
    /\ pc[t] = "check"
    /\ IF alive THEN /\ pc' = [pc EXCEPT ![t] = "write"]
                     /\ UNCHANGED <<job, outcome, latest, latestLock>>
                ELSE AfterSend(t, FALSE)
    /\ UNCHANGED <<prev, chan, pending, alive, terminated,
                   serverVars, daemonVars, disp>>

Writable == ~terminated /\ stdinOpen

Write(t) ==
    /\ pc[t] = "write" /\ Writable
    /\ wire' = Append(wire, MessageOf(t))
    /\ AfterSend(t, TRUE)
    /\ UNCHANGED <<prev, chan, pending, alive, terminated,
                   stdinOpen, stdoutOpen, daemonVars, disp>>

WriteFails(t) ==
    /\ pc[t] = "write" /\ ~Writable
    /\ pc' = [pc EXCEPT ![t] = "flag"]
    /\ UNCHANGED <<job, prev, chan, outcome, clientVars, serverVars, daemonVars, disp>>

(* mark_dead(), then terminate_transport(). *)
FlagDead(t) ==
    /\ pc[t] = "flag"
    /\ alive' = FALSE
    /\ pc' = [pc EXCEPT ![t] = "clear"]
    /\ UNCHANGED <<job, prev, chan, outcome, pending, latest, latestLock, terminated,
                   serverVars, daemonVars, disp>>

ClearPending(t) ==
    /\ pc[t] = "clear"
    /\ pending' = {}
    /\ chan' = ClosedBy(pending)
    /\ pc' = [pc EXCEPT ![t] = "terminate"]
    /\ UNCHANGED <<job, prev, outcome, latest, latestLock, alive, terminated,
                   serverVars, daemonVars, disp>>

Terminate(t) ==
    /\ pc[t] = "terminate"
    /\ terminated' = TRUE
    /\ AfterSend(t, FALSE)
    /\ UNCHANGED <<prev, chan, pending, alive, serverVars, daemonVars, disp>>

(* The request was not delivered: its pending entry goes, the error is returned. *)
Forget(t) ==
    /\ pc[t] = "forget"
    /\ pending' = pending \ {t}
    /\ chan' = [chan EXCEPT ![t] = "dropped"]
    /\ Return(t, "error")
    /\ UNCHANGED <<prev, latest, latestLock, alive, terminated,
                   serverVars, daemonVars, disp>>

-----------------------------------------------------------------------------
(* Waiting for the response. *)

Answered(t) ==
    /\ pc[t] = "wait" /\ chan[t] = "value"
    /\ IF Kind[t] = "latest" THEN /\ pc' = [pc EXCEPT ![t] = "settle"]
                                  /\ UNCHANGED <<job, outcome>>
                             ELSE Return(t, "ok")
    /\ UNCHANGED <<prev, chan, clientVars, serverVars, daemonVars, disp>>

Dropped(t) ==
    /\ pc[t] = "wait" /\ chan[t] = "closed"
    /\ pending' = pending \ {t}
    /\ IF Kind[t] = "latest" THEN /\ pc' = [pc EXCEPT ![t] = "settle"]
                                  /\ UNCHANGED <<job, outcome>>
                             ELSE Return(t, "error")
    /\ UNCHANGED <<prev, chan, latest, latestLock, alive, terminated,
                   serverVars, daemonVars, disp>>

(* tokio's timeout polls the receiver first: it expires only on a channel
   that is still open, but an answer may arrive right after. *)
TimeoutPlainOnly(t) ==                                        \* mutant
    /\ pc[t] = "wait" /\ chan[t] = "open" /\ Kind[t] # "latest"
    /\ chan' = [chan EXCEPT ![t] = "dropped"]
    /\ pc' = [pc EXCEPT ![t] = "expired"]
    /\ UNCHANGED <<job, prev, outcome, clientVars, serverVars, daemonVars, disp>>
Timeout(t) ==
    /\ pc[t] = "wait" /\ chan[t] = "open"
    /\ chan' = [chan EXCEPT ![t] = "dropped"]
    /\ pc' = [pc EXCEPT ![t] = "expired"]
    /\ UNCHANGED <<job, prev, outcome, clientVars, serverVars, daemonVars, disp>>

CancelOwn(t) ==
    /\ pc[t] = "expired"
    /\ pending' = pending \ {t}
    /\ IF t \in pending
         THEN /\ pc'  = [pc EXCEPT ![t] = "check"]
              /\ job' = [job EXCEPT ![t] = "cancelOwn"]
              /\ UNCHANGED outcome
         ELSE IF Kind[t] = "latest" THEN /\ pc' = [pc EXCEPT ![t] = "settle"]
                                         /\ UNCHANGED <<job, outcome>>
                                    ELSE Return(t, "error")
    /\ UNCHANGED <<prev, chan, latest, latestLock, alive, terminated,
                   serverVars, daemonVars, disp>>

(* clear_latest_request, and what a "latest" call returns: a replaced call is
   silent unless it timed out. *)
Settle(t) ==
    /\ pc[t] = "settle" /\ latestLock = NoCall
    /\ latest' = IF OwnsKey(t) THEN [latest EXCEPT ![Key[t]] = NoCall] ELSE latest
    /\ Return(t, IF chan[t] = "dropped" THEN "error"
                 ELSE IF ~OwnsKey(t) THEN "superseded"
                 ELSE IF chan[t] = "value" THEN "ok" ELSE "error")
    /\ UNCHANGED <<prev, chan, pending, latestLock, alive, terminated,
                   serverVars, daemonVars, disp>>

-----------------------------------------------------------------------------
(* The dispatcher task and the server it reads from. *)

(* The server answers any request it has received, in any order and at any
   time; an answer whose pending entry is gone is read and ignored. *)
Deliver(t) ==
    /\ disp = "run" /\ stdoutOpen /\ Requested(t) /\ t \in pending
    /\ pending' = pending \ {t}
    /\ chan' = [chan EXCEPT ![t] = IF @ = "open" THEN "value" ELSE @]
    /\ UNCHANGED <<pc, job, prev, outcome, latest, latestLock, alive, terminated,
                   serverVars, daemonVars, disp>>

DispatcherFlagLater ==                                        \* mutant
    /\ disp = "run" /\ ~stdoutOpen
    /\ disp' = "clear"
    /\ UNCHANGED <<callVars, clientVars, serverVars, daemonVars>>
DispatcherFlagDead ==
    /\ disp = "run" /\ ~stdoutOpen
    /\ alive' = FALSE
    /\ disp' = "clear"
    /\ UNCHANGED <<callVars, pending, latest, latestLock, terminated,
                   serverVars, daemonVars>>

DispatcherClearPending ==
    /\ disp = "clear"
    /\ pending' = {}
    /\ chan' = ClosedBy(pending)
    /\ disp' = "terminate"
    /\ UNCHANGED <<pc, job, prev, outcome, latest, latestLock, alive, terminated,
                   serverVars, daemonVars>>

DispatcherTerminate ==
    /\ disp = "terminate"
    /\ terminated' = TRUE
    /\ disp' = "stopped"
    /\ UNCHANGED <<callVars, pending, latest, latestLock, alive,
                   serverVars, daemonVars>>

(* A server may crash, or close either stream first; a terminated one is reaped. *)
ServerClosesStdin ==
    /\ stdinOpen /\ stdinOpen' = FALSE
    /\ UNCHANGED <<callVars, clientVars, wire, stdoutOpen, daemonVars, disp>>

ServerClosesStdout ==
    /\ stdoutOpen /\ stdoutOpen' = FALSE
    /\ UNCHANGED <<callVars, clientVars, wire, stdinOpen, daemonVars, disp>>

-----------------------------------------------------------------------------
(* The tasks a barrier drops. *)
Aborted(t) == Active(t)

(* A lifecycle barrier of the daemon's loop (initialize or shutdown): every
   feature task is aborted at the await it is suspended in and joined, then
   the registry is taken away, or kept when the new configuration does not
   load.  A dropped task releases its lock and its receiver, but leaves its
   entries in pending and latest_requests.  A task between an alive check and
   the lock it takes next, or between a failed write and the pending map, is
   not suspended. *)
Barrier ==
    /\ barriers < MaxBarriers /\ ~retiring /\ LoopFree
    /\ \A t \in Calls : pc[t] \notin {"check", "flag"}
    /\ barriers' = barriers + 1
    /\ retiring' \in BOOLEAN
    /\ pc'      = [t \in Calls |-> IF Aborted(t) THEN "done" ELSE pc[t]]
    /\ outcome' = [t \in Calls |-> IF Aborted(t) THEN "aborted" ELSE outcome[t]]
    /\ chan'    = [t \in Calls |-> IF Aborted(t) /\ chan[t] # "none"
                                     THEN "dropped" ELSE chan[t]]
    /\ latestLock' = NoCall
    /\ UNCHANGED <<job, prev, pending, latest, alive, terminated, serverVars, disp>>

-----------------------------------------------------------------------------
Progress(t) ==
    \/ Insert(t) \/ LoseRace(t) \/ CancelPrevious(t)
    \/ CheckAlive(t) \/ Write(t) \/ WriteFails(t)
    \/ FlagDead(t) \/ ClearPending(t) \/ Terminate(t) \/ Forget(t)
    \/ Answered(t) \/ Dropped(t) \/ CancelOwn(t)
    \/ pc[t] = "begin" /\ BeginRequest(t)

TakesLatestLock(t) == YieldToNewer(t) \/ TakeKey(t) \/ Settle(t)

Dispatcher == DispatcherFlagDead \/ DispatcherClearPending \/ DispatcherTerminate

Next ==
    \/ \E t \in Calls :
          \/ BeginRequest(t) \/ BeginNotify(t) \/ BeginShutdown(t)
          \/ Insert(t) \/ YieldToNewer(t) \/ LoseRace(t) \/ TakeKey(t)
          \/ CancelPrevious(t) \/ CheckAlive(t) \/ Write(t) \/ WriteFails(t)
          \/ FlagDead(t) \/ ClearPending(t) \/ Terminate(t) \/ Forget(t)
          \/ Answered(t) \/ Dropped(t) \/ Timeout(t) \/ CancelOwn(t) \/ Settle(t)
          \/ Deliver(t)
    \/ DispatcherFlagDead \/ DispatcherClearPending \/ DispatcherTerminate
    \/ ServerClosesStdin \/ ServerClosesStdout
    \/ Barrier

Spec == Init /\ [][Next]_vars

(* The runtime polls every runnable task, and tokio's mutex hands the lock to
   its waiters in turn.  Nothing is assumed of the server except that a reaped
   process has no stdout; nothing is assumed of timeouts here. *)
Fairness ==
    /\ \A t \in Calls : WF_vars(Progress(t)) /\ SF_vars(TakesLatestLock(t))
    /\ WF_vars(Dispatcher)
    /\ WF_vars(terminated /\ ServerClosesStdout)

FairSpec  == Spec /\ Fairness
(* A timer that has been armed fires. *)
TimersFire == \A t \in Calls : WF_vars(Timeout(t))

-----------------------------------------------------------------------------
TypeOK ==
    /\ pc \in [Calls -> PCs]
    /\ job \in [Calls -> Jobs]
    /\ prev \in [Calls -> Calls \union {NoCall}]
    /\ chan \in [Calls -> {"none", "open", "value", "closed", "dropped"}]
    /\ outcome \in [Calls -> {"none", "ok", "error", "superseded", "aborted"}]
    /\ pending \subseteq Calls
    /\ latest \in [Keys -> Calls \union {NoCall}]
    /\ latestLock \in Calls \union {NoCall}
    /\ alive \in BOOLEAN /\ terminated \in BOOLEAN
    /\ wire \in Seq(Message)
    /\ disp \in {"run", "clear", "terminate", "stopped"}
    /\ stdinOpen \in BOOLEAN /\ stdoutOpen \in BOOLEAN
    /\ retiring \in BOOLEAN /\ barriers \in 0..MaxBarriers

(* The server never sees the cancellation of a request it has not seen
   (client.rs: "never cancel-before-send"): a cancelled id was requested
   earlier on the same stream. *)
CancelAfterRequest ==
    \A i \in 1..Len(wire) : wire[i].type = "cancel" =>
        \E j \in 1..(i - 1) : wire[j] = [type |-> "request", of |-> wire[i].of]

(* ... as long as no barrier has aborted a task. *)
CancelOrder == barriers = 0 => CancelAfterRequest

(* Some task has set alive to FALSE and is about to clear the pending map. *)
Clearing == disp = "clear" \/ \E t \in Calls : pc[t] = "clear"

(* No call waits, or is about to wait, on a registered channel that nobody
   will ever answer or close: the dispatcher is still reading for a client
   that is still alive, or somebody is going to clear the map. *)
NoStrandedWaiter ==
    \A t \in pending : pc[t] \in {"write", "wait"} =>
        (alive /\ disp = "run") \/ Clearing

(* A call returns silently (Ok(None), no reply to the editor) only because a
   request of the same key that the editor issued no earlier took its place. *)
SupersededByNewer ==
    \A t \in Calls : outcome[t] = "superseded" =>
        \E u \in Calls \ {t} :
            /\ Kind[u] = "latest" /\ Key[u] = Key[t] /\ SeqOf[u] >= SeqOf[t]
            /\ pc[u] \notin {"idle", "begin", "insert", "lock", "loseRace"}

(* Whatever mixture of answers, timeouts, failed writes and disconnects ended
   the calls, none of them leaves an entry behind in pending or in
   latest_requests.  (An aborted task does, until its client is dropped.) *)
NothingLeaks ==
    barriers = 0 /\ (\A t \in Calls : ~Active(t)) =>
        pending = {} /\ \A k \in Keys : latest[k] = NoCall

(* A handler gets the answer of a latest-wins request only while no later
   request of the same key has been written to the server. *)
AnswersAreCurrent ==
    [][\A t \in Calls :
         Kind[t] = "latest" /\ outcome[t] # "ok" /\ outcome'[t] = "ok" =>
            \A i, j \in 1..Len(wire) :
               (i < j /\ wire[i] = [type |-> "request", of |-> t]) =>
                  ~(/\ wire[j].type = "request"
                    /\ Kind[wire[j].of] = "latest"
                    /\ Key[wire[j].of] = Key[t])]_vars

(* A disconnect wakes every waiting call without the help of its timeout; and
   if timers fire, a call that got past its first check returns to its handler,
   whatever the server does. *)
EveryCallEnds ==
    /\ \A t \in Calls : (pc[t] = "wait" /\ ~alive) ~> (pc[t] = "done")
    /\ TimersFire => \A t \in Calls : Active(t) ~> (pc[t] = "done")
=============================================================================
