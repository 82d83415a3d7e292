------------------------------ MODULE Supervisor ------------------------------
(***************************************************************************)
(* The life of the simplecc-daemon process as the editor sees it: the      *)
(* supervisor (src/autoload/simplecc/core.vim) and the plugin's own        *)
(* Start, Stop and Restart on top of it (src/autoload/simplecc.vim).       *)
(*                                                                         *)
(* Vim runs one thing at a time: a command, a timer, a line of the daemon  *)
(* or the exit callback, each with every callback it calls; so each is one *)
(* action, and the state of the editor is one record that the functions    *)
(* below transform.  Asking for the status of a job that has ended runs    *)
(* its exit callback there and then (Reap), and lines that the daemon had  *)
(* written may be read after its exit.                                     *)
(*                                                                         *)
(* SimpleCC configures no handshake and calls Ensure and Stop only through *)
(* the plugin, so the handshake and core's own Restart are left out.       *)
(***************************************************************************)
EXTENDS Integers, Sequences

CONSTANTS
    Commands,     \* the commands the user gives: "start", "stop", ...
    AutoRestart,  \* g:simplecc_auto_restart
    MaxRestarts,  \* g:simplecc_max_restarts
    MaxCommands,  \* bound on the user's commands
    MaxCrashes    \* bound on spontaneous deaths of the daemon

ASSUME SupervisorAssumption ==
    /\ Commands \subseteq {"start", "stop", "restart", "install"}
    /\ AutoRestart \in BOOLEAN
    /\ MaxRestarts \in Nat \ {0}
    /\ {MaxCommands, MaxCrashes} \subseteq Nat

VARIABLES
    vim,          \* the editor's state, a record (see Init)
    daemon,       \* the current daemon process
    lines,        \* lines written by daemons and not read by Vim yet
    wanted,       \* "up" or "down": what the user's last accepted command asked
                  \* for; "ignored": "down", and a queued start came after it
    given,        \* commands given so far
    died          \* spontaneous deaths so far

vars == <<vim, daemon, lines, wanted, given, died>>

Init ==
    /\ vim = [gen |-> 0, job |-> "none", quitting |-> FALSE,   \* s_generation, s_job, core's s_stopping
              backoff |-> 0, kill |-> 0,                       \* armed timers, by generation
              crashes |-> 0, tripped |-> FALSE,                \* s_crash_times, s_tripped
              shutdown |-> FALSE,                              \* the pending shutdown request
              failed |-> FALSE,                                \* a start failed: s_last_error
              initialized |-> FALSE, initializing |-> FALSE,
              stopping |-> FALSE,                              \* the plugin's s_stopping
              restarting |-> FALSE,                            \* s_restart_pending
              starts |-> 0]                                    \* queued timer_start(0, Start)
    /\ daemon = [inbox |-> <<>>, signal |-> "none", served |-> FALSE, released |-> FALSE]
    /\ lines = <<>> /\ wanted = "down" /\ given = 0 /\ died = 0

-----------------------------------------------------------------------------
(* The supervisor.  A state is the record of the editor. *)

ClearBreaker(s) == [s EXCEPT !.crashes = 0, !.tripped = FALSE]

(* StopInternal(false, false); pending requests fail, which for the shutdown
   request means one more core#Stop(), to no further effect. *)
CoreStopTimerKept(s) ==                                       \* mutant
    IF s.job = "none"
      THEN [s EXCEPT !.shutdown = FALSE]
      ELSE [s EXCEPT !.shutdown = FALSE, !.quitting = TRUE, !.kill = s.gen]
CoreStop(s) ==
    IF s.job = "none"
      THEN [s EXCEPT !.backoff = 0, !.shutdown = FALSE]
      ELSE [s EXCEPT !.backoff = 0, !.shutdown = FALSE, !.quitting = TRUE, !.kill = s.gen]

(* OnDaemonExit, the plugin's part of an exit. *)
SessionLost(s) ==
    LET t == [s EXCEPT !.initialized = FALSE, !.initializing = FALSE,
                       !.stopping = FALSE, !.restarting = FALSE]
    IN  IF s.restarting THEN [ClearBreaker(t) EXCEPT !.starts = @ + 1] ELSE t

(* OnExit: an exit is expected after core#Stop(); any other is a crash, which
   is counted, unless the daemon was stable, and answered with a restart unless
   there were too many.  A shutdown request that fails with the exit calls
   core#Stop(), which vetoes the restart before it is scheduled. *)
ExitedSilently(s, stable) ==                                  \* mutant
    SessionLost([s EXCEPT !.job = "none", !.quitting = FALSE, !.kill = 0, !.shutdown = FALSE])
Exited(s, stable) ==
    LET forgiven == s.quitting \/ stable
        count == (IF forgiven THEN 0 ELSE s.crashes)
                   + (IF ~s.quitting /\ AutoRestart THEN 1 ELSE 0)
        again == ~s.quitting /\ AutoRestart /\ count <= MaxRestarts
    IN  SessionLost(
          [s EXCEPT !.job = "none", !.quitting = FALSE, !.kill = 0, !.shutdown = FALSE,
                    !.crashes = count,
                    !.tripped = (@ /\ ~forgiven) \/ (~s.quitting /\ AutoRestart /\ ~again),
                    !.backoff = IF s.shutdown THEN 0 ELSE IF again THEN s.gen ELSE @])

(* job_status() of a job that has ended. *)
Reap(s) == IF s.job = "dead" THEN {Exited(s, stable) : stable \in BOOLEAN} ELSE {s}

(* Ensure() with no daemon running.  The executable may be missing, or the
   spawn may fail after the generation was taken.  A start ends in
   OnDaemonReady, which sends `initialize`. *)
EnsureRegardless(s) ==                                        \* mutant
    {[s EXCEPT !.gen = @ + 1, !.job = "run", !.quitting = FALSE, !.failed = FALSE,
               !.initialized = FALSE, !.initializing = TRUE]}
Ensure(s) ==
    IF s.tripped
      THEN {s}
      ELSE {[s EXCEPT !.gen = @ + 1, !.job = "run", !.quitting = FALSE, !.failed = FALSE,
                      !.initialized = FALSE, !.initializing = TRUE],
            [s EXCEPT !.gen = @ + 1, !.failed = TRUE],
            [s EXCEPT !.failed = TRUE]}

-----------------------------------------------------------------------------
(* The plugin's commands. *)

Refused(s) == s.initialized \/ s.initializing \/ s.stopping
Start(s) ==
    IF Refused(s) THEN {s}
    ELSE UNION {IF r.job = "run" THEN {[r EXCEPT !.initializing = TRUE]} ELSE Ensure(r)
                : r \in Reap(s)}

(* Stop(): a running daemon is asked to shut its servers down first. *)
StopAtOnce(s, again) ==                                       \* mutant
    {CoreStop([r EXCEPT !.stopping = r.job = "run", !.restarting = again]) : r \in Reap(s)}
Stop(s, again) ==
    UNION {
      IF r.job = "run"
        THEN IF r.stopping THEN {r}
             ELSE {[r EXCEPT !.stopping = TRUE, !.initialized = FALSE,
                             !.initializing = FALSE, !.shutdown = TRUE]}
      ELSE IF again THEN Start([CoreStop(r) EXCEPT !.restarting = FALSE])
                    ELSE {CoreStop(r)}
      : r \in Reap([s EXCEPT !.restarting = again])}

Restart(s) ==
    UNION {IF r.job = "run" \/ r.stopping THEN Stop(r, TRUE) ELSE Start(r)
           : r \in Reap(ClearBreaker(s))}

(* InstallServer(): EnsureBackend(), whatever the plugin is doing. *)
Install(s) == UNION {IF r.job = "run" THEN {r} ELSE Ensure(r) : r \in Reap(s)}

(* What a step of the editor does to the daemon process: a new one is sent
   `initialize`, a running one what the step sent it, or a signal. *)
Send(s, m) == IF s.quitting THEN daemon.inbox ELSE Append(daemon.inbox, m)
Effect(s) ==
    daemon' =
      IF s.gen # vim.gen /\ s.job = "run"
        THEN [inbox |-> <<"initialize">>, signal |-> "none", served |-> FALSE, released |-> FALSE]
      ELSE IF s.job = "run" /\ s.shutdown /\ ~vim.shutdown
        THEN [daemon EXCEPT !.inbox = Send(s, "shutdown")]
      ELSE IF s.job = "run" /\ s.initializing /\ ~vim.initializing
        THEN [daemon EXCEPT !.inbox = Send(s, "initialize")]
      ELSE IF s.job = "run" /\ s.quitting /\ ~vim.quitting
        THEN [daemon EXCEPT !.signal = "term"]
      ELSE daemon

Becomes(s) == vim' = s /\ Effect(s)

Given(c) ==
    /\ c \in Commands /\ given < MaxCommands
    /\ given' = given + 1
    /\ UNCHANGED <<lines, died>>

StartCommand ==
    /\ Given("start") /\ wanted' = IF vim.stopping THEN wanted ELSE "up"
    /\ \E s \in Start(vim) : Becomes(s)

StopCommand ==
    /\ Given("stop") /\ wanted' = "down"
    /\ \E s \in Stop(vim, FALSE) : Becomes(s)

RestartCommand ==
    /\ Given("restart") /\ wanted' = "up"
    /\ \E s \in Restart(vim) : Becomes(s)

InstallCommand ==
    /\ Given("install")
    /\ wanted' = IF vim.stopping /\ vim.job = "run" THEN wanted ELSE "up"
    /\ \E s \in Install(vim) : Becomes(s)

-----------------------------------------------------------------------------
(* Timers. *)

BackoffTimer ==
    /\ vim.backoff # 0
    /\ LET s == [vim EXCEPT !.backoff = 0]
       IN  \E t \in IF vim.backoff = s.gen /\ ~s.quitting
                      THEN UNION {IF r.job = "run" THEN {r} ELSE Ensure(r) : r \in Reap(s)}
                      ELSE {s} : Becomes(t)
    /\ UNCHANGED <<lines, wanted, given, died>>

StartTimer ==
    /\ vim.starts > 0
    /\ \E s \in Start([vim EXCEPT !.starts = @ - 1]) :
          /\ Becomes(s)
          /\ wanted' = IF s.gen # vim.gen /\ wanted = "down" THEN "ignored" ELSE wanted
    /\ UNCHANGED <<lines, given, died>>

(* The shutdown request has a time limit of its own. *)
ShutdownTimer ==
    /\ vim.shutdown
    /\ vim' = CoreStop(vim)
    /\ daemon' = [daemon EXCEPT !.signal = IF vim.job = "run" THEN "term" ELSE @,
                                !.released = TRUE]
    /\ UNCHANGED <<lines, wanted, given, died>>

KillTimer ==
    /\ vim.kill # 0
    /\ \E s \in IF vim.kill = vim.gen THEN Reap([vim EXCEPT !.kill = 0])
                                      ELSE {[vim EXCEPT !.kill = 0]} :
          /\ vim' = s
          /\ daemon' = IF vim.kill = vim.gen /\ s.job = "run"
                         THEN [daemon EXCEPT !.signal = "kill"] ELSE daemon
    /\ UNCHANGED <<lines, wanted, given, died>>

(* A minute passes: the oldest crash leaves restart_window_ms. *)
WindowPasses ==
    /\ vim.crashes > 0
    /\ vim' = [vim EXCEPT !.crashes = @ - 1]
    /\ UNCHANGED <<daemon, lines, wanted, given, died>>

-----------------------------------------------------------------------------
(* The daemon's output. *)

FenceAnyGeneration(line) == ~vim.quitting                     \* mutant
Fence(line) == line.gen = vim.gen /\ ~vim.quitting

(* out_cb, and the three lines that matter here in OnBackendEvent. *)
ReadLine ==
    /\ lines # <<>>
    /\ lines' = Tail(lines)
    /\ LET line == Head(lines) IN
       IF ~Fence(line) THEN UNCHANGED <<vim, daemon>>
       ELSE CASE line.type = "initialized" ->
                   Becomes([vim EXCEPT !.initialized = TRUE, !.initializing = FALSE])
              [] line.type = "error" -> Becomes([vim EXCEPT !.initializing = FALSE])
              [] OTHER -> Becomes(IF vim.shutdown THEN CoreStop(vim) ELSE vim)
    /\ UNCHANGED <<wanted, given, died>>

ExitCallback ==
    /\ vim.job = "dead"
    /\ \E s \in Reap(vim) : Becomes(s)
    /\ UNCHANGED <<lines, wanted, given, died>>

-----------------------------------------------------------------------------
(* The daemon process. *)

Says(type) == lines' = Append(lines, [gen |-> vim.gen, type |-> type])

(* `initialize` may fail for want of a readable configuration. *)
ServeInitialize ==
    /\ vim.job = "run" /\ daemon.inbox # <<>> /\ Head(daemon.inbox) = "initialize"
    /\ \/ Says("initialized") /\ daemon' = [daemon EXCEPT !.inbox = Tail(@), !.served = TRUE]
       \/ Says("error") /\ daemon' = [daemon EXCEPT !.inbox = Tail(@)]
    /\ UNCHANGED <<vim, wanted, given, died>>

(* The language servers have been shut down. *)
ServeShutdown ==
    /\ vim.job = "run" /\ daemon.inbox # <<>> /\ Head(daemon.inbox) = "shutdown"
    /\ Says("shutdown")
    /\ daemon' = [daemon EXCEPT !.inbox = Tail(@), !.served = FALSE, !.released = TRUE]
    /\ UNCHANGED <<vim, wanted, given, died>>

DiesOfSignal ==
    /\ vim.job = "run" /\ daemon.signal # "none"
    /\ vim' = [vim EXCEPT !.job = "dead"]
    /\ UNCHANGED <<daemon, lines, wanted, given, died>>

Crashes ==
    /\ vim.job = "run" /\ died < MaxCrashes
    /\ died' = died + 1
    /\ vim' = [vim EXCEPT !.job = "dead"]
    /\ UNCHANGED <<daemon, lines, wanted, given>>

-----------------------------------------------------------------------------
Next ==
    \/ StartCommand \/ StopCommand \/ RestartCommand \/ InstallCommand
    \/ BackoffTimer \/ StartTimer \/ ShutdownTimer \/ KillTimer \/ WindowPasses
    \/ ReadLine \/ ExitCallback
    \/ ServeInitialize \/ ServeShutdown \/ DiesOfSignal \/ Crashes

Spec == Init /\ [][Next]_vars

(* Armed timers fire, Vim reads its channels and reaps its jobs, and a process
   that gets SIGKILL dies.  Nothing is assumed of a daemon's answers, nor that
   it heeds SIGTERM. *)
FairSpec ==
    /\ Spec
    /\ WF_vars(BackoffTimer) /\ WF_vars(StartTimer)
    /\ WF_vars(ShutdownTimer) /\ WF_vars(KillTimer)
    /\ WF_vars(ReadLine) /\ WF_vars(ExitCallback)
    /\ WF_vars(daemon.signal = "kill" /\ DiesOfSignal)

-----------------------------------------------------------------------------
TypeOK ==
    /\ vim \in [gen : Nat, job : {"none", "run", "dead"}, quitting : BOOLEAN,
                backoff : Nat, kill : Nat, crashes : Nat, tripped : BOOLEAN,
                shutdown : BOOLEAN, failed : BOOLEAN,
                initialized : BOOLEAN, initializing : BOOLEAN,
                stopping : BOOLEAN, restarting : BOOLEAN, starts : Nat]
    /\ daemon \in [inbox : Seq({"initialize", "shutdown"}), signal : {"none", "term", "kill"},
                   served : BOOLEAN, released : BOOLEAN]
    /\ lines \in Seq([gen : Nat, type : {"initialized", "error", "shutdown"}])
    /\ wanted \in {"up", "down", "ignored"}
    /\ given \in 0..MaxCommands /\ died \in 0..MaxCrashes
    /\ vim.tripped => vim.job = "none"

(* The session the plugin believes in is the one of the process that runs: the
   daemon that is running has served this very initialize. *)
SessionIsCurrent ==
    vim.initialized /\ vim.job = "run" /\ ~vim.stopping => daemon.served

(* The daemon is signalled only after it has shut its language servers down or
   has had its time to do so (simplecc.vim: "killing the daemon before it
   acknowledges orphans every rust-analyzer and gopls it started"). *)
ShutdownFirst == vim.job = "run" /\ daemon.signal # "none" => daemon.released

(* No crash, back-off timer, late line or exit starts a daemon that the user
   stopped. *)
StopStays == [][vim'.job = "run" /\ vim'.gen # vim.gen => wanted' # "down"]_vars

(* :SimpleCCStop cancels every restart under way or queued. *)
StopIsFinal == wanted # "ignored"

(* No daemon and nothing queued, and yet a flag of the dead session is left
   that makes Start() refuse. *)
Wedged == vim.job = "none" /\ vim.backoff = 0 /\ vim.starts = 0 /\ Refused(vim)

(* With no daemon and nothing queued, the user can start one. *)
CanStart == ~Wedged

(* A daemon that dies comes back, unless the user asked it to stop, it keeps
   crashing, it cannot be started, or a late line wedged the plugin (for which
   see CanStart). *)
CrashRecovers ==
    (vim.job = "dead" /\ wanted = "up") ~>
        (vim.job = "run" \/ vim.tripped \/ vim.failed \/ wanted = "down" \/ Wedged)
=============================================================================
