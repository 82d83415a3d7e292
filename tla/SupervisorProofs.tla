--------------------------- MODULE SupervisorProofs ---------------------------
(***************************************************************************)
(* Proofs about Supervisor, for any number of commands, crashes and        *)
(* restarts.                                                               *)
(***************************************************************************)
EXTENDS Supervisor, TLAPS

\* The states of the editor.
Editor == [gen : Nat, job : {"none", "run", "dead"}, quitting : BOOLEAN,
           backoff : Nat, kill : Nat, crashes : Nat, tripped : BOOLEAN,
           shutdown : BOOLEAN, failed : BOOLEAN,
           initialized : BOOLEAN, initializing : BOOLEAN,
           stopping : BOOLEAN, restarting : BOOLEAN, starts : Nat]

\* What the supervisor's fields say of each other between any two steps.  A running
\* daemon is the newest generation, so a back-off timer armed before it is stale;
\* the kill timer and the fence belong to a daemon that has been stopped; a
\* plugin that is stopping waits for its shutdown request or for the exit.
Sound(s) ==
  /\ s \in Editor
  /\ s.tripped => s.job = "none"
  /\ s.quitting => s.job # "none"
  /\ s.kill # 0 => s.quitting
  /\ s.backoff <= s.gen
  /\ s.job # "none" => s.backoff < s.gen
  /\ s.stopping => s.job # "none" /\ (s.shutdown \/ s.quitting)
  /\ s.shutdown => s.stopping

\* Nothing in s brings a stopped daemon back.
Down(s) == IF s.job = "none" THEN s.backoff = 0 \/ s.backoff < s.gen ELSE s.stopping

-----------------------------------------------------------------------------
(* The functions on the editor's state.                                    *)

\* core#Stop(): the timers of a start go, and a daemon is told to quit.
LEMMA CoreStopped ==
  ASSUME NEW s, s \in Editor
  PROVE  LET t == CoreStop(s)
         IN  /\ t \in Editor /\ t.gen = s.gen /\ t.job = s.job /\ t.backoff = 0
             /\ t.tripped = s.tripped /\ t.stopping = s.stopping
             /\ t.initialized = s.initialized /\ t.initializing = s.initializing
             /\ ~t.shutdown /\ t.starts = s.starts /\ t.failed = s.failed
             /\ t.restarting = s.restarting
             /\ s.job = "none" => t.quitting = s.quitting /\ t.kill = s.kill
             /\ s.job # "none" => t.quitting
  BY DEF CoreStop, Editor

\* OnDaemonExit() forgets the session.
LEMMA Lost ==
  ASSUME NEW s, s \in Editor
  PROVE  LET t == SessionLost(s)
         IN  /\ t \in Editor /\ t.gen = s.gen /\ t.job = s.job /\ t.backoff = s.backoff
             /\ t.quitting = s.quitting /\ t.kill = s.kill /\ t.shutdown = s.shutdown
             /\ ~t.initialized /\ ~t.initializing /\ ~t.stopping /\ ~t.restarting
             /\ t.tripped \in BOOLEAN
  <1> DEFINE r == [s EXCEPT !.initialized = FALSE, !.initializing = FALSE,
                            !.stopping = FALSE, !.restarting = FALSE]
             q == [[r EXCEPT !.crashes = 0, !.tripped = FALSE] EXCEPT !.starts = @ + 1]
  <1>1. /\ r \in Editor /\ r.gen = s.gen /\ r.job = s.job /\ r.backoff = s.backoff
        /\ r.quitting = s.quitting /\ r.kill = s.kill /\ r.shutdown = s.shutdown
        /\ ~r.initialized /\ ~r.initializing /\ ~r.stopping /\ ~r.restarting
    BY DEF Editor
  <1>2. SessionLost(s) \in {q, r}
    BY DEF SessionLost, ClearBreaker
  <1> HIDE DEF r
  <1>3. q \in Editor
    <2>1. \A n \in Nat : [[r EXCEPT !.crashes = 0, !.tripped = FALSE] EXCEPT !.starts = n] \in Editor
      BY <1>1 DEF Editor
    <2>2. q = [[r EXCEPT !.crashes = 0, !.tripped = FALSE] EXCEPT !.starts = r.starts + 1]
          /\ r.starts + 1 \in Nat
      BY <1>1 DEF Editor
    <2> QED
      BY <2>1, <2>2
  <1>4. /\ q.gen = s.gen /\ q.job = s.job /\ q.backoff = s.backoff
        /\ q.quitting = s.quitting /\ q.kill = s.kill /\ q.shutdown = s.shutdown
        /\ ~q.initialized /\ ~q.initializing /\ ~q.stopping /\ ~q.restarting
    BY <1>1 DEF Editor
  <1> HIDE DEF q
  <1>5. q.tripped \in BOOLEAN /\ r.tripped \in BOOLEAN
    BY <1>1, <1>3 DEF Editor
  <1> QED
    BY <1>1, <1>2, <1>3, <1>4, <1>5

\* OnExit(): a restart is scheduled only for a daemon nobody stopped.
LEMMA ExitedTo ==
  ASSUME NEW s, s \in Editor, NEW stable \in BOOLEAN
  PROVE  LET t == Exited(s, stable)
         IN  /\ t \in Editor /\ t.gen = s.gen /\ t.job = "none"
             /\ ~t.quitting /\ t.kill = 0 /\ ~t.shutdown
             /\ ~t.initialized /\ ~t.initializing /\ ~t.stopping /\ ~t.restarting
             /\ \/ t.backoff \in {0, s.backoff}
                \/ t.backoff = s.gen /\ ~s.shutdown /\ ~s.quitting
  <1> DEFINE forgiven == s.quitting \/ stable
             count == (IF forgiven THEN 0 ELSE s.crashes)
                        + (IF ~s.quitting /\ AutoRestart THEN 1 ELSE 0)
             again == ~s.quitting /\ AutoRestart /\ count <= MaxRestarts
             trip == (s.tripped /\ ~forgiven) \/ (~s.quitting /\ AutoRestart /\ ~again)
             timer == IF s.shutdown THEN 0 ELSE IF again THEN s.gen ELSE s.backoff
             r == [s EXCEPT !.job = "none", !.quitting = FALSE, !.kill = 0, !.shutdown = FALSE,
                            !.crashes = count, !.tripped = trip, !.backoff = timer]
  <1>1. Exited(s, stable) = SessionLost(r)
    BY DEF Exited
  <1>2. count \in Nat
    BY DEF Editor
  <1>3. trip \in BOOLEAN
    BY DEF Editor
  <1>4. timer \in Nat /\ (timer \in {0, s.backoff} \/ (timer = s.gen /\ ~s.shutdown /\ ~s.quitting))
    BY DEF Editor
  <1> HIDE DEF count, trip, timer
  <1>5. /\ r \in Editor /\ r.gen = s.gen /\ r.job = "none" /\ r.backoff = timer
        /\ ~r.quitting /\ r.kill = 0 /\ ~r.shutdown
    BY <1>2, <1>3, <1>4 DEF Editor
  <1> HIDE DEF r
  <1> QED
    BY <1>1, <1>4, <1>5, Lost

\* job_status(): nothing happens to a job that runs or was never started; one that has
\* ended is gone afterwards.
LEMMA Reaped ==
  ASSUME NEW s, Sound(s), NEW r, r \in Reap(s)
  PROVE  /\ Sound(r) /\ r.gen = s.gen /\ r.job # "dead"
         /\ s.job # "dead" => r = s
         /\ s.job = "dead" => r.job = "none"
         /\ Down(s) => Down(r)
  <1>1. CASE s.job # "dead"
    <2>1. r = s
      BY <1>1 DEF Reap
    <2> QED
      BY <1>1, <2>1
  <1>2. CASE s.job = "dead"
    <2>1. PICK stable \in BOOLEAN : r = Exited(s, stable)
      BY <1>2 DEF Reap
    <2>2. /\ r \in Editor /\ r.gen = s.gen /\ r.job = "none"
          /\ ~r.quitting /\ r.kill = 0 /\ ~r.shutdown /\ ~r.stopping
          /\ \/ r.backoff \in {0, s.backoff}
             \/ r.backoff = s.gen /\ ~s.shutdown /\ ~s.quitting
      BY <2>1, ExitedTo DEF Sound
    <2>3. /\ s.gen \in Nat /\ s.backoff \in Nat /\ s.backoff < s.gen
          /\ s.stopping => s.shutdown \/ s.quitting
      BY <1>2 DEF Sound, Editor
    <2>4. Sound(r)
      BY <2>2, <2>3 DEF Sound
    <2>5. Down(s) => Down(r)
      BY <1>2, <2>2, <2>3 DEF Down
    <2> QED
      BY <1>2, <2>2, <2>4, <2>5
  <1> QED
    BY <1>1, <1>2

\* How a function of the editor leaves the daemon: the same one runs on, a new one
\* runs, or none does.
Continues(s, t) ==
  /\ s.job = "run" /\ t.job = "run" /\ t.gen = s.gen /\ t.quitting = s.quitting
  /\ t.initialized => s.initialized
  /\ s.stopping => t.stopping
Launches(s, t) ==
  /\ s.job # "run" /\ t.job = "run" /\ t.gen > s.gen
  /\ ~t.quitting /\ ~t.initialized
Halts(s, t) == t.job # "run" /\ t.gen >= s.gen

Leads(s, t) == Sound(t) /\ (Continues(s, t) \/ Launches(s, t) \/ Halts(s, t))

\* Ensure() with no daemon running: a new one, or a failed start.
LEMMA Ensured ==
  ASSUME NEW s, Sound(s), s.job = "none", NEW t, t \in Ensure(s)
  PROVE  Leads(s, t) /\ (Down(s) /\ t.job # "run" => Down(t)) /\ t.job # "dead"
  <1>0. s \in Editor /\ s.gen \in Nat /\ s.backoff \in Nat /\ ~s.quitting /\ s.kill = 0 /\ ~s.stopping /\ ~s.shutdown
        /\ s.backoff <= s.gen
    BY DEF Sound, Editor
  <1>1. CASE t = s
    BY <1>0, <1>1 DEF Leads, Halts
  <1>2. CASE t = [s EXCEPT !.failed = TRUE] \/ t = [s EXCEPT !.gen = @ + 1, !.failed = TRUE]
    <2>1. /\ t \in Editor /\ t.gen \in {s.gen, s.gen + 1} /\ t.job = "none" /\ t.backoff = s.backoff
          /\ t.quitting = s.quitting /\ t.kill = s.kill /\ t.stopping = s.stopping /\ t.shutdown = s.shutdown
      <3>1. CASE t = [s EXCEPT !.failed = TRUE]
        <4>1. t \in Editor
          BY <1>0, <3>1 DEF Editor
        <4> QED
          BY <1>0, <3>1, <4>1 DEF Editor
      <3>2. CASE t = [s EXCEPT !.gen = @ + 1, !.failed = TRUE]
        <4>1. t \in Editor
          <5>1. \A n \in Nat : [s EXCEPT !.gen = n, !.failed = TRUE] \in Editor
            BY <1>0 DEF Editor
          <5>2. t = [s EXCEPT !.gen = s.gen + 1, !.failed = TRUE] /\ s.gen + 1 \in Nat
            BY <1>0, <3>2
          <5> QED
            BY <5>1, <5>2
        <4> QED
          BY <1>0, <3>2, <4>1 DEF Editor
      <3> QED
        BY <1>2, <3>1, <3>2
    <2>2. Sound(t)
      BY <1>0, <2>1 DEF Sound
    <2>3. Halts(s, t) /\ (Down(s) => Down(t))
      BY <1>0, <2>1 DEF Halts, Down
    <2> QED
      BY <2>1, <2>2, <2>3 DEF Leads
  <1>3. CASE ~s.tripped /\ t = [s EXCEPT !.gen = @ + 1, !.job = "run", !.quitting = FALSE,
                                          !.failed = FALSE, !.initialized = FALSE, !.initializing = TRUE]
    <2>1. /\ t \in Editor /\ t.gen = s.gen + 1 /\ t.job = "run" /\ t.backoff = s.backoff
          /\ ~t.quitting /\ t.kill = s.kill /\ t.stopping = s.stopping /\ t.shutdown = s.shutdown
          /\ t.tripped = s.tripped /\ ~t.initialized
      <3>1. t \in Editor
        <4>1. \A n \in Nat : [s EXCEPT !.gen = n, !.job = "run", !.quitting = FALSE, !.failed = FALSE,
                                       !.initialized = FALSE, !.initializing = TRUE] \in Editor
          BY <1>0 DEF Editor
        <4>2. t = [s EXCEPT !.gen = s.gen + 1, !.job = "run", !.quitting = FALSE, !.failed = FALSE,
                            !.initialized = FALSE, !.initializing = TRUE] /\ s.gen + 1 \in Nat
          BY <1>0, <1>3
        <4> QED
          BY <4>1, <4>2
      <3> QED
        BY <1>0, <1>3, <3>1 DEF Editor
    <2>2. Sound(t)
      BY <1>0, <1>3, <2>1 DEF Sound
    <2>3. Launches(s, t)
      BY <1>0, <2>1 DEF Launches
    <2> QED
      BY <2>1, <2>2, <2>3 DEF Leads
  <1> QED
    BY <1>1, <1>2, <1>3 DEF Ensure

\* Asking for the job first does not change where a function leads.
LEMMA ReapLeads ==
  ASSUME NEW s, Sound(s), NEW r, r \in Reap(s), NEW t, Leads(r, t)
  PROVE  Leads(s, t)
  BY Reaped DEF Leads, Continues, Launches, Halts

\* Only flags of the commands change.
LEMMA Relabelled ==
  ASSUME NEW s, Sound(s), NEW b \in BOOLEAN
  PROVE  /\ Sound([s EXCEPT !.restarting = b]) /\ Leads(s, [s EXCEPT !.restarting = b])
         /\ Sound(ClearBreaker(s)) /\ Leads(s, ClearBreaker(s))
         /\ Down(s) => Down([s EXCEPT !.restarting = b]) /\ Down(ClearBreaker(s))
  <1>1. ASSUME NEW t, t = [s EXCEPT !.restarting = b] \/ t = ClearBreaker(s)
        PROVE  Sound(t) /\ Leads(s, t) /\ (Down(s) => Down(t))
    <2>1. /\ t \in Editor /\ t.gen = s.gen /\ t.job = s.job /\ t.backoff = s.backoff
          /\ t.quitting = s.quitting /\ t.kill = s.kill /\ t.shutdown = s.shutdown
          /\ t.initialized = s.initialized /\ t.stopping = s.stopping
          /\ t.tripped => s.tripped
      <3>1. CASE t = [s EXCEPT !.restarting = b]
        BY <3>1 DEF Sound, Editor
      <3>2. CASE t = ClearBreaker(s)
        BY <3>2 DEF Sound, Editor, ClearBreaker
      <3> QED
        BY <1>1, <3>1, <3>2
    <2>2. Sound(t)
      BY <2>1 DEF Sound
    <2>3. Continues(s, t) \/ Halts(s, t)
      BY <2>1 DEF Continues, Halts, Editor, Sound
    <2> QED
      BY <2>1, <2>2, <2>3 DEF Leads, Down
  <1> QED
    BY <1>1

\* Start(): refused while a session is up, coming up or going down.
LEMMA Started ==
  ASSUME NEW s, Sound(s), NEW t, t \in Start(s)
  PROVE  /\ Leads(s, t)
         /\ Refused(s) => t = s
         /\ Down(s) /\ ~Launches(s, t) => Down(t)
  <1>1. CASE Refused(s)
    <2>1. t = s
      BY <1>1 DEF Start
    <2> QED
      BY <2>1 DEF Leads, Continues, Halts, Sound, Editor
  <1>2. CASE ~Refused(s)
    <2>1. PICK r \in Reap(s) : t \in IF r.job = "run" THEN {[r EXCEPT !.initializing = TRUE]} ELSE Ensure(r)
      BY <1>2 DEF Start
    <2>2. CASE r.job = "run"
      <3>1. r = s
        BY <2>2, Reaped
      <3>2. t = [s EXCEPT !.initializing = TRUE]
        BY <2>1, <2>2, <3>1
      <3>3. /\ t \in Editor /\ t.gen = s.gen /\ t.job = s.job /\ t.backoff = s.backoff
            /\ t.quitting = s.quitting /\ t.kill = s.kill /\ t.shutdown = s.shutdown
            /\ t.initialized = s.initialized /\ t.stopping = s.stopping /\ t.tripped = s.tripped
        BY <3>2 DEF Sound, Editor
      <3>4. Sound(t) /\ Continues(s, t)
        BY <2>2, <3>1, <3>3 DEF Sound, Continues
      <3> QED
        BY <1>2, <3>3, <3>4 DEF Leads, Down
    <2>3. CASE r.job # "run"
      <3>1. Sound(r) /\ r.job = "none" /\ t \in Ensure(r)
        BY <2>1, <2>3, Reaped DEF Sound, Editor
      <3>2. Leads(r, t) /\ (Down(r) /\ t.job # "run" => Down(t))
        BY <3>1, Ensured
      <3>3. Leads(s, t)
        BY <3>2, ReapLeads
      <3>4. ~Launches(s, t) => t.job # "run"
        <4>1. s.job # "run"
          BY <2>3, Reaped
        <4> QED
          BY <3>3, <4>1 DEF Leads, Continues, Halts
      <3> QED
        BY <1>2, <3>2, <3>3, <3>4, Reaped
    <2> QED
      BY <2>2, <2>3
  <1> QED
    BY <1>1, <1>2

\* Stop() leaves nothing that brings the daemon back, unless it is to start again.
LEMMA Stopped ==
  ASSUME NEW s, Sound(s), NEW again \in BOOLEAN, NEW t, t \in Stop(s, again)
  PROVE  /\ Leads(s, t)
         /\ ~again => Down(t) /\ ~Launches(s, t)
  <1> DEFINE m == [s EXCEPT !.restarting = again]
  <1>1. Sound(m) /\ Leads(s, m) /\ m.job = s.job /\ m.gen = s.gen /\ m.quitting = s.quitting
        /\ m.initialized = s.initialized /\ m.stopping = s.stopping
    BY Relabelled DEF Sound, Editor
  <1>2. PICK r \in Reap(m) :
           t \in IF r.job = "run"
                   THEN IF r.stopping THEN {r}
                        ELSE {[r EXCEPT !.stopping = TRUE, !.initialized = FALSE,
                                        !.initializing = FALSE, !.shutdown = TRUE]}
                 ELSE IF again THEN Start([CoreStop(r) EXCEPT !.restarting = FALSE])
                               ELSE {CoreStop(r)}
    BY DEF Stop
  <1> HIDE DEF m
  <1>3. Sound(r) /\ r.gen = m.gen /\ r.job # "dead" /\ (m.job # "dead" => r = m)
        /\ (m.job = "dead" => r.job = "none")
    BY <1>1, Reaped
  <1>4. ASSUME Leads(r, t) PROVE Leads(s, t)
    <2>1. Leads(m, t)
      BY <1>1, <1>4, ReapLeads
    <2> QED
      BY <1>1, <2>1 DEF Leads, Continues, Launches, Halts
  <1>5. CASE r.job = "run"
    <2>0. r = m /\ s.job = "run"
      BY <1>1, <1>3, <1>5
    <2>1. CASE r.stopping
      <3>1. t = r
        BY <1>2, <1>5, <2>1
      <3> QED
        BY <1>1, <1>5, <2>0, <2>1, <3>1 DEF Leads, Continues, Launches, Down
    <2>2. CASE ~r.stopping
      <3>1. t = [r EXCEPT !.stopping = TRUE, !.initialized = FALSE,
                          !.initializing = FALSE, !.shutdown = TRUE]
        BY <1>2, <1>5, <2>2
      <3>2. /\ t \in Editor /\ t.gen = r.gen /\ t.job = r.job /\ t.backoff = r.backoff
            /\ t.quitting = r.quitting /\ t.kill = r.kill /\ t.shutdown
            /\ ~t.initialized /\ t.stopping /\ t.tripped = r.tripped
        BY <1>3, <3>1 DEF Sound, Editor
      <3>3. Sound(t)
        BY <1>3, <1>5, <3>2 DEF Sound
      <3>4. Continues(r, t)
        BY <1>5, <3>2 DEF Continues
      <3> QED
        BY <1>4, <1>5, <2>0, <3>2, <3>3, <3>4 DEF Leads, Launches, Down
    <2> QED
      BY <2>1, <2>2
  <1>6. CASE r.job # "run"
    <2>1. r.job = "none" /\ r \in Editor /\ ~r.stopping /\ ~r.quitting /\ r.kill = 0 /\ s.job # "run"
      BY <1>1, <1>3, <1>6 DEF Sound, Editor
    <2> DEFINE c == CoreStop(r)
    <2>2. /\ c \in Editor /\ c.gen = r.gen /\ c.job = "none" /\ c.backoff = 0
          /\ c.tripped = r.tripped /\ ~c.stopping /\ ~c.shutdown
          /\ ~c.quitting /\ c.kill = 0
      BY <2>1, CoreStopped
    <2> HIDE DEF c
    <2>3. Sound(c) /\ Halts(r, c) /\ Down(c)
      BY <2>1, <2>2 DEF Sound, Halts, Down, Editor
    <2>4. CASE ~again
      <3>1. t = c
        BY <1>2, <1>6, <2>4 DEF c
      <3> QED
        BY <1>4, <2>2, <2>3, <2>4, <3>1 DEF Leads, Launches
    <2>5. CASE again
      <3> DEFINE d == [c EXCEPT !.restarting = FALSE]
      <3>1. t \in Start(d)
        BY <1>2, <1>6, <2>5 DEF c
      <3>2. Sound(d) /\ d.gen = c.gen /\ d.job = c.job
        BY <2>3, Relabelled DEF Sound, Editor
      <3> HIDE DEF d
      <3>3. Leads(d, t)
        BY <3>1, <3>2, Started
      <3>4. Leads(r, t)
        BY <1>6, <2>2, <3>2, <3>3 DEF Leads, Continues, Launches, Halts
      <3> QED
        BY <1>4, <2>5, <3>4
    <2> QED
      BY <2>4, <2>5
  <1> QED
    BY <1>5, <1>6

\* Restart() is a start or a stop that will start again.
LEMMA Restarted ==
  ASSUME NEW s, Sound(s), NEW t, t \in Restart(s)
  PROVE  Leads(s, t)
  <1> DEFINE c == ClearBreaker(s)
  <1>1. Sound(c) /\ c.gen = s.gen /\ c.job = s.job /\ c.quitting = s.quitting
        /\ c.initialized = s.initialized /\ c.stopping = s.stopping
    <2>1. Sound(c)
      BY Relabelled
    <2>2. s \in Editor
      BY DEF Sound
    <2> QED
      BY <2>1, <2>2 DEF Editor, ClearBreaker
  <1>2. PICK r \in Reap(c) : t \in IF r.job = "run" \/ r.stopping THEN Stop(r, TRUE) ELSE Start(r)
    BY DEF Restart
  <1> HIDE DEF c
  <1>3. Sound(r)
    BY <1>1, Reaped
  <1>4. Leads(r, t)
    BY <1>2, <1>3, Started, Stopped
  <1>5. Leads(c, t)
    BY <1>1, <1>4, ReapLeads
  <1> QED
    BY <1>1, <1>5 DEF Leads, Continues, Launches, Halts

\* Ensure() from anywhere: EnsureBackend() of an installation, and the back-off timer.
LEMMA EnsuredFrom ==
  ASSUME NEW s, Sound(s), NEW t, t \in UNION {IF r.job = "run" THEN {r} ELSE Ensure(r) : r \in Reap(s)}
  PROVE  /\ Leads(s, t)
         /\ s.job = "run" => t = s
         /\ Down(s) /\ ~Launches(s, t) => Down(t)
  <1>1. PICK r \in Reap(s) : t \in IF r.job = "run" THEN {r} ELSE Ensure(r)
    OBVIOUS
  <1>2. CASE r.job = "run"
    <2>1. r = s /\ t = s
      BY <1>1, <1>2, Reaped
    <2> QED
      BY <1>2, <2>1 DEF Leads, Continues
  <1>3. CASE r.job # "run"
    <2>1. Sound(r) /\ r.job = "none" /\ t \in Ensure(r) /\ s.job # "run"
      BY <1>1, <1>3, Reaped DEF Sound, Editor
    <2>2. Leads(r, t) /\ (Down(r) /\ t.job # "run" => Down(t))
      BY <2>1, Ensured
    <2>3. Leads(s, t)
      BY <2>2, ReapLeads
    <2> QED
      BY <2>1, <2>2, <2>3, Reaped DEF Leads, Continues, Halts
  <1> QED
    BY <1>2, <1>3

-----------------------------------------------------------------------------
(* The editor, the daemon and what is between them.                        *)

\* The daemon processes, and the lines they write.
Daemons == [inbox : Seq({"initialize", "shutdown"}), signal : {"none", "term", "kill"},
            served : BOOLEAN, released : BOOLEAN]
Lines   == [gen : Nat, type : {"initialized", "error", "shutdown"}]

\* TypeOK without the editor.
Types ==
  /\ daemon \in Daemons /\ lines \in Seq(Lines)
  /\ wanted \in {"up", "down", "ignored"}
  /\ given \in 0..MaxCommands /\ died \in 0..MaxCrashes

\* The running daemon has said so, and Vim has not read it yet.
Heard(type) == \E i \in 1..Len(lines) : lines[i].gen = vim.gen /\ lines[i].type = type

\* A shutdown request is on its way to the daemon.
Asked == \E i \in 1..Len(daemon.inbox) : daemon.inbox[i] = "shutdown"

\* No line is of a generation to come, and what the editor knows of the running
\* daemon is true of it: its session, that it is shutting down, that it has
\* let its language servers go.
Serving ==
  /\ \A i \in 1..Len(lines) : lines[i].gen <= vim.gen
  /\ vim.job = "run" =>
       /\ (vim.initialized \/ Heard("initialized")) /\ ~vim.stopping => daemon.served
       /\ Asked => vim.stopping
       /\ Heard("shutdown") \/ vim.quitting \/ daemon.signal # "none" => daemon.released

\* The inductive invariant.
Inv == Sound(vim) /\ Types /\ Serving /\ (wanted = "down" => Down(vim))

\* A back-off timer that has been cleared, a kill timer that has fired, a crash that is
\* forgotten, a queued start that runs.
LEMMA Ticked ==
  ASSUME NEW s, Sound(s), NEW t,
         \/ t = [s EXCEPT !.backoff = 0] \/ t = [s EXCEPT !.kill = 0]
         \/ s.crashes > 0 /\ t = [s EXCEPT !.crashes = @ - 1]
         \/ s.starts > 0 /\ t = [s EXCEPT !.starts = @ - 1]
  PROVE  /\ Sound(t) /\ t.gen = s.gen /\ t.job = s.job /\ t.quitting = s.quitting
         /\ t.initialized = s.initialized /\ t.stopping = s.stopping /\ t.shutdown = s.shutdown
         /\ t.initializing = s.initializing
         /\ Down(s) => Down(t)
  <1>0. s \in Editor
    BY DEF Sound
  <1>1. /\ t \in Editor /\ t.gen = s.gen /\ t.job = s.job /\ t.quitting = s.quitting
        /\ t.initialized = s.initialized /\ t.stopping = s.stopping /\ t.shutdown = s.shutdown
        /\ t.initializing = s.initializing /\ t.tripped = s.tripped
        /\ t.backoff \in {0, s.backoff} /\ t.kill \in {0, s.kill}
    <2>1. CASE t = [s EXCEPT !.backoff = 0]
      BY <1>0, <2>1 DEF Editor
    <2>2. CASE t = [s EXCEPT !.kill = 0]
      BY <1>0, <2>2 DEF Editor
    <2>3. CASE s.crashes > 0 /\ t = [s EXCEPT !.crashes = @ - 1]
      <3>1. s.crashes - 1 \in Nat /\ t = [s EXCEPT !.crashes = s.crashes - 1]
        BY <1>0, <2>3 DEF Editor
      <3>2. \A n \in Nat : [s EXCEPT !.crashes = n] \in Editor
        BY <1>0 DEF Editor
      <3>3. t \in Editor
        BY <3>1, <3>2
      <3> QED
        BY <1>0, <2>3, <3>3 DEF Editor
    <2>4. CASE s.starts > 0 /\ t = [s EXCEPT !.starts = @ - 1]
      <3>1. s.starts - 1 \in Nat /\ t = [s EXCEPT !.starts = s.starts - 1]
        BY <1>0, <2>4 DEF Editor
      <3>2. \A n \in Nat : [s EXCEPT !.starts = n] \in Editor
        BY <1>0 DEF Editor
      <3>3. t \in Editor
        BY <3>1, <3>2
      <3> QED
        BY <1>0, <2>4, <3>3 DEF Editor
    <2> QED
      BY <2>1, <2>2, <2>3, <2>4
  <1>2. s.gen \in Nat /\ s.backoff \in Nat
    BY <1>0 DEF Editor
  <1>3. Sound(t)
    BY <1>1, <1>2 DEF Sound
  <1> QED
    BY <1>1, <1>2, <1>3 DEF Down

\* core#Stop() keeps the editor sound, and a stopped daemon stopped.
LEMMA CoreStopSound ==
  ASSUME NEW s, Sound(s)
  PROVE  Sound(CoreStop(s)) /\ (Down(s) => Down(CoreStop(s)))
  <1> DEFINE t == CoreStop(s)
  <1>1. /\ t \in Editor /\ t.gen = s.gen /\ t.job = s.job /\ t.backoff = 0
        /\ t.tripped = s.tripped /\ t.stopping = s.stopping /\ ~t.shutdown
        /\ s.job = "none" => t.quitting = s.quitting /\ t.kill = s.kill
        /\ s.job # "none" => t.quitting
    BY CoreStopped DEF Sound
  <1> HIDE DEF t
  <1>2. s.job \in {"none", "run", "dead"} /\ s.gen \in Nat /\ s.backoff \in Nat
    BY DEF Sound, Editor
  <1>3. Sound(t)
    BY <1>1, <1>2 DEF Sound
  <1>4. Down(s) => Down(t)
    BY <1>1, <1>2 DEF Down
  <1> QED
    BY <1>3, <1>4 DEF t

\* What a step of the editor does to the daemon.
LEMMA EffectIs ==
  ASSUME Types, Sound(vim), NEW s, Leads(vim, s), Effect(s)
  PROVE  /\ daemon' \in Daemons
         /\ Continues(vim, s) =>
              /\ daemon'.served = daemon.served /\ daemon'.released = daemon.released
              /\ daemon'.signal = daemon.signal
              /\ \/ daemon'.inbox = daemon.inbox
                 \/ daemon'.inbox = Append(daemon.inbox, "initialize")
                 \/ daemon'.inbox = Append(daemon.inbox, "shutdown") /\ s.shutdown
         /\ Launches(vim, s) =>
              daemon' = [inbox |-> <<"initialize">>, signal |-> "none",
                         served |-> FALSE, released |-> FALSE]
  <1> DEFINE fresh == [inbox |-> <<"initialize">>, signal |-> "none",
                       served |-> FALSE, released |-> FALSE]
  <1>0. daemon \in Daemons /\ daemon.inbox \in Seq({"initialize", "shutdown"}) /\ vim.gen \in Nat
    BY DEF Types, Daemons, Sound, Editor
  <1>1. CASE Launches(vim, s)
    <2>1. s.gen # vim.gen /\ s.job = "run" /\ ~Continues(vim, s)
      BY <1>0, <1>1 DEF Launches, Leads, Sound, Editor, Continues
    <2>2. daemon' = fresh
      BY <2>1 DEF Effect
    <2>3. fresh \in Daemons
      BY DEF Daemons
    <2> QED
      BY <2>1, <2>2, <2>3
  <1>2. CASE Continues(vim, s)
    <2>1. s.gen = vim.gen /\ s.job = "run" /\ s.quitting = vim.quitting /\ ~Launches(vim, s)
      BY <1>2 DEF Continues, Launches
    <2>2. \/ daemon' = daemon
          \/ daemon' = [daemon EXCEPT !.inbox = Send(s, "shutdown")] /\ s.shutdown
          \/ daemon' = [daemon EXCEPT !.inbox = Send(s, "initialize")]
      BY <2>1 DEF Effect
    <2>3. ASSUME NEW m \in {"initialize", "shutdown"}
          PROVE  Send(s, m) \in {daemon.inbox, Append(daemon.inbox, m)}
                 /\ Send(s, m) \in Seq({"initialize", "shutdown"})
      BY <1>0 DEF Send
    <2>4. CASE daemon' = daemon
      BY <1>0, <2>1, <2>4
    <2>5. ASSUME NEW m \in {"initialize", "shutdown"}, daemon' = [daemon EXCEPT !.inbox = Send(s, m)]
          PROVE  /\ daemon' \in Daemons /\ daemon'.inbox \in {daemon.inbox, Append(daemon.inbox, m)}
                 /\ daemon'.served = daemon.served /\ daemon'.released = daemon.released
                 /\ daemon'.signal = daemon.signal
      BY <1>0, <2>3, <2>5 DEF Daemons
    <2> QED
      BY <2>1, <2>2, <2>4, <2>5
  <1>3. CASE Halts(vim, s)
    BY <1>0, <1>3 DEF Halts, Effect, Continues, Launches
  <1> QED
    BY <1>1, <1>2, <1>3 DEF Leads

\* The lines after the step are among those before it.
Unsaid ==
  /\ lines' \in Seq(Lines)
  /\ \A i \in 1..Len(lines') : \E j \in 1..Len(lines) : lines'[i] = lines[j]

\* A step of the editor that says nothing keeps the invariant.
LEMMA EditorStep ==
  ASSUME Inv, Leads(vim, vim'), Effect(vim'), Unsaid
  PROVE  Sound(vim') /\ daemon' \in Daemons /\ Serving'
  <1>0. vim.gen \in Nat /\ vim'.gen \in Nat /\ Sound(vim) /\ Sound(vim') /\ Types
    BY DEF Inv, Leads, Sound, Editor
  <1>1. \A i \in 1..Len(lines) : lines[i].gen <= vim.gen /\ lines[i].gen \in Nat
    <2>1. lines \in Seq(Lines) /\ \A i \in 1..Len(lines) : lines[i].gen <= vim.gen
      BY DEF Inv, Serving, Types
    <2>2. \A i \in 1..Len(lines) : lines[i] \in Lines
      BY <2>1
    <2>3. \A i \in 1..Len(lines) : lines[i].gen \in Nat
      BY <2>2 DEF Lines
    <2> QED
      BY <2>1, <2>3
  <1>2. vim'.gen >= vim.gen
    BY <1>0 DEF Leads, Continues, Launches, Halts
  <1>3. \A i \in 1..Len(lines') : lines'[i].gen <= vim'.gen
    BY <1>0, <1>1, <1>2 DEF Unsaid
  <1>4. daemon' \in Daemons
    BY <1>0, EffectIs
  <1>5. CASE Continues(vim, vim')
    <2>1. /\ vim.job = "run" /\ vim'.gen = vim.gen /\ vim'.quitting = vim.quitting
          /\ vim'.initialized => vim.initialized
          /\ vim.stopping => vim'.stopping
      BY <1>5 DEF Continues
    <2>2. /\ daemon'.served = daemon.served /\ daemon'.released = daemon.released
          /\ daemon'.signal = daemon.signal
          /\ \/ daemon'.inbox = daemon.inbox
             \/ daemon'.inbox = Append(daemon.inbox, "initialize")
             \/ daemon'.inbox = Append(daemon.inbox, "shutdown") /\ vim'.shutdown
      BY <1>0, <1>5, EffectIs
    <2>3. \A type \in {"initialized", "shutdown"} : Heard(type)' => Heard(type)
      BY <2>1 DEF Heard, Unsaid
    <2>4. Asked' => Asked \/ vim'.shutdown
      <3>1. daemon.inbox \in Seq({"initialize", "shutdown"})
        BY <1>0 DEF Types, Daemons
      <3>2. CASE daemon'.inbox = daemon.inbox
        BY <3>2 DEF Asked
      <3>3. CASE daemon'.inbox = Append(daemon.inbox, "initialize")
        <4>1. /\ Len(daemon'.inbox) = Len(daemon.inbox) + 1 /\ Len(daemon.inbox) \in Nat
              /\ daemon'.inbox[Len(daemon.inbox) + 1] = "initialize"
              /\ \A i \in 1..Len(daemon.inbox) : daemon'.inbox[i] = daemon.inbox[i]
          BY <3>1, <3>3
        <4>2. ASSUME NEW i \in 1..Len(daemon'.inbox), daemon'.inbox[i] = "shutdown"
              PROVE  i \in 1..Len(daemon.inbox) /\ daemon.inbox[i] = "shutdown"
          <5>1. i # Len(daemon.inbox) + 1
            BY <4>1, <4>2
          <5>2. i \in 1..Len(daemon.inbox)
            BY <4>1, <5>1
          <5> QED
            BY <4>1, <4>2, <5>2
        <4> QED
          BY <4>2 DEF Asked
      <3> QED
        BY <2>2, <3>2, <3>3
    <2>5. vim'.shutdown => vim'.stopping
      BY <1>0 DEF Sound
    <2>6. /\ (vim.initialized \/ Heard("initialized")) /\ ~vim.stopping => daemon.served
          /\ Asked => vim.stopping
          /\ Heard("shutdown") \/ vim.quitting \/ daemon.signal # "none" => daemon.released
      BY <2>1 DEF Inv, Serving
    <2> QED
      BY <1>0, <1>3, <1>4, <2>1, <2>2, <2>3, <2>4, <2>5, <2>6 DEF Serving
  <1>6. CASE Launches(vim, vim')
    <2>1. /\ daemon' = [inbox |-> <<"initialize">>, signal |-> "none",
                        served |-> FALSE, released |-> FALSE]
          /\ ~vim'.quitting /\ ~vim'.initialized /\ vim'.gen > vim.gen
      BY <1>0, <1>6, EffectIs DEF Launches
    <2>2. \A type \in {"initialized", "shutdown"} : ~Heard(type)'
      BY <1>0, <1>1, <2>1 DEF Heard, Unsaid
    <2>3. ~Asked'
      BY <2>1 DEF Asked
    <2>4. daemon'.signal = "none"
      BY <2>1
    <2> QED
      BY <1>0, <1>3, <1>4, <2>1, <2>2, <2>3, <2>4 DEF Serving
  <1>7. CASE Halts(vim, vim')
    BY <1>0, <1>3, <1>4, <1>7 DEF Serving, Halts
  <1> QED
    BY <1>5, <1>6, <1>7 DEF Leads

\* A queue without its head.
LEMMA TailOf ==
  ASSUME NEW S, NEW q \in Seq(S), q # <<>>
  PROVE  /\ Tail(q) \in Seq(S) /\ Len(Tail(q)) = Len(q) - 1 /\ Len(q) \in Nat \ {0}
         /\ \A i \in 1..Len(Tail(q)) : i + 1 \in 1..Len(q) /\ Tail(q)[i] = q[i + 1]
         /\ Head(q) = q[1] /\ Head(q) \in S
  OBVIOUS

\* Reading a line says nothing.
LEMMA TailUnsaid ==
  ASSUME Types, lines' = lines \/ (lines # <<>> /\ lines' = Tail(lines))
  PROVE  Unsaid
  <1>1. lines \in Seq(Lines)
    BY DEF Types
  <1>2. CASE lines' = lines
    BY <1>1, <1>2 DEF Unsaid
  <1>3. CASE lines # <<>> /\ lines' = Tail(lines)
    BY <1>1, <1>3, TailOf DEF Unsaid
  <1> QED
    BY <1>2, <1>3

-----------------------------------------------------------------------------
(* The steps.                                                              *)

\* The initial states.
LEMMA Initial == Init => Inv
  <1> SUFFICES ASSUME Init PROVE Inv
    OBVIOUS
  <1>1. Sound(vim) /\ Down(vim) /\ vim.job = "none" /\ vim.gen = 0
    BY DEF Init, Sound, Editor, Down
  <1>2. daemon \in Daemons /\ lines = <<>>
    BY DEF Init, Daemons
  <1>3. Types
    BY <1>2, SupervisorAssumption DEF Init, Types
  <1>4. Serving
    BY <1>1, <1>2 DEF Serving
  <1> QED
    BY <1>1, <1>3, <1>4 DEF Inv

\* A command, an exit, or any other step of the editor that reads no line.
LEMMA QuietStep ==
  ASSUME Inv, Leads(vim, vim'), Effect(vim'), lines' = lines,
         wanted' \in {"up", "down", "ignored"}, given' \in 0..MaxCommands, died' = died,
         wanted' = "down" => Down(vim')
  PROVE  Inv'
  <1>1. Unsaid /\ Types
    BY TailUnsaid DEF Inv
  <1>2. Sound(vim') /\ daemon' \in Daemons /\ Serving'
    BY <1>1, EditorStep
  <1>3. Types'
    BY <1>1, <1>2 DEF Types
  <1> QED
    BY <1>2, <1>3 DEF Inv

\* The user's command, counted.
LEMMA Counted ==
  ASSUME Types, NEW c, Given(c)
  PROVE  given' \in 0..MaxCommands /\ lines' = lines /\ died' = died
  BY SupervisorAssumption DEF Types, Given

\* The user's start is wanted, unless it is refused.
LEMMA StartStep ==
  ASSUME Inv, StartCommand
  PROVE  Inv' /\ (wanted' = "down" => vim'.gen = vim.gen)
  <1>1. PICK s \in Start(vim) : Becomes(s)
    BY DEF StartCommand
  <1>2. Sound(vim) /\ Types /\ vim' = s /\ Effect(vim') /\ vim.stopping \in BOOLEAN
    BY <1>1 DEF Inv, Becomes, Sound, Editor
  <1>3. Leads(vim, vim') /\ (Refused(vim) => vim' = vim)
    BY <1>1, <1>2, Started
  <1>4. wanted' = IF vim.stopping THEN wanted ELSE "up"
    BY DEF StartCommand
  <1>5. wanted' = "down" => vim' = vim /\ Down(vim')
    BY <1>2, <1>3, <1>4 DEF Refused, Inv
  <1>6. given' \in 0..MaxCommands /\ lines' = lines /\ died' = died
    BY <1>2, Counted DEF StartCommand
  <1> QED
    BY <1>2, <1>3, <1>4, <1>5, <1>6, QuietStep DEF Types

\* The user's stop starts nothing.
LEMMA StopStep ==
  ASSUME Inv, StopCommand
  PROVE  Inv' /\ (vim'.job = "run" => vim'.gen = vim.gen)
  <1>1. PICK s \in Stop(vim, FALSE) : Becomes(s)
    BY DEF StopCommand
  <1>2. Sound(vim) /\ Types /\ vim' = s /\ Effect(vim') /\ wanted' = "down"
    BY <1>1 DEF Inv, Becomes, StopCommand
  <1>3. Leads(vim, vim') /\ Down(vim') /\ ~Launches(vim, vim')
    BY <1>1, <1>2, Stopped
  <1>4. given' \in 0..MaxCommands /\ lines' = lines /\ died' = died
    BY <1>2, Counted DEF StopCommand
  <1>5. vim'.job = "run" => vim'.gen = vim.gen
    BY <1>3 DEF Leads, Continues, Halts
  <1> QED
    BY <1>2, <1>3, <1>4, <1>5, QuietStep

\* The user's restart is wanted.
LEMMA RestartStep ==
  ASSUME Inv, RestartCommand
  PROVE  Inv' /\ wanted' # "down"
  <1>1. PICK s \in Restart(vim) : Becomes(s)
    BY DEF RestartCommand
  <1>2. Sound(vim) /\ Types /\ vim' = s /\ Effect(vim') /\ wanted' = "up"
    BY <1>1 DEF Inv, Becomes, RestartCommand
  <1>3. Leads(vim, vim')
    BY <1>1, <1>2, Restarted
  <1>4. given' \in 0..MaxCommands /\ lines' = lines /\ died' = died
    BY <1>2, Counted DEF RestartCommand
  <1> QED
    BY <1>2, <1>3, <1>4, QuietStep

\* An installation starts the daemon, unless it runs.
LEMMA InstallStep ==
  ASSUME Inv, InstallCommand
  PROVE  Inv' /\ (wanted' = "down" => vim'.gen = vim.gen)
  <1>1. PICK s \in Install(vim) : Becomes(s)
    BY DEF InstallCommand
  <1>2. Sound(vim) /\ Types /\ vim' = s /\ Effect(vim')
    BY <1>1 DEF Inv, Becomes
  <1>3. Leads(vim, vim') /\ (vim.job = "run" => vim' = vim)
    BY <1>1, <1>2, EnsuredFrom DEF Install
  <1>4. wanted' = IF vim.stopping /\ vim.job = "run" THEN wanted ELSE "up"
    BY DEF InstallCommand
  <1>5. wanted' = "down" => vim' = vim /\ Down(vim')
    BY <1>2, <1>3, <1>4 DEF Inv
  <1>6. given' \in 0..MaxCommands /\ lines' = lines /\ died' = died
    BY <1>2, Counted DEF InstallCommand
  <1> QED
    BY <1>2, <1>3, <1>4, <1>5, <1>6, QuietStep DEF Types

\* A back-off timer of the newest generation is armed only while no daemon runs, and is
\* cleared by Stop().
LEMMA BackoffStep ==
  ASSUME Inv, BackoffTimer
  PROVE  Inv' /\ (vim'.job = "run" /\ vim'.gen # vim.gen => wanted' # "down")
  <1> DEFINE s == [vim EXCEPT !.backoff = 0]
  <1>1. PICK t \in IF vim.backoff = s.gen /\ ~s.quitting
                     THEN UNION {IF r.job = "run" THEN {r} ELSE Ensure(r) : r \in Reap(s)}
                     ELSE {s} : Becomes(t)
    BY DEF BackoffTimer
  <1>2. /\ Sound(vim) /\ Types /\ vim' = t /\ Effect(vim') /\ vim.backoff # 0
        /\ UNCHANGED <<lines, wanted, given, died>>
    BY <1>1 DEF Inv, Becomes, BackoffTimer
  <1>3. /\ Sound(s) /\ s.gen = vim.gen /\ s.job = vim.job /\ s.quitting = vim.quitting
        /\ s.initialized = vim.initialized /\ s.stopping = vim.stopping
        /\ Down(vim) => Down(s)
    BY <1>2, Ticked
  <1>4. /\ vim.gen \in Nat /\ vim.backoff \in Nat /\ vim.job \in {"none", "run", "dead"}
        /\ vim.job # "none" => vim.backoff < vim.gen
    BY <1>2 DEF Sound, Editor
  <1> HIDE DEF s
  <1>5. CASE vim.backoff = s.gen /\ ~s.quitting
    <2>1. vim.job = "none" /\ ~Down(vim)
      BY <1>2, <1>3, <1>4, <1>5 DEF Down
    <2>2. Leads(s, t)
      BY <1>1, <1>3, <1>5, EnsuredFrom
    <2>3. Leads(vim, vim')
      BY <1>2, <1>3, <2>2 DEF Leads, Continues, Launches, Halts
    <2>4. wanted' # "down"
      BY <1>2, <2>1 DEF Inv
    <2> QED
      BY <1>2, <2>3, <2>4, QuietStep DEF Types
  <1>6. CASE ~(vim.backoff = s.gen /\ ~s.quitting)
    <2>1. vim' = s
      BY <1>1, <1>2, <1>6
    <2>2. Leads(vim, vim') /\ vim'.gen = vim.gen
      BY <1>3, <1>4, <2>1 DEF Leads, Continues, Halts
    <2>3. wanted' = "down" => Down(vim')
      BY <1>2, <1>3, <2>1 DEF Inv
    <2> QED
      BY <1>2, <2>2, <2>3, QuietStep DEF Types
  <1> QED
    BY <1>5, <1>6

\* A start that was queued before the user stopped the daemon runs nevertheless: it
\* ends the stop (wanted becomes "ignored"), and no step in which the daemon stays
\* stopped launches one.
LEMMA StartTimerStep ==
  ASSUME Inv, StartTimer
  PROVE  Inv' /\ (wanted' = "down" => vim'.gen = vim.gen)
  <1> DEFINE m == [vim EXCEPT !.starts = @ - 1]
  <1>1. PICK s \in Start(m) :
           Becomes(s) /\ wanted' = IF s.gen # vim.gen /\ wanted = "down" THEN "ignored" ELSE wanted
    BY DEF StartTimer
  <1>2. Sound(vim) /\ Types /\ vim' = s /\ Effect(vim') /\ UNCHANGED <<lines, given, died>>
    BY <1>1 DEF Inv, Becomes, StartTimer
  <1>3. /\ Sound(m) /\ m.gen = vim.gen /\ m.job = vim.job /\ m.quitting = vim.quitting
        /\ m.initialized = vim.initialized /\ m.stopping = vim.stopping
        /\ Down(vim) => Down(m)
    BY <1>2, Ticked DEF StartTimer
  <1> HIDE DEF m
  <1>4. Leads(m, s) /\ (Down(m) /\ ~Launches(m, s) => Down(s))
    BY <1>1, <1>3, Started
  <1>5. Leads(vim, vim')
    BY <1>2, <1>3, <1>4 DEF Leads, Continues, Launches, Halts
  <1>6. ASSUME wanted' = "down" PROVE vim'.gen = vim.gen /\ Down(vim')
    <2>1. wanted = "down" /\ s.gen = vim.gen
      BY <1>1, <1>6
    <2>2. ~Launches(m, s)
      BY <1>2, <1>3, <2>1 DEF Launches, Sound, Editor
    <2> QED
      BY <1>2, <1>3, <1>4, <2>1, <2>2 DEF Inv
  <1>7. wanted' \in {"up", "down", "ignored"} /\ given' \in 0..MaxCommands
    BY <1>1, <1>2 DEF Types
  <1> QED
    BY <1>2, <1>5, <1>6, <1>7, QuietStep

\* The exit callback starts nothing by itself.
LEMMA ExitStep ==
  ASSUME Inv, ExitCallback
  PROVE  Inv' /\ vim'.gen = vim.gen
  <1>1. PICK s \in Reap(vim) : Becomes(s)
    BY DEF ExitCallback
  <1>2. /\ Sound(vim) /\ Types /\ vim' = s /\ Effect(vim') /\ vim.job = "dead"
        /\ UNCHANGED <<lines, wanted, given, died>>
    BY <1>1 DEF Inv, Becomes, ExitCallback
  <1>3. Sound(vim') /\ vim'.gen = vim.gen /\ vim'.job = "none" /\ (Down(vim) => Down(vim'))
    BY <1>1, <1>2, Reaped
  <1>4. Leads(vim, vim')
    BY <1>2, <1>3 DEF Leads, Halts, Sound, Editor
  <1>5. wanted' = "down" => Down(vim')
    BY <1>2, <1>3 DEF Inv
  <1> QED
    BY <1>2, <1>3, <1>4, <1>5, QuietStep DEF Types

\* A crash that is forgotten changes nothing else.
LEMMA WindowStep ==
  ASSUME Inv, WindowPasses
  PROVE  Inv' /\ vim'.gen = vim.gen
  <1>1. /\ Sound(vim) /\ Types /\ vim.crashes > 0 /\ vim' = [vim EXCEPT !.crashes = @ - 1]
        /\ UNCHANGED <<daemon, lines, wanted, given, died>>
    BY DEF Inv, WindowPasses
  <1>2. /\ Sound(vim') /\ vim'.gen = vim.gen /\ vim'.job = vim.job /\ vim'.quitting = vim.quitting
        /\ vim'.initialized = vim.initialized /\ vim'.stopping = vim.stopping
        /\ Down(vim) => Down(vim')
    BY <1>1, Ticked
  <1>3. Serving'
    BY <1>1, <1>2 DEF Inv, Serving, Heard, Asked
  <1> QED
    BY <1>1, <1>2, <1>3 DEF Inv, Types

\* The two ways a daemon dies: the editor has not noticed yet.
LEMMA DeathStep ==
  ASSUME Inv, DiesOfSignal \/ Crashes
  PROVE  Inv' /\ vim'.gen = vim.gen
  <1>1. /\ Sound(vim) /\ Types /\ vim.job = "run" /\ vim' = [vim EXCEPT !.job = "dead"]
        /\ UNCHANGED <<daemon, lines, wanted, given>> /\ died' \in 0..MaxCrashes
    BY SupervisorAssumption DEF Inv, Types, DiesOfSignal, Crashes
  <1>2. vim' \in Editor
    BY <1>1 DEF Sound, Editor
  <1>3. /\ vim'.job = "dead" /\ vim'.gen = vim.gen /\ vim'.quitting = vim.quitting
        /\ vim'.kill = vim.kill /\ vim'.backoff = vim.backoff /\ vim'.stopping = vim.stopping
        /\ vim'.shutdown = vim.shutdown /\ vim'.tripped = vim.tripped
    BY <1>1 DEF Sound, Editor
  <1>4. Sound(vim') /\ (Down(vim) => Down(vim'))
    BY <1>1, <1>2, <1>3 DEF Sound, Down
  <1>5. Serving'
    BY <1>1, <1>3 DEF Inv, Serving
  <1> QED
    BY <1>1, <1>3, <1>4, <1>5 DEF Inv, Types

\* The daemon that gets SIGTERM here has had its time.
LEMMA ShutdownTimerStep ==
  ASSUME Inv, ShutdownTimer
  PROVE  Inv' /\ vim'.gen = vim.gen
  <1>1. /\ Sound(vim) /\ Types /\ vim.shutdown /\ vim' = CoreStop(vim)
        /\ UNCHANGED <<lines, wanted, given, died>>
        /\ daemon' = [daemon EXCEPT !.signal = IF vim.job = "run" THEN "term" ELSE @,
                                    !.released = TRUE]
    BY DEF Inv, ShutdownTimer
  <1>2. /\ vim'.gen = vim.gen /\ vim'.job = vim.job /\ vim'.stopping = vim.stopping
        /\ vim'.initialized = vim.initialized
    BY <1>1, CoreStopped DEF Sound
  <1>3. Sound(vim') /\ (Down(vim) => Down(vim'))
    BY <1>1, CoreStopSound
  <1>4. daemon \in Daemons
    BY <1>1 DEF Types
  <1>5. /\ daemon' \in Daemons /\ daemon'.released /\ daemon'.served = daemon.served
        /\ daemon'.inbox = daemon.inbox
    BY <1>1, <1>4 DEF Daemons
  <1>6. Serving'
    BY <1>1, <1>2, <1>5 DEF Inv, Serving, Heard, Asked
  <1> QED
    BY <1>1, <1>2, <1>3, <1>5, <1>6 DEF Inv, Types

\* The kill timer is armed only for a daemon that has been told to quit.
LEMMA KillTimerStep ==
  ASSUME Inv, KillTimer
  PROVE  Inv' /\ vim'.gen = vim.gen
  <1> DEFINE m == [vim EXCEPT !.kill = 0]
  <1>1. PICK s \in IF vim.kill = vim.gen THEN Reap(m) ELSE {m} :
           /\ vim' = s
           /\ daemon' = IF vim.kill = vim.gen /\ s.job = "run"
                          THEN [daemon EXCEPT !.signal = "kill"] ELSE daemon
    BY DEF KillTimer
  <1>2. /\ Sound(vim) /\ Types /\ vim.kill # 0 /\ vim.quitting
        /\ UNCHANGED <<lines, wanted, given, died>>
    BY DEF Inv, KillTimer, Sound
  <1>3. /\ Sound(m) /\ m.gen = vim.gen /\ m.job = vim.job /\ m.quitting = vim.quitting
        /\ m.initialized = vim.initialized /\ m.stopping = vim.stopping
        /\ Down(vim) => Down(m)
    BY <1>2, Ticked
  <1> HIDE DEF m
  <1>4. /\ Sound(vim') /\ vim'.gen = vim.gen /\ (Down(vim) => Down(vim'))
        /\ vim'.job = "run" => vim' = m /\ vim.job = "run"
    BY <1>1, <1>3, Reaped
  <1>5. daemon \in Daemons
    BY <1>2 DEF Types
  <1>6. /\ daemon' \in Daemons /\ daemon'.released = daemon.released /\ daemon'.served = daemon.served
        /\ daemon'.inbox = daemon.inbox
    BY <1>1, <1>5 DEF Daemons
  <1>7. Serving'
    BY <1>2, <1>3, <1>4, <1>6 DEF Inv, Serving, Heard, Asked
  <1> QED
    BY <1>2, <1>4, <1>6, <1>7 DEF Inv, Types

\* A line that passes the fence is of the running daemon or of the one that ended last.
LEMMA ReadStep ==
  ASSUME Inv, ReadLine
  PROVE  Inv' /\ vim'.gen = vim.gen
  <1> DEFINE line == Head(lines)
  <1>1. /\ Sound(vim) /\ vim \in Editor /\ Types /\ lines # <<>> /\ lines' = Tail(lines)
        /\ UNCHANGED <<wanted, given, died>>
    BY DEF Inv, ReadLine, Sound
  <1>2. Unsaid
    BY <1>1, TailUnsaid
  <1>3. lines \in Seq(Lines) /\ line = lines[1] /\ 1 \in 1..Len(lines) /\ line \in Lines
    BY <1>1, TailOf DEF Types
  <1>4. CASE UNCHANGED <<vim, daemon>>
    <2>1. Serving'
      <3>1. \A type \in {"initialized", "shutdown"} : Heard(type)' => Heard(type)
        BY <1>2, <1>4 DEF Heard, Unsaid
      <3>2. \A i \in 1..Len(lines') : lines'[i].gen <= vim'.gen
        BY <1>2, <1>4 DEF Inv, Serving, Unsaid
      <3> QED
        BY <1>4, <3>1, <3>2 DEF Inv, Serving, Asked
    <2> QED
      BY <1>1, <1>2, <1>4, <2>1 DEF Inv, Types, Unsaid
  <1>5. CASE Fence(line) /\ line.type \in {"initialized", "error"}
    <2>1. \E b \in BOOLEAN : /\ vim' = [vim EXCEPT !.initialized = b, !.initializing = FALSE]
                             /\ b => vim.initialized \/ line.type = "initialized"
                             /\ Effect(vim')
      <3>1. CASE line.type = "initialized"
        <4>1. Becomes([vim EXCEPT !.initialized = TRUE, !.initializing = FALSE])
          BY <1>5, <3>1 DEF ReadLine
        <4> QED
          BY <3>1, <4>1 DEF Becomes
      <3>2. CASE line.type = "error"
        <4>1. Becomes([vim EXCEPT !.initializing = FALSE])
          BY <1>5, <3>2 DEF ReadLine
        <4>2. [vim EXCEPT !.initializing = FALSE]
                = [vim EXCEPT !.initialized = vim.initialized, !.initializing = FALSE]
              /\ vim.initialized \in BOOLEAN
          BY <1>1 DEF Editor
        <4> QED
          BY <4>1, <4>2 DEF Becomes
      <3> QED
        BY <1>5, <3>1, <3>2
    <2>2. PICK b \in BOOLEAN : /\ vim' = [vim EXCEPT !.initialized = b, !.initializing = FALSE]
                               /\ b => vim.initialized \/ line.type = "initialized"
                               /\ Effect(vim')
      BY <2>1
    <2>3. vim' \in Editor
      BY <1>1, <2>2 DEF Editor
    <2>4. /\ vim'.gen = vim.gen /\ vim'.job = vim.job /\ vim'.quitting = vim.quitting
          /\ vim'.kill = vim.kill /\ vim'.backoff = vim.backoff /\ vim'.stopping = vim.stopping
          /\ vim'.shutdown = vim.shutdown /\ vim'.tripped = vim.tripped
          /\ vim'.initialized = b /\ ~vim'.initializing
      BY <1>1, <2>2 DEF Editor
    <2>5. Sound(vim') /\ (Down(vim) => Down(vim'))
      BY <1>1, <2>3, <2>4 DEF Sound, Down
    <2>6. daemon' = daemon
      BY <2>2, <2>4 DEF Effect
    <2>7. b => vim.initialized \/ Heard("initialized")
      BY <1>3, <1>5, <2>2 DEF Heard, Fence
    <2>8. Serving'
      <3>1. \A type \in {"initialized", "shutdown"} : Heard(type)' => Heard(type)
        BY <1>2, <2>4 DEF Heard, Unsaid
      <3>2. \A i \in 1..Len(lines') : lines'[i].gen <= vim'.gen
        BY <1>2, <2>4 DEF Inv, Serving, Unsaid
      <3> QED
        BY <2>4, <2>6, <2>7, <3>1, <3>2 DEF Inv, Serving, Asked
    <2> QED
      BY <1>1, <1>2, <2>4, <2>5, <2>6, <2>8 DEF Inv, Types, Unsaid
  <1>6. CASE Fence(line) /\ line.type = "shutdown" /\ vim.shutdown
    <2>1. vim' = CoreStop(vim) /\ Effect(vim')
      BY <1>6 DEF ReadLine, Becomes
    <2>2. /\ vim'.gen = vim.gen /\ vim'.job = vim.job /\ vim'.stopping = vim.stopping
          /\ vim'.initialized = vim.initialized /\ vim'.initializing = vim.initializing
          /\ ~vim'.shutdown
      BY <1>1, <2>1, CoreStopped
    <2>3. Sound(vim') /\ (Down(vim) => Down(vim'))
      BY <1>1, <2>1, CoreStopSound
    <2>4. daemon' \in {daemon, [daemon EXCEPT !.signal = "term"]}
      BY <2>1, <2>2 DEF Effect
    <2>5. daemon \in Daemons
      BY <1>1 DEF Types
    <2>6. /\ daemon' \in Daemons /\ daemon'.released = daemon.released
          /\ daemon'.served = daemon.served /\ daemon'.inbox = daemon.inbox
      BY <2>4, <2>5 DEF Daemons
    <2>7. Heard("shutdown")
      BY <1>3, <1>6 DEF Heard, Fence
    <2>8. Serving'
      <3>1. \A type \in {"initialized", "shutdown"} : Heard(type)' => Heard(type)
        BY <1>2, <2>2 DEF Heard, Unsaid
      <3>2. \A i \in 1..Len(lines') : lines'[i].gen <= vim'.gen
        BY <1>2, <2>2 DEF Inv, Serving, Unsaid
      <3> QED
        BY <2>2, <2>6, <2>7, <3>1, <3>2 DEF Inv, Serving, Asked
    <2> QED
      BY <1>1, <1>2, <2>2, <2>3, <2>6, <2>8 DEF Inv, Types, Unsaid
  <1>7. CASE Fence(line) /\ line.type = "shutdown" /\ ~vim.shutdown
    <2>1. Becomes(vim)
      BY <1>7 DEF ReadLine
    <2>2. vim' = vim /\ daemon' = daemon
      BY <2>1 DEF Becomes, Effect
    <2> QED
      BY <1>4, <2>2
  <1>8. ~Fence(line) => UNCHANGED <<vim, daemon>>
    BY DEF ReadLine
  <1> QED
    BY <1>3, <1>4, <1>5, <1>6, <1>7, <1>8 DEF Lines

\* A daemon that says something.
LEMMA Saying ==
  ASSUME Types, Sound(vim), NEW type \in {"initialized", "error", "shutdown"}, Says(type), vim' = vim
  PROVE  /\ lines' \in Seq(Lines)
         /\ (\A i \in 1..Len(lines) : lines[i].gen <= vim.gen)
               => \A i \in 1..Len(lines') : lines'[i].gen <= vim.gen
         /\ \A x \in {"initialized", "shutdown"} : Heard(x)' => Heard(x) \/ x = type
  <1> DEFINE m == [gen |-> vim.gen, type |-> type]
  <1>1. lines \in Seq(Lines) /\ m \in Lines /\ lines' = Append(lines, m) /\ vim.gen \in Nat
    BY DEF Types, Sound, Editor, Lines, Says
  <1>2. m.gen = vim.gen /\ m.type = type
    OBVIOUS
  <1> HIDE DEF m
  <1>3. /\ lines' \in Seq(Lines) /\ Len(lines) \in Nat
        /\ \A i \in 1..Len(lines') : i \in 1..Len(lines) \/ i = Len(lines) + 1
        /\ \A i \in 1..Len(lines) : lines'[i] = lines[i]
        /\ lines'[Len(lines) + 1] = m
    BY <1>1
  <1> QED
    BY <1>1, <1>2, <1>3 DEF Heard

\* What is left in a pipe after the daemon has read a request was there before.
LEMMA Reading ==
  ASSUME Types, daemon.inbox # <<>>
  PROVE  /\ Tail(daemon.inbox) \in Seq({"initialize", "shutdown"})
         /\ (\E i \in 1..Len(Tail(daemon.inbox)) : Tail(daemon.inbox)[i] = "shutdown") => Asked
         /\ Head(daemon.inbox) = "shutdown" => Asked
  <1> DEFINE q == daemon.inbox
  <1>1. q \in Seq({"initialize", "shutdown"})
    BY DEF Types, Daemons
  <1>2. /\ Tail(q) \in Seq({"initialize", "shutdown"})
        /\ Len(q) \in Nat \ {0} /\ Head(q) = q[1]
        /\ \A i \in 1..Len(Tail(q)) : i + 1 \in 1..Len(q) /\ Tail(q)[i] = q[i + 1]
    BY <1>1, TailOf
  <1> HIDE DEF q
  <1>3. 1 \in 1..Len(q)
    BY <1>2
  <1> QED
    BY <1>2, <1>3 DEF Asked, q

\* `initialize` is served, or answered with an error.
LEMMA ServeInitializeStep ==
  ASSUME Inv, ServeInitialize
  PROVE  Inv' /\ vim'.gen = vim.gen
  <1>1. /\ Sound(vim) /\ Types /\ vim.job = "run" /\ daemon.inbox # <<>>
        /\ UNCHANGED <<vim, wanted, given, died>> /\ daemon \in Daemons
    BY DEF Inv, ServeInitialize, Types
  <1>2. PICK type \in {"initialized", "error"} :
           /\ Says(type)
           /\ daemon' = [daemon EXCEPT !.inbox = Tail(@), !.served = (type = "initialized" \/ @)]
    <2>1. CASE Says("initialized") /\ daemon' = [daemon EXCEPT !.inbox = Tail(@), !.served = TRUE]
      BY <2>1
    <2>2. CASE Says("error") /\ daemon' = [daemon EXCEPT !.inbox = Tail(@)]
      <3>1. daemon' = [daemon EXCEPT !.inbox = Tail(@), !.served = daemon.served]
            /\ daemon.served \in BOOLEAN
        BY <1>1, <2>2 DEF Daemons
      <3> QED
        BY <2>2, <3>1
    <2> QED
      BY <2>1, <2>2 DEF ServeInitialize
  <1>3. /\ Tail(daemon.inbox) \in Seq({"initialize", "shutdown"})
        /\ (\E i \in 1..Len(Tail(daemon.inbox)) : Tail(daemon.inbox)[i] = "shutdown") => Asked
    BY <1>1, Reading
  <1>4. /\ daemon' \in Daemons /\ daemon'.inbox = Tail(daemon.inbox)
        /\ daemon'.signal = daemon.signal /\ daemon'.released = daemon.released
        /\ daemon.served => daemon'.served
        /\ type = "initialized" => daemon'.served
    BY <1>1, <1>2, <1>3 DEF Daemons
  <1>5. /\ lines' \in Seq(Lines)
        /\ (\A i \in 1..Len(lines) : lines[i].gen <= vim.gen)
              => \A i \in 1..Len(lines') : lines'[i].gen <= vim.gen
        /\ \A x \in {"initialized", "shutdown"} : Heard(x)' => Heard(x) \/ x = type
    BY <1>1, <1>2, Saying
  <1>6. Serving'
    BY <1>1, <1>3, <1>4, <1>5 DEF Inv, Serving, Asked
  <1> QED
    BY <1>1, <1>4, <1>5, <1>6 DEF Inv, Types

\* `shutdown` is served only to a plugin that is stopping.
LEMMA ServeShutdownStep ==
  ASSUME Inv, ServeShutdown
  PROVE  Inv' /\ vim'.gen = vim.gen
  <1>1. /\ Sound(vim) /\ Types /\ vim.job = "run" /\ daemon.inbox # <<>>
        /\ Head(daemon.inbox) = "shutdown" /\ Says("shutdown")
        /\ UNCHANGED <<vim, wanted, given, died>> /\ daemon \in Daemons
        /\ daemon' = [daemon EXCEPT !.inbox = Tail(@), !.served = FALSE, !.released = TRUE]
    BY DEF Inv, ServeShutdown, Types
  <1>2. /\ Tail(daemon.inbox) \in Seq({"initialize", "shutdown"}) /\ Asked
        /\ (\E i \in 1..Len(Tail(daemon.inbox)) : Tail(daemon.inbox)[i] = "shutdown") => Asked
    BY <1>1, Reading
  <1>3. /\ daemon' \in Daemons /\ daemon'.inbox = Tail(daemon.inbox) /\ daemon'.released
    BY <1>1, <1>2 DEF Daemons
  <1>4. /\ lines' \in Seq(Lines)
        /\ (\A i \in 1..Len(lines) : lines[i].gen <= vim.gen)
              => \A i \in 1..Len(lines') : lines'[i].gen <= vim.gen
    BY <1>1, Saying
  <1>5. vim.stopping
    BY <1>1, <1>2 DEF Inv, Serving
  <1>6. Serving'
    BY <1>1, <1>3, <1>4, <1>5 DEF Inv, Serving
  <1> QED
    BY <1>1, <1>3, <1>4, <1>6 DEF Inv, Types

\* Every step, and what it may start.
LEMMA Steps ==
  ASSUME Inv, [Next]_vars
  PROVE  Inv' /\ (vim'.job = "run" /\ vim'.gen # vim.gen => wanted' # "down")
  <1>1. CASE UNCHANGED vars
    BY <1>1 DEF vars, Inv, Types, Serving, Heard, Asked
  <1> QED
    BY <1>1, StartStep, StopStep, RestartStep, InstallStep, BackoffStep,
       StartTimerStep,
       ShutdownTimerStep, KillTimerStep, WindowStep, ReadStep, ExitStep,
       ServeInitializeStep, ServeShutdownStep, DeathStep DEF Next

\* The invariant holds.
THEOREM Inductive == Spec => []Inv
  BY Initial, Steps, PTL DEF Spec

\* Type correctness of the supervisor; a tripped breaker means that no daemon runs.
THEOREM TypeCorrect == Spec => []TypeOK
  <1>1. Inv => TypeOK
    BY DEF Inv, Sound, Editor, Types, Daemons, Lines, TypeOK
  <1> QED
    BY <1>1, Inductive, PTL

\* Late lines of earlier daemons, failed starts, stops under way and restarts do not make
\* the plugin believe in a session that the running daemon never served (OnOut's fence,
\* core.vim, and the resets of Ensure and Stop).
THEOREM SessionOfTheRunningDaemon == Spec => []SessionIsCurrent
  <1>1. Inv => SessionIsCurrent
    BY DEF Inv, Serving, SessionIsCurrent
  <1> QED
    BY <1>1, Inductive, PTL

\* No daemon is signalled before it acknowledged the shutdown or had its time for it, in
\* whatever order commands, timers, lines and exits come (Stop, simplecc.vim).
THEOREM ServersShutDownFirst == Spec => []ShutdownFirst
  <1>1. Inv => ShutdownFirst
    BY DEF Inv, Serving, ShutdownFirst
  <1> QED
    BY <1>1, Inductive, PTL

\* A crash, a back-off timer or a late exit never starts a daemon that the user stopped:
\* an armed back-off timer is stale or cleared by then.
THEOREM StoppedStaysStopped == Spec => StopStays
  <1>1. Inv /\ [Next]_vars => [vim'.job = "run" /\ vim'.gen # vim.gen => wanted' # "down"]_vars
    BY Steps
  <1> QED
    BY <1>1, Inductive, PTL DEF Spec, StopStays
=============================================================================
