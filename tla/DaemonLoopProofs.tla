--------------------------- MODULE DaemonLoopProofs ---------------------------
(***************************************************************************)
(* Proofs of the safety properties of DaemonLoop for any number of lines   *)
(* and any capacity of the queue.                                          *)
(***************************************************************************)
EXTENDS DaemonLoop, TLAPS

Drawn == {"uninstalling", "closing", "flushing", "ended"}

\* What runs in place belongs to the last line, which has no task and was not
\* answered; a server starts only in a workspace.
InPlace ==
  /\ loop \in Inline => /\ read >= 1
                        /\ Kind(read) \notin Features \union {"install"}
                        /\ \A p \in DOMAIN said : said[p] # read
  /\ loop \in {"announcing", "starting"} => workspace

\* Only lines that are features or installations have tasks, and an answered
\* line was read and has none that runs.
TasksOfLines ==
  /\ \A l \in Line : l > read => task[l] = "none"
  /\ \A l \in 1 .. read : task[l] # "none" => Kind(l) \in Features \union {"install"}
  /\ \A p \in DOMAIN said : said[p] <= read /\ task[said[p]] \notin Running

\* On the way out no feature runs after the first stage, and nothing after the
\* second.
OnTheWayOut ==
  /\ loop \in Drawn => \A l \in FeatureTasks : task[l] \notin Running
  /\ loop \in Drawn \ {"uninstalling"} => \A l \in Line : task[l] \notin Running

\* The inductive invariant.
Inv == /\ TypeOK /\ InPlace /\ TasksOfLines /\ OnTheWayOut
       /\ BarrierIsFinal /\ NothingLost

-----------------------------------------------------------------------------
(* What the operators that the actions share do.                           *)

\* Reading appends one line of one of the kinds.
LEMMA Reading ==
  ASSUME TypeOK, NEW kinds \in SUBSET Kinds, Reads(kinds)
  PROVE  /\ lines' \in Seq(Kinds) /\ Len(lines') = read + 1 /\ read + 1 \in Line
         /\ read \in Nat
         /\ \A l \in 1 .. read : lines'[l] = lines[l]
         /\ lines'[read + 1] \in kinds
         /\ loop = "select"
  BY BoundsAssumption DEF TypeOK, Reads, read, Line

\* Sending queues the event, and the reply is said; or nothing is queued.
LEMMA Sending ==
  ASSUME TypeOK, NEW e \in 0 .. MaxLines, Sent(e) \/ GivesUp
  PROVE  /\ queue' \in Seq(0 .. MaxLines) /\ Len(queue') <= Capacity
         /\ said' \in Seq(Line) /\ stalled' \in BOOLEAN /\ broken' = broken
         /\ said' = said \/ (e # 0 /\ said' = Append(said, e))
  <1>1. CASE stalled /\ UNCHANGED path
    BY <1>1 DEF TypeOK, path
  <1>2. CASE GivesUp
    BY <1>2 DEF TypeOK, GivesUp
  <1>3. CASE ~stalled /\ Sent(e)
    <2>1. /\ queue' = Append(queue, e) /\ Len(queue) < Capacity /\ stalled' = stalled
          /\ broken' = broken
      BY <1>3 DEF Sent
    <2>2. queue' \in Seq(0 .. MaxLines) /\ Len(queue') <= Capacity
      BY <2>1, BoundsAssumption DEF TypeOK
    <2>3. said' = said \/ (e # 0 /\ said' = Append(said, e))
      BY <1>3 DEF Sent
    <2>4. said' \in Seq(Line)
      <3>1. said \in Seq(Line)
        BY DEF TypeOK
      <3>2. e # 0 => e \in Line
        BY BoundsAssumption DEF Line
      <3> QED
        BY <2>3, <3>1, <3>2
    <2> QED
      BY <2>1, <2>2, <2>3, <2>4 DEF TypeOK
  <1> QED
    BY <1>1, <1>2, <1>3 DEF Sent

\* Vim takes the first event, or all are lost: either leaves room.
LEMMA Taking ==
  ASSUME TypeOK, queue' \in {queue, <<>>} \/ (queue # <<>> /\ queue' = Tail(queue))
  PROVE  queue' \in Seq(0 .. MaxLines) /\ Len(queue') <= Capacity
  <1>1. queue \in Seq(0 .. MaxLines) /\ Len(queue) <= Capacity /\ Capacity \in Nat
    BY BoundsAssumption DEF TypeOK
  <1>2. CASE queue # <<>> /\ queue' = Tail(queue)
    <2>1. queue' \in Seq(0 .. MaxLines) /\ Len(queue') = Len(queue) - 1
      BY <1>1, <1>2
    <2> QED
      BY <1>1, <2>1
  <1>3. CASE queue' = <<>>
    <2>1. <<>> \in Seq(0 .. MaxLines) /\ Len(<<>>) = 0
      OBVIOUS
    <2> QED
      BY <1>1, <1>3, <2>1
  <1> QED
    BY <1>1, <1>2, <1>3

\* A reply is said last.
LEMMA Saying ==
  ASSUME TypeOK, NEW e \in Line, said' = said \/ said' = Append(said, e)
  PROVE  \A p \in DOMAIN said' :
           \/ p \in DOMAIN said /\ said'[p] = said[p]
           \/ said'[p] = e /\ p = Len(said) + 1 /\ \A q \in DOMAIN said : q < p
  <1>1. said \in Seq(Line) /\ DOMAIN said = 1 .. Len(said) /\ Len(said) \in Nat
    BY DEF TypeOK
  <1>2. CASE said' = Append(said, e)
    <2>1. DOMAIN said' = 1 .. Len(said) + 1 /\ said'[Len(said) + 1] = e
      BY <1>1, <1>2
    <2>2. \A p \in 1 .. Len(said) : said'[p] = said[p]
      BY <1>1, <1>2
    <2> QED
      BY <1>1, <2>1, <2>2
  <1> QED
    BY <1>1, <1>2

\* What a task does before its reply keeps it running, or ends it in silence.
Advances(l) == \/ FindClient(l) \/ RefuseRename(l) \/ AskLatest(l) \/ AskPlain(l)
               \/ AskDiagnostics(l) \/ AskDefinition(l) \/ AskAgain(l) \/ Installed(l)

LEMMA Advancing ==
  ASSUME TypeOK, NEW l \in Line, Advances(l)
  PROVE  /\ task[l] \in Running
         /\ task' \in [Line -> Running \union {"none", "done", "silent", "aborted"}]
         /\ task'[l] \in Running \union {"silent"}
         /\ \A m \in Line : m # l => task'[m] = task[m]
         /\ UNCHANGED <<lines, closed, loop, workspace, server, queue, said, stalled, late, broken>>
  BY DEF TypeOK, Advances, FindClient, RefuseRename, AskLatest, AskPlain,
         AskDiagnostics, AskDefinition,
         AskAgain, Installed, Becomes, Quiet, Running, reg, path

-----------------------------------------------------------------------------
(* Each part of the invariant is kept by every step.                       *)

\* Every step keeps every part of the invariant.
LEMMA InvStep == Inv /\ [Next]_vars => Inv'
  <1> SUFFICES ASSUME Inv, [Next]_vars PROVE Inv'
    OBVIOUS
  <1>0. /\ TypeOK /\ Capacity \in Nat /\ MaxLines \in Nat
        /\ Len(lines) \in Nat /\ Len(lines) <= MaxLines
        /\ DOMAIN said \subseteq Nat /\ \A p \in DOMAIN said : said[p] \in Line
    BY BoundsAssumption DEF Inv, TypeOK
  <1>1. CASE Closes \/ VimReads \/ OutputBreaks \/ ServerDies \/ DeadlinePasses \/ UNCHANGED vars
    <2>1. UNCHANGED <<lines, loop, task, workspace, said, stalled>>
      BY <1>1 DEF Closes, VimReads, OutputBreaks, ServerDies, DeadlinePasses, vars, reg, path
    <2>2. /\ closed' \in BOOLEAN /\ server' \in {server, "down"} /\ late' \in BOOLEAN /\ (late => late')
          /\ broken' \in {broken, broken \union {"output"}}
      BY <1>0, <1>1 DEF Closes, VimReads, OutputBreaks, ServerDies, DeadlinePasses, vars, reg,
         path, TypeOK
    <2>3. queue' \in {queue, <<>>} \/ (queue # <<>> /\ queue' = Tail(queue) /\ loop # "ended")
      BY <1>1 DEF Closes, VimReads, OutputBreaks, ServerDies, DeadlinePasses, vars, reg, path
    <2>4. queue' \in Seq(0 .. MaxLines) /\ Len(queue') <= Capacity
      BY <1>0, <2>3, Taking
    <2>5. loop = "ended" => UNCHANGED <<queue, late, broken>>
      BY <1>1 DEF Closes, VimReads, OutputBreaks, ServerDies, DeadlinePasses, vars, reg, path,
         Leaving
    <2>6. TypeOK'
      BY <1>0, <2>1, <2>2, <2>3, <2>4, <2>5, BoundsAssumption DEF TypeOK, Inline,
         Leaving, Running, Kinds, Barriers, Ordered, Features, Line, read
    <2>7. InPlace'
      BY <1>0, <2>1, <2>2, <2>3, <2>4, <2>5, BoundsAssumption DEF Inv, TypeOK,
         InPlace, TasksOfLines, Inline, Leaving, Running, Barriers, Ordered,
         Features, Line, read, Kind
    <2>8. TasksOfLines'
      BY <1>0, <2>1, <2>2, <2>3, <2>4, <2>5, BoundsAssumption DEF Inv, TypeOK,
         TasksOfLines, Running, Line, read, Kind
    <2>9. OnTheWayOut'
      BY <1>0, <2>1, <2>2, <2>3, <2>4, <2>5, BoundsAssumption DEF Inv, TypeOK,
         OnTheWayOut, Drawn, Inline, Running, Line, read, Kind, FeatureTasks,
         InstallTasks, IsFeature
    <2>10. BarrierIsFinal'
      BY <1>0, <2>1, <2>2, <2>3, <2>4, <2>5, BoundsAssumption DEF Inv, TypeOK,
         TasksOfLines, BarrierIsFinal, Barriers, Ordered, Features, Running, Line,
         read, Kind, FeatureTasks, IsFeature
    <2>11. NothingLost'
      BY <1>0, <2>1, <2>2, <2>3, <2>4, <2>5, BoundsAssumption DEF Inv, TypeOK,
         OnTheWayOut, Drawn, NothingLost, Inline, Leaving, Running, Line, read,
         Kind, FeatureTasks, InstallTasks, IsFeature
    <2> QED
      BY <2>6, <2>7, <2>8, <2>9, <2>10, <2>11 DEF Inv
  <1>2. CASE Load \/ StopServers \/ Open \/ Handshake \/ Reload \/ Activate
    <2>1. UNCHANGED <<lines, closed, task, queue, said, stalled, late, broken>>
      BY <1>2 DEF Load, StopServers, Open, Handshake, Reload, Activate, reg, path
    <2>2. loop \in Inline /\ loop' \in Inline \union {"select"}
      BY <1>2 DEF Load, StopServers, Open, Handshake, Reload, Activate, Goes, Inline
    <2>3. /\ workspace' \in BOOLEAN /\ server' \in {"up", "down"}
          /\ server' = "up" => workspace'
          /\ loop' \in {"announcing", "starting"} => workspace'
      BY <1>0, <1>2 DEF Inv, InPlace, TypeOK, Load, StopServers, Open, Handshake,
         Reload, Activate, Goes, reg, path
    <2>4. TypeOK'
      BY <1>0, <2>1, <2>2, <2>3, BoundsAssumption DEF TypeOK, Inline, Leaving,
         Running, Kinds, Barriers, Ordered, Features, Line, read
    <2>5. InPlace'
      BY <1>0, <2>1, <2>2, <2>3, BoundsAssumption DEF Inv, TypeOK, InPlace,
         TasksOfLines, Inline, Leaving, Running, Barriers, Ordered, Features, Line,
         read, Kind
    <2>6. TasksOfLines'
      BY <1>0, <2>1, <2>2, <2>3, BoundsAssumption DEF Inv, TypeOK, TasksOfLines,
         Running, Line, read, Kind
    <2>7. OnTheWayOut'
      BY <1>0, <2>1, <2>2, <2>3, BoundsAssumption DEF Inv, TypeOK, OnTheWayOut,
         Drawn, Inline, Running, Line, read, Kind, FeatureTasks, InstallTasks,
         IsFeature
    <2>8. BarrierIsFinal'
      BY <1>0, <2>1, <2>2, <2>3, BoundsAssumption DEF Inv, TypeOK, TasksOfLines,
         BarrierIsFinal, Barriers, Ordered, Features, Running, Line, read, Kind,
         FeatureTasks, IsFeature
    <2>9. NothingLost'
      BY <1>0, <2>1, <2>2, <2>3, BoundsAssumption DEF Inv, TypeOK, OnTheWayOut,
         Drawn, NothingLost, Inline, Leaving, Running, Line, read, Kind,
         FeatureTasks, InstallTasks, IsFeature
    <2> QED
      BY <2>4, <2>5, <2>6, <2>7, <2>8, <2>9 DEF Inv
  <1>3. CASE BreakOnStall \/ EndOfInput \/ ShutServices \/ Flush
    <2>1. UNCHANGED <<lines, closed, task, queue, said, stalled, late, broken>>
      BY <1>3 DEF BreakOnStall, EndOfInput, ShutServices, Flush, path
    <2>2. /\ loop' \in Leaving \union {"ended"}
          /\ loop' \in Drawn => loop \in Drawn \ {"uninstalling"}
          /\ loop' # "uninstalling"
          /\ loop' = "ended" => loop = "flushing" /\ (late \/ "output" \in broken \/ queue = <<>>)
      BY <1>3 DEF BreakOnStall, EndOfInput, ShutServices, Flush, Goes, Leaving,
         Drawn
    <2>3. /\ workspace' \in BOOLEAN /\ server' \in {"up", "down"}
          /\ server' = "up" => workspace'
      BY <1>0, <1>3 DEF TypeOK, BreakOnStall, EndOfInput, ShutServices, Flush, reg
    <2>4. TypeOK'
      BY <1>0, <2>1, <2>2, <2>3, BoundsAssumption DEF TypeOK, Inline, Leaving,
         Running, Kinds, Barriers, Ordered, Features, Line, read
    <2>5. InPlace'
      BY <1>0, <2>1, <2>2, <2>3, BoundsAssumption DEF Inv, TypeOK, InPlace,
         TasksOfLines, Inline, Leaving, Running, Barriers, Ordered, Features, Line,
         read, Kind
    <2>6. TasksOfLines'
      BY <1>0, <2>1, <2>2, <2>3, BoundsAssumption DEF Inv, TypeOK, TasksOfLines,
         Running, Line, read, Kind
    <2>7. OnTheWayOut'
      BY <1>0, <2>1, <2>2, <2>3, BoundsAssumption DEF Inv, TypeOK, OnTheWayOut,
         Drawn, Inline, Running, Line, read, Kind, FeatureTasks, InstallTasks,
         IsFeature
    <2>8. BarrierIsFinal'
      BY <1>0, <2>1, <2>2, <2>3, BoundsAssumption DEF Inv, TypeOK, TasksOfLines,
         BarrierIsFinal, Barriers, Ordered, Features, Running, Line, read, Kind,
         FeatureTasks, IsFeature
    <2>9. NothingLost'
      BY <1>0, <2>1, <2>2, <2>3, BoundsAssumption DEF Inv, TypeOK, OnTheWayOut,
         Drawn, NothingLost, Inline, Leaving, Running, Line, read, Kind,
         FeatureTasks, InstallTasks, IsFeature
    <2> QED
      BY <2>4, <2>5, <2>6, <2>7, <2>8, <2>9 DEF Inv
  <1>4. CASE ReadBarrier
    <2>1. Reads(Barriers) /\ task' = Aborted(FeatureTasks)
      BY <1>4 DEF ReadBarrier
    <2>2. /\ lines' \in Seq(Kinds) /\ Len(lines') = Len(lines) + 1
          /\ Len(lines) \in Nat /\ Len(lines) + 1 \in Line /\ loop = "select"
          /\ \A l \in 1 .. Len(lines) : lines'[l] = lines[l]
          /\ lines'[Len(lines) + 1] \in Barriers
      BY <1>0, <2>1, Reading DEF Kinds, read
    <2>3. DOMAIN lines = 1 .. Len(lines) /\ DOMAIN lines' = 1 .. Len(lines) + 1
      BY <1>0, <2>2 DEF TypeOK
    <2>4. task' \in [Line -> Running \union {"none", "done", "silent", "aborted"}]
      BY <1>0, <2>1 DEF TypeOK, Aborted
    <2>5. \A l \in Line : \/ task'[l] = task[l] /\ ~(l \in FeatureTasks /\ task[l] \in Running)
                          \/ task'[l] = "aborted" /\ l \in FeatureTasks /\ task[l] \in Running
      BY <1>0, <2>1 DEF TypeOK, Aborted
    <2>6. UNCHANGED <<closed, workspace, server, queue, said, stalled, late, broken>> /\ loop' \in {"loading", "stopping"}
      BY <1>4 DEF ReadBarrier, Goes, reg, path
    <2>7. TypeOK'
      <3>1. (\A m \in Line : task'[m] # "none" => m <= Len(lines')) /\ Len(lines') <= MaxLines
        BY <1>0, <2>1, <2>2, <2>3, <2>4, <2>5, <2>6 DEF Inv, TasksOfLines, Running,
           Line, read
      <3>2. task' \in [Line -> Running \union {"none", "done", "silent", "aborted"}]
        BY <1>0, <2>1, <2>2, <2>3, <2>4, <2>5, <2>6 DEF TypeOK
      <3> QED
        BY <1>0, <2>1, <2>2, <2>3, <2>4, <2>5, <2>6, <3>1, <3>2 DEF TypeOK, Inline,
           read
    <2>8. InPlace'
      BY <1>0, <2>1, <2>2, <2>3, <2>4, <2>5, <2>6, BoundsAssumption DEF Inv,
         TypeOK, InPlace, TasksOfLines, Inline, Leaving, Running, Barriers,
         Ordered, Features, Line, read, Kind
    <2>9. TasksOfLines'
      <3>1. \A m \in Line : m > read' => task'[m] = "none"
        BY <1>0, <2>1, <2>2, <2>3, <2>4, <2>5, <2>6 DEF Inv, TasksOfLines, Running,
           Line, read, Kind
      <3>2. \A m \in 1 .. read' : task'[m] # "none" => Kind(m)' \in Features \union {"install"}
        BY <1>0, <2>1, <2>2, <2>3, <2>4, <2>5, <2>6 DEF Inv, TasksOfLines, Running,
           Line, read, Kind
      <3>3. \A p \in DOMAIN said' : said'[p] <= read' /\ task'[said'[p]] \notin Running
        BY <1>0, <2>1, <2>2, <2>3, <2>4, <2>5, <2>6 DEF Inv, TasksOfLines, Running,
           Line, read, Kind
      <3> QED
        BY <3>1, <3>2, <3>3 DEF TasksOfLines
    <2>10. OnTheWayOut'
      BY <1>0, <2>1, <2>2, <2>3, <2>4, <2>5, <2>6, BoundsAssumption DEF Inv,
         TypeOK, OnTheWayOut, Drawn, Inline, Running, Line, read, Kind,
         FeatureTasks, InstallTasks, IsFeature
    <2>11. BarrierIsFinal'
      <3>1. ASSUME NEW b \in 1 .. read', Kind(b)' \in Barriers, NEW m \in 1 .. b - 1, IsFeature(m)'
            PROVE  task'[m] \notin Running
        BY <1>0, <3>1, <2>1, <2>2, <2>3, <2>4, <2>5, <2>6 DEF Inv, TasksOfLines,
           BarrierIsFinal, Running, Line, read, Kind, IsFeature, Barriers,
           Features, Ordered, FeatureTasks
      <3>2. ASSUME NEW p \in DOMAIN said', NEW q \in DOMAIN said', p < q
            PROVE  said'[p] # said'[q]
        BY <1>0, <3>2, <2>1, <2>2, <2>3, <2>4, <2>5, <2>6 DEF Inv, TasksOfLines,
           BarrierIsFinal, Running, Line, read, Kind, IsFeature, Barriers,
           Features, Ordered
      <3>3. ASSUME NEW p \in DOMAIN said', NEW q \in DOMAIN said', p < q,
                   Kind(said[p])' \in Barriers, IsFeature(said[q])'
            PROVE  ~(said'[q] < said'[p])
        BY <1>0, <3>3, <2>1, <2>2, <2>3, <2>4, <2>5, <2>6 DEF Inv, TasksOfLines,
           BarrierIsFinal, Running, Line, read, Kind, IsFeature, Barriers,
           Features, Ordered
      <3> QED
        BY <3>1, <3>2, <3>3 DEF BarrierIsFinal, Kind, IsFeature, read
    <2>12. NothingLost'
      <3>1. ASSUME NEW m \in Line, task'[m] = "aborted"
            PROVE  late' \/ "input" \in broken' \/ (IsFeature(m)' /\ \E b \in m + 1 .. read' : Kind(b)' \in Barriers)
        BY <1>0, <3>1, <2>1, <2>2, <2>3, <2>4, <2>5, <2>6 DEF Inv, TasksOfLines,
           NothingLost, Running, Line, read, Kind, IsFeature, FeatureTasks
      <3>2. loop' # "ended"
        BY <2>1, <2>2, <2>3, <2>4, <2>5, <2>6 DEF Inline
      <3> QED
        BY <3>1, <3>2 DEF NothingLost, Kind, IsFeature, read
    <2> QED
      BY <2>7, <2>8, <2>9, <2>10, <2>11, <2>12 DEF Inv
  <1>5. CASE ReadBad \/ ReadOrdered
    <2>1. Reads(Ordered \union {"bad"})
      BY <1>5 DEF ReadBad, ReadOrdered, Reads
    <2>2. /\ lines' \in Seq(Kinds) /\ Len(lines') = Len(lines) + 1
          /\ Len(lines) \in Nat /\ Len(lines) + 1 \in Line /\ loop = "select"
          /\ \A l \in 1 .. Len(lines) : lines'[l] = lines[l]
          /\ lines'[Len(lines) + 1] \in Ordered \union {"bad"}
      BY <1>0, <2>1, Reading DEF Kinds, read
    <2>3. DOMAIN lines = 1 .. Len(lines) /\ DOMAIN lines' = 1 .. Len(lines) + 1
      BY <1>0, <2>2 DEF TypeOK
    <2>4. UNCHANGED task /\ UNCHANGED <<closed, workspace, server, queue, said, stalled, late, broken>>
      BY <1>5 DEF ReadBad, ReadOrdered, reg, path
    <2>5. loop' \in Inline \ {"announcing", "starting"}
      BY <1>5, <2>2 DEF ReadBad, ReadOrdered, Goes, Ordered, Inline, read, Reads
    <2>6. TypeOK'
      <3>1. (\A m \in Line : task'[m] # "none" => m <= Len(lines')) /\ Len(lines') <= MaxLines
        BY <1>0, <2>1, <2>2, <2>3, <2>4, <2>5 DEF Inv, TasksOfLines, Running, Line,
           read
      <3>2. task' \in [Line -> Running \union {"none", "done", "silent", "aborted"}]
        BY <1>0, <2>1, <2>2, <2>3, <2>4, <2>5 DEF TypeOK
      <3> QED
        BY <1>0, <2>1, <2>2, <2>3, <2>4, <2>5, <3>1, <3>2 DEF TypeOK, Inline, read
    <2>7. InPlace'
      BY <1>0, <2>1, <2>2, <2>3, <2>4, <2>5, BoundsAssumption DEF Inv, TypeOK,
         InPlace, TasksOfLines, Inline, Leaving, Running, Barriers, Ordered,
         Features, Line, read, Kind
    <2>8. TasksOfLines'
      <3>1. \A m \in Line : m > read' => task'[m] = "none"
        BY <1>0, <2>1, <2>2, <2>3, <2>4, <2>5 DEF Inv, TasksOfLines, Running, Line,
           read, Kind
      <3>2. \A m \in 1 .. read' : task'[m] # "none" => Kind(m)' \in Features \union {"install"}
        BY <1>0, <2>1, <2>2, <2>3, <2>4, <2>5 DEF Inv, TasksOfLines, Running, Line,
           read, Kind
      <3>3. \A p \in DOMAIN said' : said'[p] <= read' /\ task'[said'[p]] \notin Running
        BY <1>0, <2>1, <2>2, <2>3, <2>4, <2>5 DEF Inv, TasksOfLines, Running, Line,
           read, Kind
      <3> QED
        BY <3>1, <3>2, <3>3 DEF TasksOfLines
    <2>9. OnTheWayOut'
      BY <1>0, <2>1, <2>2, <2>3, <2>4, <2>5, BoundsAssumption DEF Inv, TypeOK,
         OnTheWayOut, Drawn, Inline, Running, Line, read, Kind, FeatureTasks,
         InstallTasks, IsFeature
    <2>10. BarrierIsFinal'
      <3>1. ASSUME NEW b \in 1 .. read', Kind(b)' \in Barriers, NEW m \in 1 .. b - 1, IsFeature(m)'
            PROVE  task'[m] \notin Running
        BY <1>0, <3>1, <2>1, <2>2, <2>3, <2>4, <2>5 DEF Inv, TasksOfLines,
           BarrierIsFinal, Running, Line, read, Kind, IsFeature, Barriers,
           Features, Ordered, FeatureTasks
      <3>2. ASSUME NEW p \in DOMAIN said', NEW q \in DOMAIN said', p < q
            PROVE  said'[p] # said'[q]
        BY <1>0, <3>2, <2>1, <2>2, <2>3, <2>4, <2>5 DEF Inv, TasksOfLines,
           BarrierIsFinal, Running, Line, read, Kind, IsFeature, Barriers,
           Features, Ordered
      <3>3. ASSUME NEW p \in DOMAIN said', NEW q \in DOMAIN said', p < q,
                   Kind(said[p])' \in Barriers, IsFeature(said[q])'
            PROVE  ~(said'[q] < said'[p])
        BY <1>0, <3>3, <2>1, <2>2, <2>3, <2>4, <2>5 DEF Inv, TasksOfLines,
           BarrierIsFinal, Running, Line, read, Kind, IsFeature, Barriers,
           Features, Ordered
      <3> QED
        BY <3>1, <3>2, <3>3 DEF BarrierIsFinal, Kind, IsFeature, read
    <2>11. NothingLost'
      <3>1. ASSUME NEW m \in Line, task'[m] = "aborted"
            PROVE  late' \/ "input" \in broken' \/ (IsFeature(m)' /\ \E b \in m + 1 .. read' : Kind(b)' \in Barriers)
        BY <1>0, <3>1, <2>1, <2>2, <2>3, <2>4, <2>5 DEF Inv, TasksOfLines,
           NothingLost, Running, Line, read, Kind, IsFeature, FeatureTasks
      <3>2. loop' # "ended"
        BY <2>1, <2>2, <2>3, <2>4, <2>5 DEF Inline
      <3> QED
        BY <3>1, <3>2 DEF NothingLost, Kind, IsFeature, read
    <2> QED
      BY <2>6, <2>7, <2>8, <2>9, <2>10, <2>11 DEF Inv
  <1>6. CASE SpawnFeature \/ SpawnInstall
    <2>1. Reads(Features \union {"install"})
      BY <1>6 DEF SpawnFeature, SpawnInstall, Spawn, Reads
    <2>2. /\ lines' \in Seq(Kinds) /\ Len(lines') = Len(lines) + 1
          /\ Len(lines) \in Nat /\ Len(lines) + 1 \in Line /\ loop = "select"
          /\ \A l \in 1 .. Len(lines) : lines'[l] = lines[l]
          /\ lines'[Len(lines) + 1] \in Features \union {"install"}
      BY <1>0, <2>1, Reading DEF Kinds, read
    <2>3. DOMAIN lines = 1 .. Len(lines) /\ DOMAIN lines' = 1 .. Len(lines) + 1
      BY <1>0, <2>2 DEF TypeOK
    <2>4. UNCHANGED loop /\ UNCHANGED <<closed, workspace, server, queue, said, stalled, late, broken>>
      BY <1>6 DEF SpawnFeature, SpawnInstall, Spawn, reg, path
    <2>5. PICK as \in {"waiting", "installing"} : task' = [task EXCEPT ![Len(lines) + 1] = as]
      BY <1>6 DEF SpawnFeature, SpawnInstall, Spawn, read
    <2>6. as \in Running
      BY DEF Running
    <2>7. task'[Len(lines) + 1] = as /\ \A m \in Line : m # Len(lines) + 1 => task'[m] = task[m]
      BY <1>0, <2>2, <2>5 DEF TypeOK
    <2>8. TypeOK'
      <3>1. (\A m \in Line : task'[m] # "none" => m <= Len(lines')) /\ Len(lines') <= MaxLines
        BY <1>0, <2>1, <2>2, <2>3, <2>4, <2>6, <2>7 DEF Inv, TasksOfLines, Running,
           Line, read
      <3>2. task' \in [Line -> Running \union {"none", "done", "silent", "aborted"}]
        BY <1>0, <2>1, <2>2, <2>3, <2>4, <2>5, <2>6, <2>7 DEF TypeOK
      <3> QED
        BY <1>0, <2>1, <2>2, <2>3, <2>4, <2>6, <2>7, <3>1, <3>2 DEF TypeOK, Inline,
           read
    <2>9. InPlace'
      BY <1>0, <2>1, <2>2, <2>3, <2>4, <2>5, <2>6, <2>7, BoundsAssumption DEF Inv,
         TypeOK, InPlace, TasksOfLines, Inline, Leaving, Running, Barriers,
         Ordered, Features, Line, read, Kind
    <2>10. TasksOfLines'
      <3>1. \A m \in Line : m > read' => task'[m] = "none"
        BY <1>0, <2>1, <2>2, <2>3, <2>4, <2>6, <2>7 DEF Inv, TasksOfLines, Running,
           Line, read, Kind
      <3>2. \A m \in 1 .. read' : task'[m] # "none" => Kind(m)' \in Features \union {"install"}
        BY <1>0, <2>1, <2>2, <2>3, <2>4, <2>6, <2>7 DEF Inv, TasksOfLines, Running,
           Line, read, Kind
      <3>3. \A p \in DOMAIN said' : said'[p] <= read' /\ task'[said'[p]] \notin Running
        BY <1>0, <2>1, <2>2, <2>3, <2>4, <2>6, <2>7 DEF Inv, TasksOfLines, Running,
           Line, read, Kind
      <3> QED
        BY <3>1, <3>2, <3>3 DEF TasksOfLines
    <2>11. OnTheWayOut'
      BY <1>0, <2>1, <2>2, <2>3, <2>4, <2>5, <2>6, <2>7, BoundsAssumption DEF Inv,
         TypeOK, OnTheWayOut, Drawn, Inline, Running, Line, read, Kind,
         FeatureTasks, InstallTasks, IsFeature
    <2>12. BarrierIsFinal'
      <3>1. ASSUME NEW b \in 1 .. read', Kind(b)' \in Barriers, NEW m \in 1 .. b - 1, IsFeature(m)'
            PROVE  task'[m] \notin Running
        BY <1>0, <3>1, <2>1, <2>2, <2>3, <2>4, <2>6, <2>7 DEF Inv, TasksOfLines,
           BarrierIsFinal, Running, Line, read, Kind, IsFeature, Barriers,
           Features, Ordered, FeatureTasks
      <3>2. ASSUME NEW p \in DOMAIN said', NEW q \in DOMAIN said', p < q
            PROVE  said'[p] # said'[q]
        BY <1>0, <3>2, <2>1, <2>2, <2>3, <2>4, <2>6, <2>7 DEF Inv, TasksOfLines,
           BarrierIsFinal, Running, Line, read, Kind, IsFeature, Barriers,
           Features, Ordered
      <3>3. ASSUME NEW p \in DOMAIN said', NEW q \in DOMAIN said', p < q,
                   Kind(said[p])' \in Barriers, IsFeature(said[q])'
            PROVE  ~(said'[q] < said'[p])
        BY <1>0, <3>3, <2>1, <2>2, <2>3, <2>4, <2>6, <2>7 DEF Inv, TasksOfLines,
           BarrierIsFinal, Running, Line, read, Kind, IsFeature, Barriers,
           Features, Ordered
      <3> QED
        BY <3>1, <3>2, <3>3 DEF BarrierIsFinal, Kind, IsFeature, read
    <2>13. NothingLost'
      <3>1. ASSUME NEW m \in Line, task'[m] = "aborted"
            PROVE  late' \/ "input" \in broken' \/ (IsFeature(m)' /\ \E b \in m + 1 .. read' : Kind(b)' \in Barriers)
        <4>1. m # Len(lines) + 1 /\ task[m] = "aborted"
          BY <2>6, <2>7, <3>1 DEF Running
        <4>2. CASE late \/ "input" \in broken
          BY <2>4, <4>2
        <4>3. CASE IsFeature(m) /\ \E b \in m + 1 .. read : Kind(b) \in Barriers
          BY <1>0, <2>2, <2>3, <4>3 DEF IsFeature, Kind, read, Line
        <4> QED
          BY <4>1, <4>2, <4>3 DEF Inv, NothingLost
      <3>2. loop' # "ended"
        BY <2>1, <2>2, <2>3, <2>4, <2>6, <2>7 DEF Inline
      <3> QED
        BY <3>1, <3>2 DEF NothingLost, Kind, IsFeature, read
    <2> QED
      BY <2>8, <2>9, <2>10, <2>11, <2>12, <2>13 DEF Inv
  <1>7. CASE Announce \/ Report
    <2>1. Sent(0) \/ GivesUp
      BY <1>7 DEF Announce, Report
    <2>2. UNCHANGED <<lines, closed, task, workspace, server, late>> /\ loop' \in {"select", "starting"}
      BY <1>7 DEF Announce, Report, Goes, reg
    <2>3. loop \in Inline /\ (loop' = "starting" => workspace)
      BY <1>7 DEF Inv, InPlace, Announce, Report, Goes, Inline
    <2>4. /\ queue' \in Seq(0 .. MaxLines) /\ Len(queue') <= Capacity
          /\ said' \in Seq(Line) /\ stalled' \in BOOLEAN /\ broken' = broken
      BY <1>0, <2>1, Sending, BoundsAssumption
    <2>5. said' = said
      BY <1>0, <2>1, Sending, BoundsAssumption
    <2>6. TypeOK'
      BY <1>0, <2>1, <2>2, <2>3, <2>4, <2>5, BoundsAssumption DEF TypeOK, Inline,
         Leaving, Running, Kinds, Barriers, Ordered, Features, Line, read
    <2>7. InPlace'
      BY <1>0, <2>1, <2>2, <2>3, <2>4, <2>5, BoundsAssumption DEF Inv, TypeOK,
         InPlace, TasksOfLines, Inline, Leaving, Running, Barriers, Ordered,
         Features, Line, read, Kind
    <2>8. TasksOfLines'
      BY <1>0, <2>1, <2>2, <2>3, <2>4, <2>5, BoundsAssumption DEF Inv, TypeOK,
         TasksOfLines, Running, Line, read, Kind
    <2>9. OnTheWayOut'
      BY <1>0, <2>1, <2>2, <2>3, <2>4, <2>5, BoundsAssumption DEF Inv, TypeOK,
         OnTheWayOut, Drawn, Inline, Running, Line, read, Kind, FeatureTasks,
         InstallTasks, IsFeature
    <2>10. BarrierIsFinal'
      BY <1>0, <2>1, <2>2, <2>3, <2>4, <2>5, BoundsAssumption DEF Inv, TypeOK,
         TasksOfLines, BarrierIsFinal, Barriers, Ordered, Features, Running, Line,
         read, Kind, FeatureTasks, IsFeature
    <2>11. NothingLost'
      BY <1>0, <2>1, <2>2, <2>3, <2>4, <2>5, BoundsAssumption DEF Inv, TypeOK,
         OnTheWayOut, Drawn, NothingLost, Inline, Leaving, Running, Line, read,
         Kind, FeatureTasks, InstallTasks, IsFeature
    <2> QED
      BY <2>6, <2>7, <2>8, <2>9, <2>10, <2>11 DEF Inv
  <1>8. CASE Answer
    <2>1. PICK e \in {0, Len(lines)} : Sent(e) \/ GivesUp
      BY <1>8 DEF Answer, read
    <2>2. loop = "answering" /\ Len(lines) \in Line /\ e \in 0 .. MaxLines
      BY <1>8, BoundsAssumption DEF Inv, TypeOK, InPlace, Answer, Inline, Line, read
    <2>3. UNCHANGED <<lines, closed, task, workspace, server, late>> /\ loop' = "select"
      BY <1>8 DEF Answer, Goes, reg
    <2>4. /\ queue' \in Seq(0 .. MaxLines) /\ Len(queue') <= Capacity
          /\ said' \in Seq(Line) /\ stalled' \in BOOLEAN /\ broken' = broken
      BY <1>0, <2>1, <2>2, Sending
    <2>5. said' = said \/ said' = Append(said, Len(lines))
      BY <1>0, <2>1, <2>2, Sending
    <2>6. \A p \in DOMAIN said' :
            \/ p \in DOMAIN said /\ said'[p] = said[p]
            \/ said'[p] = Len(lines) /\ p = Len(said) + 1 /\ \A q \in DOMAIN said : q < p
      BY <1>0, <2>2, <2>5, Saying
    <2>7. /\ Kind(Len(lines)) \notin Features \union {"install"}
          /\ \A p \in DOMAIN said : said[p] # Len(lines)
      BY <2>2 DEF Inv, InPlace, Inline, read
    <2>8. TypeOK'
      BY <1>0, <2>1, <2>2, <2>3, <2>4, <2>5, <2>6, <2>7,
         BoundsAssumption DEF TypeOK, Inline, Leaving, Running, Kinds, Barriers,
         Ordered, Features, Line, read
    <2>9. InPlace'
      BY <1>0, <2>1, <2>2, <2>3, <2>4, <2>5, <2>6, <2>7, BoundsAssumption DEF Inv,
         TypeOK, InPlace, TasksOfLines, Inline, Leaving, Running, Barriers,
         Ordered, Features, Line, read, Kind
    <2>10. TasksOfLines'
      <3>1. \A m \in Line : m > read' => task'[m] = "none"
        BY <1>0, <2>1, <2>2, <2>3, <2>4, <2>5, <2>6, <2>7 DEF Inv, TasksOfLines,
           Running, Line, read, Kind
      <3>2. \A m \in 1 .. read' : task'[m] # "none" => Kind(m)' \in Features \union {"install"}
        BY <1>0, <2>1, <2>2, <2>3, <2>4, <2>5, <2>6, <2>7 DEF Inv, TasksOfLines,
           Running, Line, read, Kind
      <3>3. \A p \in DOMAIN said' : said'[p] <= read' /\ task'[said'[p]] \notin Running
        BY <1>0, <2>1, <2>2, <2>3, <2>4, <2>5, <2>6, <2>7 DEF Inv, TasksOfLines,
           Running, Line, read, Kind
      <3> QED
        BY <3>1, <3>2, <3>3 DEF TasksOfLines
    <2>11. OnTheWayOut'
      BY <1>0, <2>1, <2>2, <2>3, <2>4, <2>5, <2>6, <2>7, BoundsAssumption DEF Inv,
         TypeOK, OnTheWayOut, Drawn, Inline, Running, Line, read, Kind,
         FeatureTasks, InstallTasks, IsFeature
    <2>12. BarrierIsFinal'
      <3>1. ASSUME NEW b \in 1 .. read', Kind(b)' \in Barriers, NEW m \in 1 .. b - 1, IsFeature(m)'
            PROVE  task'[m] \notin Running
        BY <1>0, <3>1, <2>1, <2>2, <2>3, <2>4, <2>5, <2>6, <2>7 DEF Inv,
           TasksOfLines, BarrierIsFinal, Running, Line, read, Kind, IsFeature,
           Barriers, Features
      <3>2. ASSUME NEW p \in DOMAIN said', NEW q \in DOMAIN said', p < q
            PROVE  said'[p] # said'[q]
        BY <1>0, <3>2, <2>1, <2>2, <2>3, <2>4, <2>5, <2>6, <2>7 DEF Inv,
           TasksOfLines, BarrierIsFinal, Running, Line, read, Kind, IsFeature,
           Barriers, Features, InPlace
      <3>3. ASSUME NEW p \in DOMAIN said', NEW q \in DOMAIN said', p < q,
                   Kind(said[p])' \in Barriers, IsFeature(said[q])'
            PROVE  ~(said'[q] < said'[p])
        <4>1. said' \in Seq(Line) /\ said \in Seq(Line) /\ lines' = lines
          BY <1>0, <2>3, <2>4 DEF TypeOK
        <4>2. p \in DOMAIN said /\ said'[p] = said[p]
          BY <2>6, <3>3, <4>1
        <4>3. CASE q \in DOMAIN said /\ said'[q] = said[q]
          BY <1>0, <3>3, <4>1, <4>2, <4>3 DEF Inv, BarrierIsFinal, Kind, IsFeature
        <4>4. CASE said'[q] = Len(lines)
          <5>1. said[p] <= Len(lines)
            BY <1>0, <4>2 DEF Inv, TasksOfLines, read
          <5>2. said[p] \in Nat /\ Len(lines) \in Nat
            BY <1>0, <4>1, <4>2, BoundsAssumption DEF TypeOK, Line
          <5> QED
            BY <4>2, <4>4, <5>1, <5>2
        <4> QED
          BY <2>6, <3>3, <4>3, <4>4
      <3> QED
        BY <3>1, <3>2, <3>3 DEF BarrierIsFinal, Kind, IsFeature, read
    <2>13. NothingLost'
      BY <1>0, <2>1, <2>2, <2>3, <2>4, <2>5, <2>6, <2>7, BoundsAssumption DEF Inv,
         TypeOK, OnTheWayOut, Drawn, NothingLost, Inline, Leaving, Running, Line,
         read, Kind, FeatureTasks, InstallTasks, IsFeature
    <2> QED
      BY <2>8, <2>9, <2>10, <2>11, <2>12, <2>13 DEF Inv
  <1>9. CASE DrainFeatures
    <2>1. task' = Aborted(FeatureTasks)
      BY <1>9 DEF DrainFeatures
    <2>2. task' \in [Line -> Running \union {"none", "done", "silent", "aborted"}]
      BY <1>0, <2>1 DEF TypeOK, Aborted
    <2>3. \A l \in Line : \/ task'[l] = task[l] /\ ~(l \in FeatureTasks /\ task[l] \in Running)
                          \/ task'[l] = "aborted" /\ l \in FeatureTasks /\ task[l] \in Running
      BY <1>0, <2>1 DEF TypeOK, Aborted
    <2>4. UNCHANGED lines /\ UNCHANGED <<closed, workspace, server, queue, said, stalled, late, broken>> /\ loop' = "uninstalling"
      BY <1>9 DEF DrainFeatures, Goes, reg, path
    <2>5. late \/ \A l \in FeatureTasks : task[l] \notin Running
      BY <1>9 DEF DrainFeatures, Drained
    <2>6. TypeOK'
      BY <1>0, <2>1, <2>2, <2>3, <2>4, <2>5, BoundsAssumption DEF TypeOK, Inline,
         Leaving, Running, Kinds, Barriers, Ordered, Features, Line, read
    <2>7. InPlace'
      BY <1>0, <2>1, <2>2, <2>3, <2>4, <2>5, BoundsAssumption DEF Inv, TypeOK,
         InPlace, TasksOfLines, Inline, Leaving, Running, Barriers, Ordered,
         Features, Line, read, Kind
    <2>8. TasksOfLines'
      <3>1. \A m \in Line : m > read' => task'[m] = "none"
        BY <1>0, <2>1, <2>2, <2>3, <2>4, <2>5 DEF Inv, TasksOfLines, Running, Line,
           read, Kind
      <3>2. \A m \in 1 .. read' : task'[m] # "none" => Kind(m)' \in Features \union {"install"}
        BY <1>0, <2>1, <2>2, <2>3, <2>4, <2>5 DEF Inv, TasksOfLines, Running, Line,
           read, Kind
      <3>3. \A p \in DOMAIN said' : said'[p] <= read' /\ task'[said'[p]] \notin Running
        BY <1>0, <2>1, <2>2, <2>3, <2>4, <2>5 DEF Inv, TasksOfLines, Running, Line,
           read, Kind
      <3> QED
        BY <3>1, <3>2, <3>3 DEF TasksOfLines
    <2>9. OnTheWayOut'
      BY <1>0, <2>1, <2>2, <2>3, <2>4, <2>5, BoundsAssumption DEF Inv, TypeOK,
         OnTheWayOut, Drawn, Inline, Running, Line, read, Kind, FeatureTasks,
         InstallTasks, IsFeature
    <2>10. BarrierIsFinal'
      BY <1>0, <2>1, <2>2, <2>3, <2>4, <2>5, BoundsAssumption DEF Inv, TypeOK,
         TasksOfLines, BarrierIsFinal, Barriers, Ordered, Features, Running, Line,
         read, Kind, FeatureTasks, IsFeature
    <2>11. NothingLost'
      BY <1>0, <2>1, <2>2, <2>3, <2>4, <2>5, BoundsAssumption DEF Inv, TypeOK,
         OnTheWayOut, Drawn, NothingLost, Inline, Leaving, Running, Line, read,
         Kind, FeatureTasks, InstallTasks, IsFeature
    <2> QED
      BY <2>6, <2>7, <2>8, <2>9, <2>10, <2>11 DEF Inv
  <1>10. CASE DrainInstalls
    <2>1. task' = Aborted(InstallTasks) /\ loop = "uninstalling"
      BY <1>10 DEF DrainInstalls
    <2>2. task' \in [Line -> Running \union {"none", "done", "silent", "aborted"}]
      BY <1>0, <2>1 DEF TypeOK, Aborted
    <2>3. \A l \in Line : \/ task'[l] = task[l] /\ ~(l \in InstallTasks /\ task[l] \in Running)
                          \/ task'[l] = "aborted" /\ l \in InstallTasks /\ task[l] \in Running
      BY <1>0, <2>1 DEF TypeOK, Aborted
    <2>4. UNCHANGED lines /\ UNCHANGED <<closed, workspace, server, queue, said, stalled, late, broken>> /\ loop' = "closing"
      BY <1>10 DEF DrainInstalls, Goes, reg, path
    <2>5. late \/ \A l \in InstallTasks : task[l] \notin Running
      BY <1>10 DEF DrainInstalls, Drained
    <2>6. TypeOK'
      BY <1>0, <2>1, <2>2, <2>3, <2>4, <2>5, BoundsAssumption DEF TypeOK, Inline,
         Leaving, Running, Kinds, Barriers, Ordered, Features, Line, read
    <2>7. InPlace'
      BY <1>0, <2>1, <2>2, <2>3, <2>4, <2>5, BoundsAssumption DEF Inv, TypeOK,
         InPlace, TasksOfLines, Inline, Leaving, Running, Barriers, Ordered,
         Features, Line, read, Kind
    <2>8. TasksOfLines'
      <3>1. \A m \in Line : m > read' => task'[m] = "none"
        BY <1>0, <2>1, <2>2, <2>3, <2>4, <2>5 DEF Inv, TasksOfLines, Running, Line,
           read, Kind
      <3>2. \A m \in 1 .. read' : task'[m] # "none" => Kind(m)' \in Features \union {"install"}
        BY <1>0, <2>1, <2>2, <2>3, <2>4, <2>5 DEF Inv, TasksOfLines, Running, Line,
           read, Kind
      <3>3. \A p \in DOMAIN said' : said'[p] <= read' /\ task'[said'[p]] \notin Running
        BY <1>0, <2>1, <2>2, <2>3, <2>4, <2>5 DEF Inv, TasksOfLines, Running, Line,
           read, Kind
      <3> QED
        BY <3>1, <3>2, <3>3 DEF TasksOfLines
    <2>9. OnTheWayOut'
      BY <1>0, <2>1, <2>2, <2>3, <2>4, <2>5, BoundsAssumption DEF Inv, TypeOK,
         OnTheWayOut, Drawn, Inline, Running, Line, read, Kind, FeatureTasks,
         InstallTasks, IsFeature
    <2>10. BarrierIsFinal'
      BY <1>0, <2>1, <2>2, <2>3, <2>4, <2>5, BoundsAssumption DEF Inv, TypeOK,
         TasksOfLines, BarrierIsFinal, Barriers, Ordered, Features, Running, Line,
         read, Kind, FeatureTasks, IsFeature
    <2>11. NothingLost'
      BY <1>0, <2>1, <2>2, <2>3, <2>4, <2>5, BoundsAssumption DEF Inv, TypeOK,
         OnTheWayOut, Drawn, NothingLost, Inline, Leaving, Running, Line, read,
         Kind, FeatureTasks, InstallTasks, IsFeature
    <2> QED
      BY <2>6, <2>7, <2>8, <2>9, <2>10, <2>11 DEF Inv
  <1>11. ASSUME NEW l \in Line, Advances(l), loop # "ended" PROVE Inv'
    <2>1. UNCHANGED <<lines, closed, loop, workspace, server, queue, said, stalled, late, broken>>
      BY <1>0, <1>11, Advancing
    <2>2. task[l] \in Running /\ task'[l] \in Running \union {"silent"}
      BY <1>0, <1>11, Advancing
    <2>3. task' \in [Line -> Running \union {"none", "done", "silent", "aborted"}]
      BY <1>0, <1>11, Advancing
    <2>4. \A m \in Line : m # l => task'[m] = task[m]
      BY <1>0, <1>11, Advancing
    <2>5. TypeOK'
      BY <1>0, <2>1, <2>2, <2>3, <2>4, BoundsAssumption DEF TypeOK, Inline,
         Leaving, Running, Kinds, Barriers, Ordered, Features, Line, read
    <2>6. InPlace'
      BY <1>0, <2>1, <2>2, <2>3, <2>4, BoundsAssumption DEF Inv, TypeOK, InPlace,
         TasksOfLines, Inline, Leaving, Running, Barriers, Ordered, Features, Line,
         read, Kind
    <2>7. TasksOfLines'
      BY <1>0, <2>1, <2>2, <2>3, <2>4, BoundsAssumption DEF Inv, TypeOK,
         TasksOfLines, Running, Line, read, Kind
    <2>8. OnTheWayOut'
      BY <1>0, <2>1, <2>2, <2>3, <2>4, BoundsAssumption DEF Inv, TypeOK,
         OnTheWayOut, Drawn, Inline, Running, Line, read, Kind, FeatureTasks,
         InstallTasks, IsFeature
    <2>9. BarrierIsFinal'
      BY <1>0, <2>1, <2>2, <2>3, <2>4, BoundsAssumption DEF Inv, TypeOK,
         TasksOfLines, BarrierIsFinal, Barriers, Ordered, Features, Running, Line,
         read, Kind, FeatureTasks, IsFeature
    <2>10. NothingLost'
      BY <1>0, <2>1, <2>2, <2>3, <2>4, BoundsAssumption DEF Inv, TypeOK,
         OnTheWayOut, Drawn, NothingLost, Inline, Leaving, Running, Line, read,
         Kind, FeatureTasks, InstallTasks, IsFeature
    <2> QED
      BY <2>5, <2>6, <2>7, <2>8, <2>9, <2>10 DEF Inv
  <1>12. ASSUME NEW l \in Line, Reply(l), loop # "ended" PROVE Inv'
    <2>1. l \in 0 .. MaxLines /\ (Sent(l) \/ GivesUp)
      BY <1>12, BoundsAssumption DEF Reply, Line
    <2>2. UNCHANGED <<lines, closed, loop, workspace, server, late>>
      BY <1>12 DEF Reply, reg
    <2>3. task[l] = "sending" /\ task' = [task EXCEPT ![l] = "done"] /\ loop # "ended"
      BY <1>12 DEF Reply, Becomes
    <2>4. /\ queue' \in Seq(0 .. MaxLines) /\ Len(queue') <= Capacity
          /\ said' \in Seq(Line) /\ stalled' \in BOOLEAN /\ broken' = broken
      BY <1>0, <2>1, Sending
    <2>5. said' = said \/ said' = Append(said, l)
      BY <1>0, <2>1, Sending
    <2>6. \A p \in DOMAIN said' :
            \/ p \in DOMAIN said /\ said'[p] = said[p]
            \/ said'[p] = l /\ p = Len(said) + 1 /\ \A q \in DOMAIN said : q < p
      BY <1>0, <1>12, <2>5, Saying
    <2>7. TypeOK'
      BY <1>0, <2>1, <2>2, <2>3, <2>4, <2>5, <2>6, BoundsAssumption DEF TypeOK,
         Inline, Leaving, Running, Kinds, Barriers, Ordered, Features, Line, read
    <2>8. InPlace'
      <3>1. loop \in Inline => l # Len(lines)
        BY <1>0, <2>1, <2>2, <2>3, <2>4, <2>5, <2>6 DEF Inv, InPlace, TasksOfLines,
           read
      <3> QED
        BY <1>0, <2>1, <2>2, <2>3, <2>4, <2>5, <2>6, <3>1 DEF Inv, InPlace, read,
           Kind
    <2>9. TasksOfLines'
      <3>1. /\ lines' = lines /\ task'[l] = "done" /\ task[l] = "sending" /\ l <= read
            /\ \A m \in Line : m # l => task'[m] = task[m]
        BY <1>0, <1>12, <2>2, <2>3 DEF TypeOK
      <3>2. \A m \in Line : m > read' => task'[m] = "none"
        BY <1>0, <1>12, <3>1 DEF Inv, TasksOfLines, read
      <3>3. \A m \in 1 .. read' : task'[m] # "none" => Kind(m)' \in Features \union {"install"}
        <4>1. read' = read /\ \A m \in 1 .. read : m \in Line
          BY <1>0, <2>2, BoundsAssumption DEF TypeOK, Line, read
        <4> QED
          BY <1>0, <3>1, <4>1 DEF Inv, TasksOfLines, Kind
      <3>4. \A p \in DOMAIN said' : said'[p] <= read' /\ task'[said'[p]] \notin Running
        <4> SUFFICES ASSUME NEW p \in DOMAIN said'
                     PROVE  said'[p] <= read' /\ task'[said'[p]] \notin Running
          OBVIOUS
        <4>1. CASE p \in DOMAIN said /\ said'[p] = said[p]
          <5>1. said[p] \in Line /\ said[p] <= read /\ task[said[p]] \notin Running
            BY <1>0, <4>1 DEF Inv, TypeOK, TasksOfLines
          <5>2. said[p] # l
            BY <3>1, <5>1 DEF Running
          <5> QED
            BY <3>1, <4>1, <5>1, <5>2 DEF read
        <4>2. CASE said'[p] = l
          BY <3>1, <4>2 DEF Running, read
        <4> QED
          BY <2>6, <4>1, <4>2
      <3> QED
        BY <3>2, <3>3, <3>4 DEF TasksOfLines
    <2>10. OnTheWayOut'
      BY <1>0, <2>1, <2>2, <2>3, <2>4, <2>5, <2>6, BoundsAssumption DEF Inv,
         TypeOK, OnTheWayOut, Drawn, Inline, Running, Line, read, Kind,
         FeatureTasks, InstallTasks, IsFeature
    <2>11. BarrierIsFinal'
      <3>1. ASSUME NEW b \in 1 .. read', Kind(b)' \in Barriers, NEW m \in 1 .. b - 1, IsFeature(m)'
            PROVE  task'[m] \notin Running
        <4>1. lines' = lines
          BY <2>2
        <4>2. task[m] \notin Running
          BY <1>0, <3>1, <4>1 DEF Inv, BarrierIsFinal, read, Kind, IsFeature
        <4>3. m \in Line
          BY <1>0, <3>1, <4>1, BoundsAssumption DEF TypeOK, Line, read
        <4>4. task'[m] = IF m = l THEN "done" ELSE task[m]
          BY <1>0, <2>3, <4>3 DEF TypeOK
        <4> QED
          BY <4>2, <4>4 DEF Running
      <3>2. ASSUME NEW p \in DOMAIN said', NEW q \in DOMAIN said', p < q
            PROVE  said'[p] # said'[q]
        BY <1>0, <3>2, <2>1, <2>2, <2>3, <2>4, <2>5, <2>6 DEF Inv, TasksOfLines,
           BarrierIsFinal, Running, Line, read, Kind, IsFeature, Barriers,
           Features
      <3>3. ASSUME NEW p \in DOMAIN said', NEW q \in DOMAIN said', p < q,
                   Kind(said[p])' \in Barriers, IsFeature(said[q])'
            PROVE  ~(said'[q] < said'[p])
        <4>1. SUFFICES ASSUME said'[q] < said'[p] PROVE FALSE
          OBVIOUS
        <4>2. p \in DOMAIN said /\ said'[p] = said[p]
          BY <1>0, <3>3, <2>6
        <4>3. CASE q \in DOMAIN said /\ said'[q] = said[q]
          BY <1>0, <2>2, <3>3, <4>1, <4>2, <4>3 DEF Inv, BarrierIsFinal, Kind,
             IsFeature
        <4>4. CASE said'[q] = l
          <5>1. said[p] \in 1 .. read /\ l \in 1 .. said[p] - 1
            BY <1>0, <4>1, <4>2, <4>4 DEF Inv, TasksOfLines, Line, read
          <5>2. Kind(said[p]) \in Barriers /\ IsFeature(l)
            BY <2>2, <3>3, <4>2, <4>4 DEF Kind, IsFeature
          <5> QED
            BY <2>3, <5>1, <5>2 DEF Inv, BarrierIsFinal, Running
        <4> QED
          BY <2>6, <4>3, <4>4
      <3> QED
        BY <3>1, <3>2, <3>3 DEF BarrierIsFinal, Kind, IsFeature, read
    <2>12. NothingLost'
      BY <1>0, <2>1, <2>2, <2>3, <2>4, <2>5, <2>6, BoundsAssumption DEF Inv,
         TypeOK, OnTheWayOut, Drawn, NothingLost, Inline, Leaving, Running, Line,
         read, Kind, FeatureTasks, InstallTasks, IsFeature
    <2> QED
      BY <2>7, <2>8, <2>9, <2>10, <2>11, <2>12 DEF Inv
  <1>13. CASE ReadFails
    <2>1. task' = Aborted(Line)
      BY <1>13 DEF ReadFails
    <2>2. task' \in [Line -> Running \union {"none", "done", "silent", "aborted"}]
      BY <1>0, <2>1 DEF TypeOK, Aborted
    <2>3. \A l \in Line : \/ task'[l] = task[l] /\ task[l] \notin Running
                          \/ task'[l] = "aborted" /\ task[l] \in Running
      BY <1>0, <2>1 DEF TypeOK, Aborted
    <2>4. UNCHANGED lines /\ UNCHANGED <<closed, workspace, server, queue, said, stalled, late>> /\ loop' = "ended"
      BY <1>13 DEF ReadFails, Goes, reg, path
    <2>5. broken' = broken \union {"input"}
      BY <1>13 DEF ReadFails
    <2>6. TypeOK'
      BY <1>0, <2>1, <2>2, <2>3, <2>4, <2>5, BoundsAssumption DEF TypeOK, Inline,
         Leaving, Running, Kinds, Barriers, Ordered, Features, Line, read
    <2>7. InPlace'
      BY <1>0, <2>1, <2>2, <2>3, <2>4, <2>5, BoundsAssumption DEF Inv, TypeOK,
         InPlace, TasksOfLines, Inline, Leaving, Running, Barriers, Ordered,
         Features, Line, read, Kind
    <2>8. TasksOfLines'
      <3>1. \A m \in Line : m > read' => task'[m] = "none"
        BY <1>0, <2>1, <2>2, <2>3, <2>4, <2>5 DEF Inv, TasksOfLines, Running, Line,
           read, Kind
      <3>2. \A m \in 1 .. read' : task'[m] # "none" => Kind(m)' \in Features \union {"install"}
        BY <1>0, <2>1, <2>2, <2>3, <2>4, <2>5 DEF Inv, TasksOfLines, Running, Line,
           read, Kind
      <3>3. \A p \in DOMAIN said' : said'[p] <= read' /\ task'[said'[p]] \notin Running
        BY <1>0, <2>1, <2>2, <2>3, <2>4, <2>5 DEF Inv, TasksOfLines, Running, Line,
           read, Kind
      <3> QED
        BY <3>1, <3>2, <3>3 DEF TasksOfLines
    <2>9. OnTheWayOut'
      BY <1>0, <2>1, <2>2, <2>3, <2>4, <2>5, BoundsAssumption DEF Inv, TypeOK,
         OnTheWayOut, Drawn, Inline, Running, Line, read, Kind, FeatureTasks,
         InstallTasks, IsFeature
    <2>10. BarrierIsFinal'
      BY <1>0, <2>1, <2>2, <2>3, <2>4, <2>5, BoundsAssumption DEF Inv, TypeOK,
         TasksOfLines, BarrierIsFinal, Barriers, Ordered, Features, Running, Line,
         read, Kind, FeatureTasks, IsFeature
    <2>11. NothingLost'
      BY <1>0, <2>1, <2>2, <2>3, <2>4, <2>5, BoundsAssumption DEF Inv, TypeOK,
         OnTheWayOut, Drawn, NothingLost, Inline, Leaving, Running, Line, read,
         Kind, FeatureTasks, InstallTasks, IsFeature
    <2> QED
      BY <2>6, <2>7, <2>8, <2>9, <2>10, <2>11 DEF Inv
  <1> QED
    BY <1>1, <1>2, <1>3, <1>4, <1>5, <1>6, <1>7, <1>8, <1>9, <1>10, <1>11,
       <1>12, <1>13 DEF Next, Read, Loop, Task, Advances

\* The invariant holds at the start and is kept.
LEMMA Inductive == Spec => []Inv
  <1>1. ASSUME Init PROVE Inv
    <2>1. lines = <<>> /\ queue = <<>> /\ said = <<>> /\ read = 0 /\ loop = "select"
          /\ task = [l \in Line |-> "none"] /\ server = "down"
      BY <1>1 DEF Init, read
    <2>2. TypeOK
      <3>1. <<>> \in Seq(Kinds) /\ <<>> \in Seq(0 .. MaxLines) /\ <<>> \in Seq(Line) /\ Len(<<>>) = 0
        OBVIOUS
      <3>2. /\ lines \in Seq(Kinds) /\ queue \in Seq(0 .. MaxLines) /\ said \in Seq(Line)
            /\ Len(lines) <= MaxLines /\ Len(queue) <= Capacity
        BY <2>1, <3>1, BoundsAssumption
      <3>3. task \in [Line -> Running \union {"none", "done", "silent", "aborted"}]
        BY <2>1
      <3> QED
        BY <1>1, <2>1, <3>2, <3>3 DEF Init, TypeOK
    <2>3. DOMAIN said = {} /\ 1 .. read = {} /\ \A l \in Line : task[l] = "none"
      BY <2>1
    <2>4. InPlace /\ TasksOfLines /\ OnTheWayOut
      BY <2>1, <2>3 DEF InPlace, TasksOfLines, OnTheWayOut, Inline, Drawn
    <2>5. BarrierIsFinal /\ NothingLost
      BY <2>1, <2>3 DEF BarrierIsFinal, NothingLost
    <2> QED
      BY <2>2, <2>4, <2>5 DEF Inv
  <1>2. Inv /\ [Next]_vars => Inv'
    BY InvStep
  <1> QED
    BY <1>1, <1>2, PTL DEF Spec

\* Every variable keeps its type, whatever the number of lines and the room of
\* the queue: a running server always belongs to a workspace (serve).
THEOREM TypeCorrect == Spec => []TypeOK
  BY Inductive, PTL DEF Inv

\* No feature request outlives a lifecycle request that was read after it, none
\* is answered after that one, and no request is answered twice
\* (abort_feature_tasks).
THEOREM LifecycleIsFinal == Spec => []BarrierIsFinal
  BY Inductive, PTL DEF Inv

\* Only a later lifecycle request or the deadline of the exit drops a request,
\* and an exit in time leaves no reply unread (drain at the end of serve).
THEOREM RequestsAreKept == Spec => []NothingLost
  BY Inductive, PTL DEF Inv
=============================================================================
