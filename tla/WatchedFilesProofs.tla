-------------------------- MODULE WatchedFilesProofs --------------------------
(***************************************************************************)
(* Proofs about WatchedFiles for any number of files, servers and changes: *)
(* bursts are merged, filtered and told by two reporters without losing a  *)
(* change that a running server asked for and that was not a repetition.   *)
(***************************************************************************)
EXTENDS WatchedFiles, SequenceTheorems, TLAPS

\* An event says that a file was created, changed or deleted; a server that
\* hears it knows the file as it is now.
Tells(marks, f, t) == \E k \in DOMAIN marks : marks[k] = <<f, t>>
Right(f, t) == t = DELETED => f \notin disk

\* An event speaks of at most two files, and a request once of each file.
Shape(marks) == Len(marks) <= 2 /\ (Len(marks) = 2 => marks[1][1] # marks[2][1])
OneEach(changes) == \A c, d \in changes : c[1] = d[1] => c = d

\* The watcher collects a batch, or tells the last one, or does neither; and
\* nothing is watched in a remote workspace.
Channels ==
  /\ \A i \in DOMAIN events : Shape(events[i])
  /\ \A i \in DOMAIN lines : OneEach(lines[i])
  /\ watcher # "batching" => pending = Empty
  /\ watcher # "telling" => work["watcher"].todo = {} /\ work["watcher"].at = "none"
  /\ \A r \in Reporters : work[r].step = "next" <=> work[r].at = "none"
  /\ remote => events = <<>> /\ pending = Empty

\* Whenever the watcher still has to hear, or to say, that a file was deleted
\* that exists, it has yet to hear that the file was created: what it says last
\* of a file is right.
Recreated ==
  \A f \in disk :
    /\ \A i \in DOMAIN events : Tells(events[i], f, DELETED) =>
         \E j \in DOMAIN events : j > i /\ Tells(events[j], f, CREATED)
    /\ pending[f] = DELETED => \E j \in DOMAIN events : Tells(events[j], f, CREATED)

\* Something right about a file is on its way: in an event, in a request, in
\* the batch, or with a reporter for a server.
Reported(f) == \E t \in Types : Right(f, t) /\ \E i \in DOMAIN events : Tells(events[i], f, t)
Requested(f) == \E t \in Types : Right(f, t) /\ \E i \in DOMAIN lines : <<f, t>> \in lines[i]
Collected(f) == pending[f] # 0 /\ Right(f, pending[f])
Underway(w, s, f) ==
  \E t \in Types : 
    /\ Right(f, t)
    /\ \/ s \in w.todo /\ w.at # s /\ <<f, t>> \in w.batch
       \/ w.at = s /\ w.step \in {"claim", "notify"} /\ <<f, t>> \in w.chosen
Coming(s, f) ==
  Reported(f) \/ Requested(f) \/ Collected(f) \/ \E r \in Reporters : Underway(work[r], s, f)

\* What a server does not know, and for no other reason, is on its way to it.
Known ==
  \A s \in live : \A f \in stale[s] :
    f \notin unasked[s] /\ f \notin doubled[s] => Coming(s, f)

\* While Julia's index is old its server is going to be asked to refresh it.
Refreshed ==
  \A j \in JuliaServers \intersect live : index = "old" =>
     \/ \E m \in Manifests : pending[m] # 0
     \/ \E m \in Manifests, i \in DOMAIN events, t \in Types : Tells(events[i], m, t)
     \/ refreshing /\ (j \in work["watcher"].todo \/ work["watcher"].at = j)

\* The inductive invariant.
Inv == TypeOK /\ Channels /\ Recreated /\ Known /\ Refreshed

-----------------------------------------------------------------------------
(* Lemmas about the operators.                                             *)

\* The kinds of change are different.
LEMMA Kinds ==
  /\ CREATED \in Types /\ CHANGED \in Types /\ DELETED \in Types /\ 0 \notin Types
  /\ CREATED # CHANGED /\ CREATED # DELETED /\ CHANGED # DELETED
  /\ Types \subseteq 0 .. 3 /\ Types = 1 .. 3
  BY DEF Types, CREATED, CHANGED, DELETED

\* A queue with one more.
LEMMA AppendTo ==
  ASSUME NEW S, NEW q \in Seq(S), NEW x \in S
  PROVE  /\ Append(q, x) \in Seq(S) /\ Len(q) \in Nat
         /\ DOMAIN q = 1 .. Len(q) /\ DOMAIN Append(q, x) = 1 .. Len(q) + 1
         /\ Len(Append(q, x)) = Len(q) + 1
         /\ \A i \in 1 .. Len(q) : Append(q, x)[i] = q[i]
         /\ Append(q, x)[Len(q) + 1] = x
  OBVIOUS

\* A queue without its head.
LEMMA TailOf ==
  ASSUME NEW S, NEW q \in Seq(S), q # <<>>
  PROVE  /\ Tail(q) \in Seq(S) /\ Len(q) \in Nat \ {0} /\ Len(Tail(q)) = Len(q) - 1
         /\ DOMAIN q = 1 .. Len(q) /\ DOMAIN Tail(q) = 1 .. Len(q) - 1
         /\ \A i \in 1 .. Len(q) - 1 : Tail(q)[i] = q[i + 1]
         /\ Head(q) = q[1] /\ Head(q) \in S
  OBVIOUS

\* What a batch says of a file after one more path.
LEMMA MergedPath ==
  ASSUME NEW batch \in [Files -> 0 .. 3], NEW g \in Files, NEW type \in Types
  PROVE  /\ MergePath(batch, g, type) \in [Files -> 0 .. 3]
         /\ \A f \in Files : f # g => MergePath(batch, g, type)[f] = batch[f]
         /\ \/ MergePath(batch, g, type)[g] = type
            \/ type = CHANGED /\ batch[g] # 0 /\ MergePath(batch, g, type)[g] = batch[g]
  BY DEF MergePath, Types, CREATED, CHANGED, DELETED

\* What a batch says of a file after an event: what the event says, unless that
\* is a change of a file of which the batch says something already.
LEMMA MergedEvent ==
  ASSUME NEW batch \in [Files -> 0 .. 3], NEW marks \in Seq(Changes), Shape(marks)
  PROVE  /\ MergeEvent(batch, marks) \in [Files -> 0 .. 3]
         /\ \A f \in Files :
              /\ MergeEvent(batch, marks)[f] # batch[f] =>
                   \E t \in Types : MergeEvent(batch, marks)[f] = t /\ Tells(marks, f, t)
              /\ \A t \in Types : Tells(marks, f, t) =>
                   \/ MergeEvent(batch, marks)[f] = t
                   \/ t = CHANGED /\ batch[f] # 0 /\ MergeEvent(batch, marks)[f] = batch[f]
  <1>1. \A c \in Changes : c[1] \in Files /\ c[2] \in Types /\ c = <<c[1], c[2]>>
    BY DEF Changes
  <1>2. Len(marks) \in Nat /\ DOMAIN marks = 1 .. Len(marks)
    OBVIOUS
  <1>3. \A k \in 1 .. Len(marks) : marks[k] \in Changes
    OBVIOUS
  <1>4. CASE Len(marks) = 0
    <2>1. MergeEvent(batch, marks) = batch
      BY <1>4 DEF MergeEvent
    <2>2. \A f, t : ~Tells(marks, f, t)
      BY <1>2, <1>4 DEF Tells
    <2> QED
      BY <2>1, <2>2
  <1>5. CASE Len(marks) = 1
    <2> DEFINE g == marks[1][1]
               u == marks[1][2]
    <2>1. g \in Files /\ u \in Types /\ marks[1] = <<g, u>>
      BY <1>1, <1>3, <1>5
    <2>2. MergeEvent(batch, marks) = MergePath(batch, g, u)
      BY <1>5 DEF MergeEvent
    <2>3. \A f, t : Tells(marks, f, t) <=> f = g /\ t = u
      BY <1>2, <1>5, <2>1 DEF Tells
    <2> HIDE DEF g, u
    <2> QED
      BY <2>1, <2>2, <2>3, MergedPath
  <1>6. CASE Len(marks) = 2
    <2> DEFINE g == marks[1][1]
               u == marks[1][2]
               h == marks[2][1]
               v == marks[2][2]
               first == MergePath(batch, g, u)
    <2>1. g \in Files /\ u \in Types /\ marks[1] = <<g, u>>
      BY <1>1, <1>3, <1>6
    <2>2. h \in Files /\ v \in Types /\ marks[2] = <<h, v>>
      BY <1>1, <1>3, <1>6
    <2>3. g # h
      BY <1>6 DEF Shape
    <2>4. MergeEvent(batch, marks) = MergePath(first, h, v)
      BY <1>6 DEF MergeEvent
    <2>5. \A f, t : Tells(marks, f, t) <=> (f = g /\ t = u) \/ (f = h /\ t = v)
      BY <1>2, <1>6, <2>1, <2>2 DEF Tells
    <2> HIDE DEF g, u, h, v
    <2>6. /\ first \in [Files -> 0 .. 3]
          /\ \A f \in Files : f # g => first[f] = batch[f]
          /\ first[g] = u \/ (u = CHANGED /\ batch[g] # 0 /\ first[g] = batch[g])
      BY <2>1, MergedPath
    <2> HIDE DEF first
    <2>7. /\ MergePath(first, h, v) \in [Files -> 0 .. 3]
          /\ \A f \in Files : f # h => MergePath(first, h, v)[f] = first[f]
          /\ \/ MergePath(first, h, v)[h] = v
             \/ v = CHANGED /\ first[h] # 0 /\ MergePath(first, h, v)[h] = first[h]
      BY <2>2, <2>6, MergedPath
    <2> QED
      BY <2>1, <2>2, <2>3, <2>4, <2>5, <2>6, <2>7
  <1> QED
    BY <1>2, <1>4, <1>5, <1>6 DEF Shape

\* What is on its way with the other reporter, or in a queue, still is.
LEMMA ComingElsewhere ==
  ASSUME NEW r \in Reporters, NEW s, NEW f, Coming(s, f),
         UNCHANGED <<disk, events, lines, pending>>,
         \A q \in Reporters \ {r} : work'[q] = work[q]
  PROVE  Coming(s, f)' \/ Underway(work[r], s, f)
  BY DEF Coming, Reported, Requested, Collected, Right, Underway

\* The work of a reporter after it told a server.
LEMMA Finished ==
  ASSUME TypeOK, NEW r \in Reporters, NEW s \in Servers, AfterNotify(r, s)
  PROVE  /\ work' \in [Reporters -> Working]
         /\ \A q \in Reporters \ {r} : work'[q] = work[q]
         /\ work'[r].batch = work[r].batch /\ work'[r].todo = work[r].todo \ {s}
         /\ work'[r].chosen = {}
         /\ IF r = "watcher" /\ refreshing
            THEN work'[r].at = s /\ work'[r].step = "refresh"
            ELSE work'[r].at = "none" /\ work'[r].step = "next"
  <1> DEFINE at == IF r = "watcher" /\ refreshing THEN s ELSE "none"
             step == IF r = "watcher" /\ refreshing THEN "refresh" ELSE "next"
             todo == work[r].todo \ {s}
             told == [work[r] EXCEPT !.todo = todo, !.chosen = {}, !.at = at, !.step = step]
  <1>1. work \in [Reporters -> Working]
    BY DEF TypeOK
  <1>2. work[r] \in Working
    BY <1>1
  <1>3. at \in Servers \union {"none"} /\ step \in {"next", "refresh"}
        /\ todo \in SUBSET Servers
    BY <1>2 DEF Working
  <1>4. work' = [work EXCEPT ![r] = told]
    BY <1>1 DEF AfterNotify
  <1> HIDE DEF at, step, todo
  <1>5. /\ told \in Working
        /\ told.batch = work[r].batch /\ told.todo = todo /\ told.chosen = {}
        /\ told.at = at /\ told.step = step
    BY <1>2, <1>3 DEF Working
  <1> HIDE DEF told
  <1>6. work'[r] = told /\ work' \in [Reporters -> Working]
    BY <1>1, <1>4, <1>5
  <1>7. \A q \in Reporters \ {r} : work'[q] = work[q]
    BY <1>1, <1>4
  <1> QED
    BY <1>5, <1>6, <1>7 DEF at, step, todo

-----------------------------------------------------------------------------
(* Files change.                                                           *)

\* How a file operation that touches some files leaves the queues: what it
\* reports of each of them is right, and comes last.
Touches(touched, marks, line) ==
  /\ UNCHANGED <<remote, servers, tasks>>
  /\ left' \in 0 .. MaxChanges /\ disk' \subseteq Files /\ touched \subseteq Files
  /\ \A f \in Files \ touched : f \in disk' <=> f \in disk
  /\ marks \in Seq(Changes) /\ Shape(marks)
  /\ line \in SUBSET Changes /\ OneEach(line)
  /\ \/ events' = events
     \/ Len(events) < MaxQueue /\ events' = Append(events, marks) /\ ~remote
  /\ lines' = lines \/ (Len(lines) < MaxQueue /\ lines' = Append(lines, line))
  /\ touched # {} => \/ remote /\ lines' = Append(lines, line)
                     \/ ~remote /\ events' = Append(events, marks)
  /\ Outdated(touched) \/ (touched = {} /\ UNCHANGED knowledge)
  /\ \A f \in touched :
       /\ remote => \E t \in Types : <<f, t>> \in line /\ Right(f, t)'
       /\ \E t \in Types : Tells(marks, f, t) /\ Right(f, t)'
       /\ f \in disk' => ~Tells(marks, f, DELETED) /\ (f \in disk \/ Tells(marks, f, CREATED))
  /\ \A f \in Files : \A t \in Types : Tells(marks, f, t) => f \in touched

\* Such a step keeps the invariant.
LEMMA TouchesStep ==
  ASSUME Inv, NEW touched, NEW marks, NEW line, Touches(touched, marks, line)
  PROVE  Inv'
  <1>1. /\ events \in Seq(Seq(Changes)) /\ lines \in Seq(SUBSET Changes)
        /\ marks \in Seq(Changes) /\ line \in SUBSET Changes
        /\ MaxQueue \in Nat /\ MaxChanges \in Nat
    BY SetsAgree DEF Inv, TypeOK, Touches
  <1>2. UNCHANGED <<remote, live, registered, recent, watcher, pending, refreshing,
                    cooling, work>>
    BY DEF Touches, servers, tasks, batching
  <1>3. /\ DOMAIN events = 1 .. Len(events) /\ Len(events) \in Nat
        /\ DOMAIN events \subseteq DOMAIN events'
        /\ \A i \in DOMAIN events : events'[i] = events[i]
        /\ \A i \in DOMAIN events' : i \in DOMAIN events \/ events'[i] = marks
        /\ events' \in Seq(Seq(Changes)) /\ (Len(events') <= MaxQueue \/ events' = events)
    <2>1. CASE events' = events
      BY <1>1, <2>1
    <2>2. CASE Len(events) < MaxQueue /\ events' = Append(events, marks)
      BY <1>1, <2>2, AppendTo
    <2> QED
      BY <2>1, <2>2 DEF Touches
  <1>4. /\ DOMAIN lines \subseteq DOMAIN lines'
        /\ \A i \in DOMAIN lines : lines'[i] = lines[i]
        /\ \A i \in DOMAIN lines' : i \in DOMAIN lines \/ lines'[i] = line
        /\ lines' \in Seq(SUBSET Changes) /\ (Len(lines') <= MaxQueue \/ lines' = lines)
    <2>1. CASE lines' = lines
      BY <1>1, <2>1
    <2>2. CASE Len(lines) < MaxQueue /\ lines' = Append(lines, line)
      BY <1>1, <2>2, AppendTo
    <2> QED
      BY <2>1, <2>2 DEF Touches
  <1>5. ASSUME ~remote, touched # {}
        PROVE  /\ Len(events) + 1 \in DOMAIN events'
               /\ events'[Len(events) + 1] = marks
               /\ \A i \in DOMAIN events : i < Len(events) + 1
    BY <1>1, <1>5, AppendTo DEF Touches
  <1>6. ASSUME remote, touched # {}
        PROVE  \E i \in DOMAIN lines' : lines'[i] = line
    <2>1. lines' = Append(lines, line)
      BY <1>6 DEF Touches
    <2>2. Len(lines) + 1 \in DOMAIN Append(lines, line)
      BY <1>1, AppendTo
    <2> QED
      BY <1>1, <2>1, <2>2, AppendTo
  <1>7. /\ stale' \in [Servers -> SUBSET Files] /\ unasked' \in [Servers -> SUBSET Files]
        /\ doubled' \in [Servers -> SUBSET Files]
        /\ \A s \in live : \A f \in Files \ touched :
             /\ f \in stale'[s] => f \in stale[s]
             /\ f \in unasked[s] => f \in unasked'[s]
             /\ f \in doubled[s] => f \in doubled'[s]
        /\ index' = index \/ (index' = "old" /\ ~remote /\ touched \intersect Manifests # {})
    <2>1. /\ stale \in [Servers -> SUBSET Files] /\ unasked \in [Servers -> SUBSET Files]
          /\ doubled \in [Servers -> SUBSET Files] /\ live \subseteq Servers
      BY DEF Inv, TypeOK
    <2>2. touched \subseteq Files
      BY DEF Touches
    <2>3. CASE UNCHANGED knowledge
      BY <2>1, <2>3 DEF knowledge
    <2>4. CASE Outdated(touched)
      BY <2>1, <2>2, <2>4 DEF Outdated
    <2> QED
      BY <2>3, <2>4 DEF Touches
  <1>8. TypeOK'
    <2>1. /\ left' \in 0 .. MaxChanges /\ disk' \subseteq Files
          /\ index' \in {"fresh", "old", "left old"}
      BY <1>7 DEF Inv, TypeOK, Touches
    <2>2. Len(events') <= MaxQueue /\ Len(lines') <= MaxQueue
      BY <1>3, <1>4 DEF Inv, TypeOK
    <2> QED
      BY <1>2, <1>3, <1>4, <1>7, <2>1, <2>2 DEF Inv, TypeOK
  <1>9. Channels'
    <2>1. remote => events' = events
      BY DEF Touches
    <2>2. Shape(marks) /\ OneEach(line)
      BY DEF Touches
    <2> QED
      BY <1>2, <1>3, <1>4, <2>1, <2>2 DEF Inv, Channels
  <1>10. Recreated'
    <2> SUFFICES ASSUME NEW f \in disk'
                 PROVE  /\ \A i \in DOMAIN events' : Tells(events'[i], f, DELETED) =>
                             \E j \in DOMAIN events' : j > i /\ Tells(events'[j], f, CREATED)
                        /\ pending[f] = DELETED =>
                             \E j \in DOMAIN events' : Tells(events'[j], f, CREATED)
      BY <1>2 DEF Recreated
    <2>1. ~Tells(marks, f, DELETED)
      BY DEF Touches, Types
    <2>2. CASE f \in disk
      <3>1. \A i \in DOMAIN events' : Tells(events'[i], f, DELETED) => i \in DOMAIN events
        BY <1>3, <2>1
      <3>2. \A j \in DOMAIN events : Tells(events[j], f, CREATED) =>
              j \in DOMAIN events' /\ Tells(events'[j], f, CREATED)
        BY <1>3
      <3>3. /\ \A i \in DOMAIN events : Tells(events[i], f, DELETED) =>
                 \E j \in DOMAIN events : j > i /\ Tells(events[j], f, CREATED)
            /\ pending[f] = DELETED => \E j \in DOMAIN events : Tells(events[j], f, CREATED)
        BY <2>2 DEF Inv, Recreated
      <3>4. \A i \in DOMAIN events : events'[i] = events[i]
        BY <1>3
      <3> QED
        BY <3>1, <3>2, <3>3, <3>4
    <2>3. CASE f \notin disk
      <3>1. f \in touched /\ f \in Files
        BY <2>3 DEF Touches
      <3>2. CASE remote
        <4>1. events' = <<>> /\ pending = Empty
          BY <3>2 DEF Inv, Channels, Touches
        <4>2. pending[f] # DELETED
          BY <3>1, <4>1 DEF Empty, DELETED
        <4> QED
          BY <4>1, <4>2
      <3>3. CASE ~remote
        <4>1. Tells(marks, f, CREATED)
          BY <2>3, <3>1 DEF Touches
        <4>2. \A i \in DOMAIN events' : Tells(events'[i], f, DELETED) => i \in DOMAIN events
          BY <1>3, <2>1
        <4> QED
          BY <1>5, <3>1, <3>3, <4>1, <4>2
      <3> QED
        BY <3>2, <3>3
    <2> QED
      BY <2>2, <2>3
  <1>11. Known'
    <2> SUFFICES ASSUME NEW s \in live, NEW f \in stale'[s],
                        f \notin unasked'[s], f \notin doubled'[s]
                 PROVE  Coming(s, f)'
      BY <1>2 DEF Known
    <2>1. f \in Files /\ s \in Servers
      BY <1>7 DEF Inv, TypeOK
    <2>2. CASE f \in touched
      <3>1. CASE remote
        <4>1. PICK t \in Types : <<f, t>> \in line /\ Right(f, t)'
          BY <2>2, <3>1 DEF Touches
        <4> QED
          BY <1>6, <2>2, <3>1, <4>1 DEF Coming, Requested
      <3>2. CASE ~remote
        <4>1. PICK t \in Types : Tells(marks, f, t) /\ Right(f, t)'
          BY <2>2 DEF Touches
        <4> QED
          BY <1>5, <2>2, <3>2, <4>1 DEF Coming, Reported
      <3> QED
        BY <3>1, <3>2
    <2>3. CASE f \notin touched
      <3>1. \A t : Right(f, t)' <=> Right(f, t)
        BY <2>1, <2>3 DEF Touches, Right
      <3>2. Coming(s, f)
        BY <1>7, <2>1, <2>3 DEF Inv, Known
      <3>3. Reported(f) => Reported(f)'
        BY <1>3, <3>1 DEF Reported
      <3>4. Requested(f) => Requested(f)'
        BY <1>4, <3>1 DEF Requested
      <3>5. Collected(f) => Collected(f)'
        BY <1>2, <3>1 DEF Collected
      <3>6. \A r \in Reporters : Underway(work[r], s, f) => Underway(work[r], s, f)'
        BY <1>2, <3>1 DEF Underway
      <3> QED
        BY <3>2, <3>3, <3>4, <3>5, <3>6 DEF Coming
    <2> QED
      BY <2>2, <2>3
  <1>12. Refreshed'
    <2>1. ASSUME index' # index PROVE \E m \in Manifests, i \in DOMAIN events', t \in Types :
                                        Tells(events'[i], m, t)
      <3>1. PICK m \in Manifests : m \in touched
        BY <1>7, <2>1
      <3>2. PICK t \in Types : Tells(marks, m, t)
        BY <3>1 DEF Touches
      <3>3. ~remote
        BY <1>7, <2>1
      <3> QED
        BY <1>5, <3>1, <3>2, <3>3
    <2>2. \A m \in Manifests, i \in DOMAIN events, t \in Types :
            Tells(events[i], m, t) => i \in DOMAIN events' /\ Tells(events'[i], m, t)
      BY <1>3
    <2> QED
      BY <1>2, <2>1, <2>2 DEF Inv, Refreshed
  <1> QED
    BY <1>8, <1>9, <1>10, <1>11, <1>12 DEF Inv

\* A report of one path.
LEMMA OneMark ==
  ASSUME NEW f \in Files, NEW t \in Types, NEW marks, marks = << <<f, t>> >>
  PROVE  /\ marks \in Seq(Changes) /\ Shape(marks)
         /\ \A g, u : Tells(marks, g, u) <=> g = f /\ u = t
         /\ {marks[i] : i \in DOMAIN marks} = {<<f, t>>}
  <1>1. <<f, t>> \in Changes
    BY DEF Changes
  <1>2. Len(marks) = 1 /\ DOMAIN marks = {1} /\ marks[1] = <<f, t>>
    OBVIOUS
  <1>3. marks \in Seq(Changes)
    BY <1>1
  <1>4. {marks[i] : i \in DOMAIN marks} = {<<f, t>>}
    BY <1>2
  <1> QED
    BY <1>2, <1>3, <1>4 DEF Shape, Tells

\* Spending a change.
LEMMA Spent ==
  ASSUME Inv, Spend
  PROVE  left' \in 0 .. MaxChanges
  <1>1. left \in 0 .. MaxChanges /\ MaxChanges \in Nat
    BY SetsAgree DEF Inv, TypeOK
  <1>2. left > 0 /\ left' = left - 1
    BY DEF Spend
  <1> QED
    BY <1>1, <1>2

\* The operations on one file.
LEMMA OneFile ==
  ASSUME Inv, Spend, NEW kind, NEW f \in Files, NEW t \in Types, NEW fs \in SUBSET Files,
         Marks(kind, <<f>>) = << <<f, t>> >>, Touch(kind, <<f>>, fs),
         fs \ {f} = disk \ {f},
         IF t = DELETED THEN f \notin fs ELSE f \in fs /\ (f \in disk \/ t = CREATED)
  PROVE  Inv'
  <1> DEFINE marks == << <<f, t>> >>
             line == {<<f, t>>}
  <1>1. /\ marks \in Seq(Changes) /\ Shape(marks)
        /\ \A g, u : Tells(marks, g, u) <=> g = f /\ u = t
        /\ {marks[i] : i \in DOMAIN marks} = line
    BY OneMark
  <1>2. {<<f>>[i] : i \in DOMAIN <<f>>} = {f}
    OBVIOUS
  <1>3. line \in SUBSET Changes /\ OneEach(line)
    BY DEF Changes, OneEach
  <1> HIDE DEF marks, line
  <1>4. /\ disk' = fs /\ Outdated({f}) /\ UNCHANGED <<remote, servers, tasks>>
        /\ IF remote THEN /\ Len(lines) < MaxQueue /\ lines' = Append(lines, line)
                          /\ UNCHANGED events
           ELSE /\ Len(events) < MaxQueue /\ events' = Append(events, marks)
                /\ UNCHANGED lines
    BY <1>1, <1>2 DEF Touch, marks
  <1>5. \A g \in Files \ {f} : g \in disk' <=> g \in disk
    BY <1>4
  <1>6. CREATED # DELETED
    BY DEF CREATED, DELETED
  <1>7. /\ remote => \E u \in Types : <<f, u>> \in line /\ Right(f, u)'
        /\ \E u \in Types : Tells(marks, f, u) /\ Right(f, u)'
        /\ f \in disk' => ~Tells(marks, f, DELETED) /\ (f \in disk \/ Tells(marks, f, CREATED))
    <2>1. <<f, t>> \in line /\ Right(f, t)'
      BY <1>4 DEF line, Right
    <2> QED
      BY <1>1, <1>4, <1>6, <2>1
  <1>8. remote \in BOOLEAN
    BY DEF Inv, TypeOK
  <1>9. left' \in 0 .. MaxChanges
    BY Spent
  <1>10. Touches({f}, marks, line)
    BY <1>1, <1>3, <1>4, <1>5, <1>7, <1>8, <1>9 DEF Touches
  <1> QED
    BY <1>10, TouchesStep

\* A file is created: the report says so, and the file is there.
LEMMA CreateStep ==
  ASSUME Inv, NEW f \in Files, Create(f)
  PROVE  Inv'
  <1>1. PICK kind \in {"create", "to"} : Touch(kind, <<f>>, disk \union {f})
    BY DEF Create
  <1>2. Marks(kind, <<f>>) = << <<f, CREATED>> >>
    BY <1>1 DEF Marks
  <1>3. disk \union {f} \in SUBSET Files
    BY DEF Inv, TypeOK
  <1>4. Spend
    BY DEF Create
  <1> QED
    BY <1>1, <1>2, <1>3, <1>4, Kinds, OneFile

\* A file that is there is written.
LEMMA WriteStep ==
  ASSUME Inv, NEW f \in Files, Write(f)
  PROVE  Inv'
  <1>1. Touch("modify", <<f>>, disk) /\ f \in disk /\ Spend
    BY DEF Write
  <1>2. Marks("modify", <<f>>) = << <<f, CHANGED>> >>
    BY DEF Marks
  <1>3. disk \in SUBSET Files
    BY DEF Inv, TypeOK
  <1> QED
    BY <1>1, <1>2, <1>3, Kinds, OneFile

\* A file is deleted: the report says so, and the file is gone.
LEMMA DeleteStep ==
  ASSUME Inv, NEW f \in Files, Delete(f)
  PROVE  Inv'
  <1>1. PICK kind \in {"remove", "from"} : Touch(kind, <<f>>, disk \ {f})
    BY DEF Delete
  <1>2. Marks(kind, <<f>>) = << <<f, DELETED>> >>
    BY <1>1 DEF Marks
  <1>3. disk \ {f} \in SUBSET Files
    BY DEF Inv, TypeOK
  <1>4. Spend
    BY DEF Delete
  <1> QED
    BY <1>1, <1>2, <1>3, <1>4, Kinds, OneFile

\* A file is renamed: one event, or one request, speaks of both names.
LEMMA RenameStep ==
  ASSUME Inv, NEW f \in Files, NEW g \in Files, Rename(f, g)
  PROVE  Inv'
  <1> DEFINE marks == << <<f, DELETED>>, <<g, CREATED>> >>
             line == {<<f, DELETED>>, <<g, CREATED>>}
             paths == <<f, g>>
  <1>1. /\ Spend /\ f \in disk
        /\ Touch("both", paths, (disk \ {f}) \union {g})
    BY DEF Rename
  <1>0. f # g
    BY DEF Rename
  <1>2. CREATED \in Types /\ DELETED \in Types /\ CREATED # DELETED
    BY Kinds
  <1>3. Marks("both", paths) = marks
    BY DEF Marks
  <1>15. /\ marks = << <<f, DELETED>>, <<g, CREATED>> >>
         /\ line = {<<f, DELETED>>, <<g, CREATED>>}
    OBVIOUS
  <1>6. line \in SUBSET Changes /\ OneEach(line)
    BY <1>0, <1>2 DEF Changes, OneEach
  <1>5. {paths[i] : i \in DOMAIN paths} = {f, g}
    OBVIOUS
  <1> HIDE DEF marks, line, paths
  <1>4. /\ marks \in Seq(Changes) /\ Shape(marks)
        /\ \A h, v : Tells(marks, h, v) <=> (h = f /\ v = DELETED) \/ (h = g /\ v = CREATED)
        /\ {marks[i] : i \in DOMAIN marks} = line
    <2>1. <<f, DELETED>> \in Changes /\ <<g, CREATED>> \in Changes
      BY <1>2 DEF Changes
    <2>2. /\ Len(marks) = 2 /\ DOMAIN marks = {1, 2}
          /\ marks[1] = <<f, DELETED>> /\ marks[2] = <<g, CREATED>>
      BY <1>15
    <2>3. marks \in Seq(Changes)
      BY <1>15, <2>1
    <2>4. {marks[i] : i \in DOMAIN marks} = line
      BY <1>15, <2>2
    <2>5. Shape(marks)
      BY <1>0, <2>2 DEF Shape
    <2>6. \A h, v : Tells(marks, h, v) <=> (h = f /\ v = DELETED) \/ (h = g /\ v = CREATED)
      BY <2>2 DEF Tells
    <2> QED
      BY <2>3, <2>4, <2>5, <2>6
  <1>7. /\ disk' = (disk \ {f}) \union {g} /\ Outdated({f, g})
        /\ UNCHANGED <<remote, servers, tasks>>
        /\ IF remote THEN /\ Len(lines) < MaxQueue /\ lines' = Append(lines, line)
                          /\ UNCHANGED events
           ELSE /\ Len(events) < MaxQueue /\ events' = Append(events, marks)
                /\ UNCHANGED lines
    BY <1>1, <1>3, <1>4, <1>5 DEF Touch
  <1>8. /\ disk' \subseteq Files /\ {f, g} \subseteq Files
        /\ \A h \in Files \ {f, g} : h \in disk' <=> h \in disk
    BY <1>7 DEF Inv, TypeOK
  <1>9. <<f, DELETED>> \in line /\ <<g, CREATED>> \in line
    BY DEF line
  <1>10. Right(f, DELETED)' /\ Right(g, CREATED)'
    BY <1>0, <1>2, <1>7 DEF Right
  <1>11. ASSUME NEW h \in {f, g}
         PROVE  /\ remote => \E u \in Types : <<h, u>> \in line /\ Right(h, u)'
                /\ \E u \in Types : Tells(marks, h, u) /\ Right(h, u)'
                /\ h \in disk' => /\ ~Tells(marks, h, DELETED)
                                  /\ h \in disk \/ Tells(marks, h, CREATED)
    <2>1. CASE h = f
      <3>1. h \notin disk'
        BY <1>0, <1>7, <2>1
      <3> QED
        BY <1>2, <1>4, <1>9, <1>10, <2>1, <3>1
    <2>2. CASE h = g
      BY <1>0, <1>2, <1>4, <1>9, <1>10, <2>2
    <2> QED
      BY <2>1, <2>2
  <1>12. remote \in BOOLEAN
    BY DEF Inv, TypeOK
  <1>13. left' \in 0 .. MaxChanges
    BY <1>1, Spent
  <1>14. Touches({f, g}, marks, line)
    BY <1>4, <1>6, <1>7, <1>8, <1>11, <1>12, <1>13 DEF Touches
  <1> QED
    BY <1>14, TouchesStep

\* A file is read: the event says nothing of it.
LEMMA AccessStep ==
  ASSUME Inv, NEW f \in Files, Access(f)
  PROVE  Inv'
  <1>1. Marks("access", <<f>>) = <<>>
    BY DEF Marks
  <1>2. /\ Len(events) < MaxQueue /\ events' = Append(events, <<>>) /\ ~remote
        /\ UNCHANGED <<remote, disk, lines, servers, tasks, knowledge>> /\ Spend
    BY <1>1 DEF Access
  <1>3. /\ <<>> \in Seq(Changes) /\ Shape(<<>>) /\ {} \in SUBSET Changes /\ OneEach({})
        /\ \A g, t : ~Tells(<<>>, g, t)
    BY DEF Shape, OneEach, Tells
  <1>4. disk' \subseteq Files /\ left' \in 0 .. MaxChanges
    BY <1>2, Spent DEF Inv, TypeOK
  <1>5. Touches({}, <<>>, {})
    BY <1>2, <1>3, <1>4 DEF Touches
  <1> QED
    BY <1>5, TouchesStep

\* A buffer is written: the editor says so, and in a local workspace the platform.
LEMMA SaveStep ==
  ASSUME Inv, NEW f \in Files, Save(f)
  PROVE  Inv'
  <1>1. PICK type \in Types : type = IF f \in disk THEN CHANGED ELSE CREATED
    BY Kinds
  <1> DEFINE marks == << <<f, type>> >>
             line == {<<f, CHANGED>>}
  <1>2. Marks(IF f \in disk THEN "modify" ELSE "create", <<f>>) = marks
    BY <1>1 DEF Marks
  <1>3. type # DELETED /\ CHANGED # DELETED
    BY <1>1, Kinds
  <1>4. /\ marks \in Seq(Changes) /\ Shape(marks)
        /\ \A g, u : Tells(marks, g, u) <=> g = f /\ u = type
    BY <1>1, OneMark
  <1>5. line \in SUBSET Changes /\ OneEach(line) /\ <<f, CHANGED>> \in line
    BY Kinds DEF Changes, OneEach
  <1> HIDE DEF marks, line
  <1>6. /\ Spend /\ Len(lines) < MaxQueue /\ disk' = disk \union {f}
        /\ lines' = Append(lines, line) /\ Outdated({f})
        /\ UNCHANGED <<remote, servers, tasks>>
        /\ IF remote THEN UNCHANGED events
           ELSE Len(events) < MaxQueue /\ events' = Append(events, marks)
    BY <1>2 DEF Save, line
  <1>7. /\ disk' \subseteq Files
        /\ \A h \in Files \ {f} : h \in disk' <=> h \in disk
    BY <1>6 DEF Inv, TypeOK
  <1>8. Right(f, CHANGED)' /\ Right(f, type)'
    BY <1>3 DEF Right
  <1>9. /\ remote => \E u \in Types : <<f, u>> \in line /\ Right(f, u)'
        /\ \E u \in Types : Tells(marks, f, u) /\ Right(f, u)'
        /\ f \in disk' => ~Tells(marks, f, DELETED) /\ (f \in disk \/ Tells(marks, f, CREATED))
    BY <1>1, <1>3, <1>4, <1>5, <1>8, Kinds
  <1>10. remote \in BOOLEAN
    BY DEF Inv, TypeOK
  <1>11. left' \in 0 .. MaxChanges
    BY <1>6, Spent
  <1>12. Touches({f}, marks, line)
    BY <1>4, <1>5, <1>6, <1>7, <1>9, <1>10, <1>11 DEF Touches
  <1> QED
    BY <1>12, TouchesStep

-----------------------------------------------------------------------------
(* Registrations.                                                          *)

\* Nothing of what the proof speaks of depends on what servers asked for or
\* heard a moment ago, as long as it is what they may have asked for or heard.
LEMMA RegistersStep ==
  ASSUME Inv, UNCHANGED <<remote, disk, events, lines, tasks, index>>,
         live' \subseteq live, left' \in 0 .. MaxChanges,
         registered' \in [Servers -> [Ids -> Offered]],
         recent' \in [Servers -> SUBSET Changes],
         \A s \in Servers \ live' : recent'[s] = {} /\ \A i \in Ids : registered'[s][i] = None,
         stale' \in [Servers -> SUBSET Files], unasked' \in [Servers -> SUBSET Files],
         doubled' \in [Servers -> SUBSET Files],
         \A s \in live' : /\ stale'[s] = stale[s]
                          /\ unasked'[s] = unasked[s] /\ doubled'[s] = doubled[s]
  PROVE  Inv'
  <1>1. UNCHANGED <<watcher, pending, refreshing, cooling, work>>
    BY DEF tasks, batching
  <1>2. TypeOK'
    BY <1>1 DEF Inv, TypeOK
  <1>3. Channels'
    BY <1>1 DEF Inv, Channels
  <1>4. Recreated'
    BY <1>1 DEF Inv, Recreated
  <1>5. Known'
    <2> SUFFICES ASSUME NEW s \in live', NEW f \in stale'[s],
                        f \notin unasked'[s], f \notin doubled'[s]
                 PROVE  Coming(s, f)'
      BY DEF Known
    <2>1. Coming(s, f)
      BY DEF Inv, Known
    <2>2. Reported(f)' <=> Reported(f)
      BY DEF Reported, Right
    <2>3. Requested(f)' <=> Requested(f)
      BY DEF Requested, Right
    <2>4. Collected(f)' <=> Collected(f)
      BY <1>1 DEF Collected, Right
    <2>5. \A r \in Reporters : Underway(work[r], s, f)' <=> Underway(work[r], s, f)
      BY <1>1 DEF Underway, Right
    <2> QED
      BY <2>1, <2>2, <2>3, <2>4, <2>5 DEF Coming
  <1>6. Refreshed'
    BY <1>1 DEF Inv, Refreshed
  <1> QED
    BY <1>2, <1>3, <1>4, <1>5, <1>6 DEF Inv

\* A server registers: what is on its way to it is not filtered yet.
LEMMA RegisterStep ==
  ASSUME Inv, NEW s \in Servers, Register(s)
  PROVE  Inv'
  <1>0. PICK ids \in SUBSET Ids \ {{}} : \E offers \in [ids -> Offers] :
          /\ \A i \in ids : offers[i].method # "bad"
          /\ registered' = [registered EXCEPT ![s] =
                              [i \in Ids |-> IF i \in ids THEN offers[i] ELSE @[i]]]
    BY DEF Register
  <1>1. PICK offers \in [ids -> Offers] :
          /\ \A i \in ids : offers[i].method # "bad"
          /\ registered' = [registered EXCEPT ![s] =
                              [i \in Ids |-> IF i \in ids THEN offers[i] ELSE @[i]]]
    BY <1>0
  <1>2. /\ UNCHANGED <<remote, disk, events, lines, live, recent, tasks, knowledge>>
        /\ s \in live /\ Spend
    BY DEF Register
  <1>3. registered \in [Servers -> [Ids -> Offered]]
    BY DEF Inv, TypeOK
  <1>4. [i \in Ids |-> IF i \in ids THEN offers[i] ELSE registered[s][i]] \in [Ids -> Offered]
    BY <1>1, <1>3 DEF Offered
  <1>5. /\ registered' \in [Servers -> [Ids -> Offered]]
        /\ \A q \in Servers : q # s => registered'[q] = registered[q]
    BY <1>1, <1>3, <1>4
  <1>8. UNCHANGED <<stale, unasked, doubled, index>>
    BY <1>2 DEF knowledge
  <1>9. left' \in 0 .. MaxChanges
    BY <1>2, Spent
  <1>10. \A q \in Servers \ live' : recent'[q] = {} /\ \A i \in Ids : registered'[q][i] = None
    <2>1. \A q \in Servers \ live : recent[q] = {} /\ \A i \in Ids : registered[q][i] = None
      BY DEF Inv, TypeOK
    <2>2. live' = live /\ recent' = recent /\ s \in live
      BY <1>2
    <2> QED
      BY <1>5, <2>1, <2>2
  <1> QED
    BY <1>2, <1>5, <1>8, <1>9, <1>10, RegistersStep DEF Inv, TypeOK

\* A server takes a registration back.
LEMMA UnregisterStep ==
  ASSUME Inv, NEW s \in Servers, Unregister(s)
  PROVE  Inv'
  <1>1. PICK n \in Ids : registered' = [registered EXCEPT ![s][n] = None]
    BY DEF Unregister
  <1>2. /\ UNCHANGED <<remote, disk, events, lines, live, recent, tasks, knowledge>>
        /\ s \in live /\ Spend
    BY DEF Unregister
  <1>3. registered \in [Servers -> [Ids -> Offered]] /\ None \in Offered
    BY DEF Inv, TypeOK, Offered
  <1>4. /\ registered' \in [Servers -> [Ids -> Offered]]
        /\ \A q \in Servers : q # s => registered'[q] = registered[q]
    BY <1>1, <1>3
  <1>8. UNCHANGED <<stale, unasked, doubled, index>>
    BY <1>2 DEF knowledge
  <1>9. left' \in 0 .. MaxChanges
    BY <1>2, Spent
  <1>10. \A q \in Servers \ live' : recent'[q] = {} /\ \A i \in Ids : registered'[q][i] = None
    <2>1. \A q \in Servers \ live : recent[q] = {} /\ \A i \in Ids : registered[q][i] = None
      BY DEF Inv, TypeOK
    <2>2. live' = live /\ recent' = recent /\ s \in live
      BY <1>2
    <2> QED
      BY <1>4, <2>1, <2>2
  <1> QED
    BY <1>2, <1>4, <1>8, <1>9, <1>10, RegistersStep DEF Inv, TypeOK

\* A server dies, and what it asked for and heard with it.
LEMMA ServerDiesStep ==
  ASSUME Inv, NEW s \in Servers, ServerDies(s)
  PROVE  Inv'
  <1>1. /\ Spend /\ live' = live \ {s}
        /\ registered' = [registered EXCEPT ![s] = [i \in Ids |-> None]]
        /\ recent' = [recent EXCEPT ![s] = {}]
        /\ stale' = [stale EXCEPT ![s] = {}]
        /\ unasked' = [unasked EXCEPT ![s] = {}] /\ doubled' = [doubled EXCEPT ![s] = {}]
        /\ UNCHANGED <<remote, disk, events, lines, tasks, index>>
    BY DEF ServerDies
  <1>2. /\ registered \in [Servers -> [Ids -> Offered]] /\ recent \in [Servers -> SUBSET Changes]
        /\ stale \in [Servers -> SUBSET Files] /\ unasked \in [Servers -> SUBSET Files]
        /\ doubled \in [Servers -> SUBSET Files] /\ live \subseteq Servers
        /\ \A q \in Servers \ live : recent[q] = {} /\ \A i \in Ids : registered[q][i] = None
    BY DEF Inv, TypeOK
  <1>3. [i \in Ids |-> None] \in [Ids -> Offered]
    BY DEF Offered
  <1>4. /\ registered' \in [Servers -> [Ids -> Offered]]
        /\ registered'[s] = [i \in Ids |-> None]
        /\ \A q \in Servers \ {s} : registered'[q] = registered[q]
    BY <1>1, <1>2, <1>3
  <1>5. /\ recent' \in [Servers -> SUBSET Changes] /\ recent'[s] = {}
        /\ \A q \in Servers \ {s} : recent'[q] = recent[q]
    BY <1>1, <1>2
  <1>6. /\ stale' \in [Servers -> SUBSET Files] /\ unasked' \in [Servers -> SUBSET Files]
        /\ doubled' \in [Servers -> SUBSET Files]
        /\ \A q \in Servers \ {s} : stale'[q] = stale[q] /\ unasked'[q] = unasked[q]
                                    /\ doubled'[q] = doubled[q]
    BY <1>1, <1>2
  <1>7. \A q \in Servers \ live' : recent'[q] = {} /\ \A i \in Ids : registered'[q][i] = None
    BY <1>1, <1>2, <1>4, <1>5
  <1> QED
    BY <1>1, <1>2, <1>4, <1>5, <1>6, <1>7, Spent, RegistersStep

\* What a server was told a moment ago is forgotten.
LEMMA FadeStep ==
  ASSUME Inv, NEW s \in Servers, Fade(s)
  PROVE  Inv'
  <1>1. PICK c \in recent[s] : recent' = [recent EXCEPT ![s] = @ \ {c}]
    BY DEF Fade
  <1>2. UNCHANGED <<world, events, lines, live, registered, tasks, knowledge>>
    BY DEF Fade
  <1>3. recent' \in [Servers -> SUBSET Changes] /\ \A q \in Servers : recent'[q] \subseteq recent[q]
    BY <1>1 DEF Inv, TypeOK
  <1> QED
    BY <1>2, <1>3, RegistersStep DEF Inv, TypeOK, knowledge, world

-----------------------------------------------------------------------------
(* The watcher task and the daemon loop.                                   *)

\* The watcher takes an event: what was said right of a file stays right, or is
\* still to be said by an event that waits.
LEMMA TakeStep ==
  ASSUME Inv, Take
  PROVE  Inv'
  <1>1. /\ events \in Seq(Seq(Changes)) /\ events # <<>> /\ events' = Tail(events)
        /\ pending \in [Files -> 0 .. 3] /\ pending' = MergeEvent(pending, Head(events))
        /\ watcher \in {"idle", "batching"} /\ watcher' = "batching"
        /\ UNCHANGED <<world, lines, servers, refreshing, cooling, work, knowledge>>
    BY DEF Take, Inv, TypeOK
  <1>2. UNCHANGED <<remote, disk, left, live, registered, recent, stale, unasked, doubled, index>>
    BY <1>1 DEF world, servers, knowledge
  <1>3. /\ events' \in Seq(Seq(Changes)) /\ Len(events) \in Nat \ {0}
        /\ Len(events') = Len(events) - 1
        /\ DOMAIN events = 1 .. Len(events) /\ DOMAIN events' = 1 .. Len(events) - 1
        /\ \A i \in DOMAIN events' : events'[i] = events[i + 1]
        /\ Head(events) = events[1] /\ events[1] \in Seq(Changes)
    BY <1>1, TailOf
  <1>4. \A i \in DOMAIN events' : i + 1 \in DOMAIN events /\ events'[i] = events[i + 1]
    BY <1>3
  <1>5. \A j \in DOMAIN events : j > 1 => j - 1 \in DOMAIN events' /\ events'[j - 1] = events[j]
    <2> SUFFICES ASSUME NEW j \in DOMAIN events, j > 1
                 PROVE  j - 1 \in DOMAIN events' /\ events'[j - 1] = events[j]
      OBVIOUS
    <2>1. j - 1 \in DOMAIN events' /\ (j - 1) + 1 = j
      BY <1>3
    <2> QED
      BY <1>3, <2>1
  <1>6. 1 \in DOMAIN events /\ \A i \in DOMAIN events : i = 1 \/ i > 1
    BY <1>3
  <1>7. Shape(events[1])
    BY <1>6 DEF Inv, Channels
  <1>8. /\ pending' \in [Files -> 0 .. 3]
        /\ \A f \in Files :
             /\ pending'[f] # pending[f] =>
                  \E t \in Types : pending'[f] = t /\ Tells(events[1], f, t)
             /\ \A t \in Types : Tells(events[1], f, t) =>
                  \/ pending'[f] = t
                  \/ t = CHANGED /\ pending[f] # 0 /\ pending'[f] = pending[f]
    <2>1. pending' = MergeEvent(pending, events[1]) /\ pending \in [Files -> 0 .. 3]
      BY <1>1, <1>3
    <2>2. events[1] \in Seq(Changes)
      BY <1>3
    <2> QED
      BY <1>7, <2>1, <2>2, MergedEvent
  <1>9. \A f \in Files : pending[f] # 0 => pending'[f] # 0
    BY <1>8, Kinds
  <1>10. disk \subseteq Files /\ Manifests \subseteq Files
    BY SetsAgree DEF Inv, TypeOK
  <1>11. TypeOK'
    <2>1. Len(events') <= MaxQueue
      <3>1. Len(events) <= MaxQueue /\ MaxQueue \in Nat
        BY SetsAgree DEF Inv, TypeOK
      <3> QED
        BY <1>3, <3>1
    <2> QED
      BY <1>1, <1>2, <1>3, <1>8, <2>1 DEF Inv, TypeOK
  <1>12. Channels'
    <2>1. ~remote
      BY <1>1 DEF Inv, Channels
    <2>2. work["watcher"].todo = {} /\ work["watcher"].at = "none"
      BY <1>1 DEF Inv, Channels
    <2> QED
      BY <1>1, <1>2, <1>4, <2>1, <2>2 DEF Inv, Channels
  <1>13. Recreated'
    <2> SUFFICES ASSUME NEW f \in disk
                 PROVE  /\ \A i \in DOMAIN events' : Tells(events'[i], f, DELETED) =>
                             \E j \in DOMAIN events' : j > i /\ Tells(events'[j], f, CREATED)
                        /\ pending'[f] = DELETED =>
                             \E j \in DOMAIN events' : Tells(events'[j], f, CREATED)
      BY <1>2 DEF Recreated
    <2>1. /\ \A i \in DOMAIN events : Tells(events[i], f, DELETED) =>
               \E j \in DOMAIN events : j > i /\ Tells(events[j], f, CREATED)
          /\ pending[f] = DELETED => \E j \in DOMAIN events : Tells(events[j], f, CREATED)
      BY DEF Inv, Recreated
    <2>2. ASSUME NEW i \in DOMAIN events', Tells(events'[i], f, DELETED)
          PROVE  \E j \in DOMAIN events' : j > i /\ Tells(events'[j], f, CREATED)
      <3>1. PICK j \in DOMAIN events : j > i + 1 /\ Tells(events[j], f, CREATED)
        BY <1>4, <2>1, <2>2
      <3>2. j - 1 > i /\ j > 1
        BY <1>3, <3>1
      <3> QED
        BY <1>5, <3>1, <3>2
    <2>3. ASSUME pending'[f] = DELETED
          PROVE  \E j \in DOMAIN events' : Tells(events'[j], f, CREATED)
      <3>1. \E j \in DOMAIN events : j > 1 /\ Tells(events[j], f, CREATED)
        <4>1. CASE pending[f] = DELETED
          <5>1. PICK j \in DOMAIN events : Tells(events[j], f, CREATED)
            BY <2>1, <4>1
          <5>2. ~Tells(events[1], f, CREATED)
            BY <1>8, <1>10, <2>3, Kinds
          <5> QED
            BY <1>6, <5>1, <5>2
        <4>2. CASE pending[f] # DELETED
          <5>1. Tells(events[1], f, DELETED)
            BY <1>8, <1>10, <2>3, <4>2
          <5> QED
            BY <1>6, <2>1, <5>1
        <4> QED
          BY <4>1, <4>2
      <3> QED
        BY <1>5, <3>1
    <2> QED
      BY <2>2, <2>3
  <1>14. \A s, f : f \in Files /\ pending'[f] # 0 => Coming(s, f)'
    <2> SUFFICES ASSUME NEW s, NEW f \in Files, pending'[f] # 0
                 PROVE  Coming(s, f)'
      OBVIOUS
    <2>1. CASE Right(f, pending[f])'
      BY <2>1 DEF Coming, Collected
    <2>2. CASE ~Right(f, pending[f])'
      <3>1. pending'[f] = DELETED /\ f \in disk'
        BY <2>2 DEF Right
      <3>2. PICK j \in DOMAIN events' : Tells(events'[j], f, CREATED)
        BY <1>13, <3>1 DEF Recreated
      <3>3. Right(f, CREATED)'
        BY Kinds DEF Right
      <3> QED
        BY <3>2, <3>3, Kinds DEF Coming, Reported
    <2> QED
      BY <2>1, <2>2
  <1>15. Known'
    <2> SUFFICES ASSUME NEW s \in live, NEW f \in stale[s],
                        f \notin unasked[s], f \notin doubled[s]
                 PROVE  Coming(s, f)'
      BY <1>2 DEF Known
    <2>1. f \in Files /\ Coming(s, f)
      BY DEF Inv, TypeOK, Known
    <2>2. CASE Reported(f)
      <3>1. PICK t \in Types : Right(f, t) /\ \E i \in DOMAIN events : Tells(events[i], f, t)
        BY <2>2 DEF Reported
      <3>2. PICK i \in DOMAIN events : Tells(events[i], f, t)
        BY <3>1
      <3>3. CASE i = 1
        <4>1. pending'[f] # 0
          BY <1>8, <2>1, <3>2, <3>3, Kinds
        <4> QED
          BY <1>14, <2>1, <4>1
      <3>4. CASE i > 1
        <4>1. i - 1 \in DOMAIN events' /\ Tells(events'[i - 1], f, t)
          BY <1>5, <3>2, <3>4
        <4>2. Right(f, t)'
          BY <1>2, <3>1 DEF Right
        <4> QED
          BY <4>1, <4>2 DEF Coming, Reported
      <3> QED
        BY <1>6, <3>3, <3>4
    <2>3. CASE Collected(f)
      <3>1. pending'[f] # 0
        BY <1>9, <2>1, <2>3 DEF Collected
      <3> QED
        BY <1>14, <2>1, <3>1
    <2>4. CASE Requested(f)
      BY <1>1, <1>2, <2>4 DEF Coming, Requested, Right
    <2>5. CASE \E r \in Reporters : Underway(work[r], s, f)
      BY <1>1, <1>2, <2>5 DEF Coming, Underway, Right
    <2> QED
      BY <2>1, <2>2, <2>3, <2>4, <2>5 DEF Coming
  <1>16. Refreshed'
    <2>1. ASSUME NEW m \in Manifests, NEW i \in DOMAIN events, NEW t \in Types,
                 Tells(events[i], m, t)
          PROVE  pending'[m] # 0 \/ \E k \in DOMAIN events' : Tells(events'[k], m, t)
      <3>1. CASE i = 1
        BY <1>8, <1>10, <2>1, <3>1, Kinds
      <3>2. CASE i > 1
        BY <1>5, <2>1, <3>2
      <3> QED
        BY <1>6, <3>1, <3>2
    <2> QED
      BY <1>1, <1>2, <1>9, <1>10, <2>1 DEF Inv, Refreshed
  <1> QED
    BY <1>11, <1>12, <1>13, <1>15, <1>16 DEF Inv

\* A new batch for a reporter that has nothing to do.
LEMMA Batched ==
  ASSUME TypeOK, NEW r \in Reporters, NEW batch \in SUBSET Changes,
         work' = [work EXCEPT ![r].batch = batch, ![r].todo = live]
  PROVE  /\ work' \in [Reporters -> Working]
         /\ \A q \in Reporters \ {r} : work'[q] = work[q]
         /\ work'[r].batch = batch /\ work'[r].todo = live
         /\ work'[r].at = work[r].at /\ work'[r].step = work[r].step
         /\ work'[r].chosen = work[r].chosen
  <1> DEFINE new == [work[r] EXCEPT !.batch = batch, !.todo = live]
  <1>1. work \in [Reporters -> Working] /\ live \in SUBSET Servers
    BY DEF TypeOK
  <1>2. work[r] \in Working
    BY <1>1
  <1>3. work' = [work EXCEPT ![r] = new]
    BY <1>1
  <1>4. /\ new \in Working
        /\ new.batch = batch /\ new.todo = live /\ new.at = work[r].at
        /\ new.step = work[r].step /\ new.chosen = work[r].chosen
    BY <1>1, <1>2 DEF Working
  <1> HIDE DEF new
  <1>5. work'[r] = new /\ work' \in [Reporters -> Working]
    BY <1>1, <1>3, <1>4
  <1>6. \A q \in Reporters \ {r} : work'[q] = work[q]
    BY <1>1, <1>3
  <1> QED
    BY <1>4, <1>5, <1>6

\* A batch ends: all that it says is now to be told to every server.
LEMMA WindowEndsStep ==
  ASSUME Inv, WindowEnds
  PROVE  Inv'
  <1> DEFINE manifest == \E c \in Batch : c[1] \in Manifests
  <1>1. /\ watcher = "batching" /\ events = <<>> /\ pending' = Empty
        /\ refreshing' = (manifest /\ ~cooling)
        /\ index' = IF manifest /\ cooling THEN "left old" ELSE index
        /\ IF Batch = {} THEN watcher' = "idle" /\ UNCHANGED work
           ELSE /\ watcher' = "telling"
                /\ work' = [work EXCEPT !["watcher"].batch = Batch, !["watcher"].todo = live]
    BY DEF WindowEnds
  <1>2. UNCHANGED <<remote, disk, left, events, lines, live, registered, recent, cooling,
                    stale, unasked, doubled>>
    BY DEF WindowEnds, world, servers
  <1>3. /\ pending \in [Files -> 0 .. 3] /\ cooling \in BOOLEAN
        /\ work["watcher"].todo = {} /\ work["watcher"].at = "none"
        /\ work \in [Reporters -> Working]
    BY <1>1 DEF Inv, TypeOK, Channels
  <1>4. Batch \in SUBSET Changes /\ OneEach(Batch)
    BY DEF Batch, OneEach, Changes
  <1>5. \A f \in Files : pending[f] # 0 => <<f, pending[f]>> \in Batch /\ pending[f] \in Types
    BY <1>3, Kinds DEF Batch, Changes
  <1>6. \A c \in Batch : c[1] \in Files /\ pending[c[1]] # 0
    BY Kinds DEF Batch, Changes
  <1>7. "watcher" \in Reporters /\ "loop" \in Reporters /\ "none" \notin Servers
    BY SetsAgree DEF Reporters
  <1>8. /\ work' \in [Reporters -> Working]
        /\ \A q \in Reporters \ {"watcher"} : work'[q] = work[q]
        /\ work'["watcher"].at = "none" /\ work'["watcher"].step = work["watcher"].step
        /\ IF Batch = {} THEN work' = work
           ELSE work'["watcher"].batch = Batch /\ work'["watcher"].todo = live
    <2>1. CASE Batch = {}
      BY <1>1, <1>3, <2>1
    <2>2. CASE Batch # {}
      <3>1. work' = [work EXCEPT !["watcher"].batch = Batch, !["watcher"].todo = live]
        BY <1>1, <2>2
      <3>2. TypeOK
        BY DEF Inv
      <3> QED
        BY <1>3, <1>4, <1>7, <2>2, <3>1, <3>2, Batched
    <2> QED
      BY <2>1, <2>2
  <1>9. /\ Empty \in [Files -> 0 .. 3] /\ \A f \in Files : Empty[f] = 0
    BY DEF Empty
  <1>10. TypeOK'
    <2>1. \A r \in Reporters : \A c, d \in work'[r].batch : c[1] = d[1] => c = d
      <3>1. \A r \in Reporters : \A c, d \in work[r].batch : c[1] = d[1] => c = d
        BY DEF Inv, TypeOK
      <3>2. \A r \in Reporters : work'[r].batch = work[r].batch \/ work'[r].batch = Batch
        BY <1>8
      <3> QED
        BY <1>4, <3>1, <3>2 DEF OneEach
    <2>2. /\ watcher' \in {"idle", "batching", "telling"} /\ refreshing' \in BOOLEAN
          /\ index' \in {"fresh", "old", "left old"}
      BY <1>1, <1>3 DEF Inv, TypeOK
    <2> QED
      BY <1>1, <1>2, <1>8, <1>9, <2>1, <2>2 DEF Inv, TypeOK
  <1>11. Channels'
    <2>1. \A r \in Reporters : work'[r].step = "next" <=> work'[r].at = "none"
      BY <1>3, <1>8 DEF Inv, Channels
    <2>2. watcher' # "telling" => work'["watcher"].todo = {} /\ work'["watcher"].at = "none"
      BY <1>1, <1>3, <1>8
    <2> QED
      BY <1>1, <1>2, <2>1, <2>2 DEF Inv, Channels
  <1>12. Recreated'
    <2>1. disk \subseteq Files /\ DELETED # 0
      BY Kinds DEF Inv, TypeOK
    <2> QED
      BY <1>1, <1>2, <1>9, <2>1 DEF Inv, Recreated
  <1>13. Known'
    <2> SUFFICES ASSUME NEW s \in live, NEW f \in stale[s],
                        f \notin unasked[s], f \notin doubled[s]
                 PROVE  Coming(s, f)'
      BY <1>2 DEF Known
    <2>1. f \in Files /\ Coming(s, f) /\ s \in Servers
      BY DEF Inv, TypeOK, Known
    <2>2. \A t : Right(f, t)' <=> Right(f, t)
      BY <1>2 DEF Right
    <2>3. ~Reported(f)
      <3>1. events = <<>>
        BY <1>1
      <3>2. DOMAIN events = {}
        BY <3>1
      <3> QED
        BY <3>2 DEF Reported
    <2>4. CASE Collected(f)
      <3>1. <<f, pending[f]>> \in Batch /\ pending[f] \in Types /\ Right(f, pending[f])
        BY <1>5, <2>1, <2>4 DEF Collected
      <3>2. PICK t \in Types : t = pending[f]
        BY <3>1
      <3>3. s \in work'["watcher"].todo /\ work'["watcher"].at # s
            /\ <<f, t>> \in work'["watcher"].batch /\ Right(f, t)'
        BY <1>7, <1>8, <2>1, <2>2, <3>1, <3>2
      <3> QED
        BY <1>7, <3>3 DEF Coming, Underway
    <2>5. CASE Requested(f)
      BY <1>2, <2>2, <2>5 DEF Coming, Requested
    <2>6. CASE \E r \in Reporters : Underway(work[r], s, f)
      <3>1. ~Underway(work["watcher"], s, f)
        BY <1>3, <1>7, <2>1 DEF Underway
      <3>2. PICK r \in Reporters \ {"watcher"} : Underway(work[r], s, f)
        BY <2>6, <3>1
      <3>3. Underway(work[r], s, f)'
        BY <1>8, <2>2, <3>2 DEF Underway
      <3> QED
        BY <3>3 DEF Coming
    <2> QED
      BY <2>1, <2>3, <2>4, <2>5, <2>6 DEF Coming
  <1>14. Refreshed'
    <2> SUFFICES ASSUME NEW j \in JuliaServers \intersect live, index' = "old"
                 PROVE  refreshing' /\ j \in work'["watcher"].todo
      BY <1>2 DEF Refreshed
    <2>1. index = "old" /\ ~(manifest /\ cooling)
      BY <1>1
    <2>2. \E m \in Manifests : pending[m] # 0
      BY <1>1, <1>3, <1>7, <2>1, SetsAgree DEF Inv, Refreshed
    <2>3. manifest
      BY <1>5, <2>2, SetsAgree
    <2> QED
      BY <1>1, <1>3, <1>8, <2>1, <2>3
  <1> QED
    BY <1>10, <1>11, <1>12, <1>13, <1>14 DEF Inv

\* The batch has been told.
LEMMA ToldStep ==
  ASSUME Inv, Told
  PROVE  Inv'
  <1>1. /\ watcher = "telling" /\ watcher' = "idle" /\ refreshing' = FALSE
        /\ work["watcher"].todo = {} /\ work["watcher"].at = "none"
        /\ work' = [work EXCEPT !["watcher"] = NoWork]
        /\ UNCHANGED <<world, events, lines, servers, pending, cooling, knowledge>>
    BY DEF Told
  <1>2. UNCHANGED <<remote, disk, left, live, registered, recent, stale, unasked, doubled, index>>
    BY <1>1 DEF world, servers, knowledge
  <1>3. "watcher" \in Reporters /\ "none" \notin Servers
    BY SetsAgree DEF Reporters
  <1>4. /\ NoWork \in Working /\ NoWork.batch = {} /\ NoWork.todo = {} /\ NoWork.at = "none"
        /\ NoWork.step = "next"
    BY DEF NoWork, Working
  <1>5. work \in [Reporters -> Working]
    BY DEF Inv, TypeOK
  <1>6. /\ work' \in [Reporters -> Working] /\ work'["watcher"] = NoWork
        /\ \A q \in Reporters \ {"watcher"} : work'[q] = work[q]
    BY <1>1, <1>3, <1>4, <1>5
  <1>7. TypeOK'
    <2>1. \A r \in Reporters : \A c, d \in work'[r].batch : c[1] = d[1] => c = d
      BY <1>4, <1>6 DEF Inv, TypeOK
    <2> QED
      BY <1>1, <1>2, <1>6, <2>1 DEF Inv, TypeOK
  <1>8. Channels'
    <2>1. \A r \in Reporters : work'[r].step = "next" <=> work'[r].at = "none"
      BY <1>4, <1>6 DEF Inv, Channels
    <2> QED
      BY <1>1, <1>2, <1>4, <1>6, <2>1 DEF Inv, Channels
  <1>9. Recreated'
    BY <1>1, <1>2 DEF Inv, Recreated
  <1>10. Known'
    <2> SUFFICES ASSUME NEW s \in live, NEW f \in stale[s],
                        f \notin unasked[s], f \notin doubled[s]
                 PROVE  Coming(s, f)'
      BY <1>2 DEF Known
    <2>1. Coming(s, f) /\ s \in Servers
      BY DEF Inv, TypeOK, Known
    <2>2. ~Underway(work["watcher"], s, f)
      BY <1>1, <1>3, <2>1 DEF Underway
    <2> QED
      BY <1>1, <1>2, <1>3, <1>6, <2>1, <2>2, ComingElsewhere
  <1>11. Refreshed'
    BY <1>1, <1>2, <1>3, SetsAgree DEF Inv, Refreshed
  <1> QED
    BY <1>7, <1>8, <1>9, <1>10, <1>11 DEF Inv

\* The pause after a refresh ends.
LEMMA CooledStep ==
  ASSUME Inv, Cooled
  PROVE  Inv'
  <1>1. /\ cooling' = FALSE
        /\ UNCHANGED <<remote, disk, left, events, lines, live, registered, recent, watcher,
                       pending, refreshing, work, stale, unasked, doubled, index>>
    BY DEF Cooled, world, servers, knowledge
  <1>2. TypeOK'
    BY <1>1 DEF Inv, TypeOK
  <1>3. Channels'
    BY <1>1 DEF Inv, Channels
  <1>4. Recreated'
    BY <1>1 DEF Inv, Recreated
  <1>5. Known'
    <2>1. ASSUME NEW s, NEW f, Coming(s, f) PROVE Coming(s, f)'
      BY <1>1, <2>1 DEF Coming, Reported, Requested, Collected, Right, Underway
    <2> QED
      BY <1>1, <2>1 DEF Inv, Known
  <1>6. Refreshed'
    BY <1>1 DEF Inv, Refreshed
  <1> QED
    BY <1>2, <1>3, <1>4, <1>5, <1>6 DEF Inv

\* The daemon loop takes a request: what it says is to be told to every server.
LEMMA TakeLineStep ==
  ASSUME Inv, TakeLine
  PROVE  Inv'
  <1> DEFINE new == [NoWork EXCEPT !.batch = Head(lines), !.todo = live]
  <1>1. /\ work["loop"].todo = {} /\ work["loop"].at = "none" /\ lines # <<>>
        /\ lines' = Tail(lines) /\ work' = [work EXCEPT !["loop"] = new]
        /\ UNCHANGED <<world, events, servers, batching, knowledge>>
    BY DEF TakeLine
  <1>2. UNCHANGED <<remote, disk, left, live, registered, recent, watcher, pending,
                    refreshing, cooling, stale, unasked, doubled, index>>
    BY <1>1 DEF world, servers, batching, knowledge
  <1>3. /\ lines \in Seq(SUBSET Changes) /\ work \in [Reporters -> Working]
        /\ live \in SUBSET Servers /\ Len(lines) <= MaxQueue /\ MaxQueue \in Nat
    BY SetsAgree DEF Inv, TypeOK
  <1>4. /\ lines' \in Seq(SUBSET Changes) /\ Len(lines) \in Nat \ {0}
        /\ Len(lines') = Len(lines) - 1
        /\ DOMAIN lines = 1 .. Len(lines) /\ DOMAIN lines' = 1 .. Len(lines) - 1
        /\ \A i \in DOMAIN lines' : lines'[i] = lines[i + 1]
        /\ Head(lines) = lines[1] /\ lines[1] \in SUBSET Changes
    BY <1>1, <1>3, TailOf
  <1>5. \A i \in DOMAIN lines' : i + 1 \in DOMAIN lines /\ lines'[i] = lines[i + 1]
    BY <1>4
  <1>6. \A j \in DOMAIN lines : j = 1 \/ (j - 1 \in DOMAIN lines' /\ lines'[j - 1] = lines[j])
    <2> SUFFICES ASSUME NEW j \in DOMAIN lines, j # 1
                 PROVE  j - 1 \in DOMAIN lines' /\ lines'[j - 1] = lines[j]
      OBVIOUS
    <2>1. j - 1 \in DOMAIN lines' /\ (j - 1) + 1 = j
      BY <1>4
    <2> QED
      BY <1>4, <2>1
  <1>7. OneEach(lines[1])
    BY <1>4 DEF Inv, Channels
  <1>8. "loop" \in Reporters /\ "watcher" \in Reporters /\ "none" \notin Servers
        /\ "loop" # "watcher"
    BY SetsAgree DEF Reporters
  <1>9. /\ new \in Working /\ new.batch = lines[1] /\ new.todo = live /\ new.at = "none"
        /\ new.step = "next"
    BY <1>3, <1>4 DEF NoWork, Working
  <1> HIDE DEF new
  <1>10. /\ work' \in [Reporters -> Working] /\ work'["loop"] = new
         /\ \A q \in Reporters \ {"loop"} : work'[q] = work[q]
    BY <1>1, <1>3, <1>8, <1>9
  <1>11. TypeOK'
    <2>1. Len(lines') <= MaxQueue
      BY <1>3, <1>4
    <2>2. \A r \in Reporters : \A c, d \in work'[r].batch : c[1] = d[1] => c = d
      BY <1>7, <1>9, <1>10 DEF Inv, TypeOK, OneEach
    <2> QED
      BY <1>1, <1>2, <1>4, <1>10, <2>1, <2>2 DEF Inv, TypeOK
  <1>12. Channels'
    <2>1. \A r \in Reporters : work'[r].step = "next" <=> work'[r].at = "none"
      BY <1>9, <1>10 DEF Inv, Channels
    <2>2. \A i \in DOMAIN lines' : OneEach(lines'[i])
      BY <1>5 DEF Inv, Channels
    <2>3. work'["watcher"] = work["watcher"]
      BY <1>8, <1>10
    <2> QED
      BY <1>1, <1>2, <2>1, <2>2, <2>3 DEF Inv, Channels
  <1>13. Recreated'
    BY <1>1, <1>2 DEF Inv, Recreated
  <1>14. Known'
    <2> SUFFICES ASSUME NEW s \in live, NEW f \in stale[s],
                        f \notin unasked[s], f \notin doubled[s]
                 PROVE  Coming(s, f)'
      BY <1>2 DEF Known
    <2>1. Coming(s, f) /\ s \in Servers
      BY DEF Inv, TypeOK, Known
    <2>2. \A t : Right(f, t)' <=> Right(f, t)
      BY <1>2 DEF Right
    <2>3. CASE Reported(f) \/ Collected(f)
      BY <1>1, <1>2, <2>2, <2>3 DEF Coming, Reported, Collected
    <2>4. CASE Requested(f)
      <3>1. PICK t \in Types : Right(f, t) /\ \E i \in DOMAIN lines : <<f, t>> \in lines[i]
        BY <2>4 DEF Requested
      <3>2. PICK i \in DOMAIN lines : <<f, t>> \in lines[i]
        BY <3>1
      <3>3. CASE i = 1
        BY <1>8, <1>9, <1>10, <2>1, <2>2, <3>1, <3>2, <3>3 DEF Coming, Underway
      <3>4. CASE i # 1
        BY <1>6, <2>2, <3>1, <3>2, <3>4 DEF Coming, Requested
      <3> QED
        BY <3>3, <3>4
    <2>5. CASE \E r \in Reporters : Underway(work[r], s, f)
      <3>1. ~Underway(work["loop"], s, f)
        BY <1>1, <1>8, <2>1 DEF Underway
      <3>2. PICK r \in Reporters \ {"loop"} : Underway(work[r], s, f)
        BY <2>5, <3>1
      <3>3. Underway(work[r], s, f)'
        BY <1>10, <2>2, <3>2 DEF Underway
      <3> QED
        BY <3>3 DEF Coming
    <2> QED
      BY <2>1, <2>3, <2>4, <2>5 DEF Coming
  <1>15. Refreshed'
    <2>1. work'["watcher"] = work["watcher"]
      BY <1>8, <1>10
    <2> QED
      BY <1>1, <1>2, <2>1 DEF Inv, Refreshed
  <1> QED
    BY <1>11, <1>12, <1>13, <1>14, <1>15 DEF Inv

-----------------------------------------------------------------------------
(* The notifications.                                                      *)

\* A step of a reporter: what a server still has to hear it still has to hear,
\* or it is accounted for; and Julia's index is refreshed, or still will be.
LEMMA ReportsStep ==
  ASSUME Inv, NEW r \in Reporters,
         work[r].todo # {} \/ work[r].at # "none",
         UNCHANGED <<world, events, lines, live, registered, watcher, pending, refreshing>>,
         work' \in [Reporters -> Working], \A q \in Reporters \ {r} : work'[q] = work[q],
         work'[r].batch = work[r].batch,
         work'[r].step = "next" <=> work'[r].at = "none",
         recent' \in [Servers -> SUBSET Changes], \A s \in Servers \ live : recent'[s] = {},
         cooling' \in BOOLEAN, index' \in {"fresh", index},
         stale' \in [Servers -> SUBSET Files], unasked' \in [Servers -> SUBSET Files],
         doubled' \in [Servers -> SUBSET Files],
         \A s \in live : \A f \in stale'[s] : f \notin unasked'[s] /\ f \notin doubled'[s] =>
           /\ f \in stale[s] /\ f \notin unasked[s] /\ f \notin doubled[s]
           /\ Underway(work[r], s, f) => Underway(work'[r], s, f),
         \A j \in JuliaServers \intersect live :
           index' = "old" /\ refreshing /\ r = "watcher" /\ (j \in work[r].todo \/ work[r].at = j)
             => (j \in work'[r].todo \/ work'[r].at = j)
  PROVE  Inv'
  <1>1. UNCHANGED <<remote, disk, left>>
    BY DEF world
  <1>2. TypeOK'
    <2>1. \A q \in Reporters : \A c, d \in work'[q].batch : c[1] = d[1] => c = d
      <3>1. \A q \in Reporters : work'[q].batch = work[q].batch
        OBVIOUS
      <3>2. \A q \in Reporters : \A c, d \in work[q].batch : c[1] = d[1] => c = d
        BY DEF Inv, TypeOK
      <3> QED
        BY <3>1, <3>2
    <2>2. \A s \in Servers \ live : recent'[s] = {} /\ \A i \in Ids : registered'[s][i] = None
      BY DEF Inv, TypeOK
    <2>3. index' \in {"fresh", "old", "left old"}
      BY DEF Inv, TypeOK
    <2> QED
      BY <1>1, <2>1, <2>2, <2>3 DEF Inv, TypeOK
  <1>3. Channels'
    <2>1. \A q \in Reporters : work'[q].step = "next" <=> work'[q].at = "none"
      BY DEF Inv, Channels
    <2>2. "watcher" \in Reporters
      BY DEF Reporters
    <2>3. watcher # "telling" => work'["watcher"].todo = {} /\ work'["watcher"].at = "none"
      BY <2>2 DEF Inv, Channels
    <2> QED
      BY <1>1, <2>1, <2>3 DEF Inv, Channels
  <1>4. Recreated'
    BY <1>1 DEF Inv, Recreated
  <1>5. Known'
    <2> SUFFICES ASSUME NEW s \in live, NEW f \in stale'[s],
                        f \notin unasked'[s], f \notin doubled'[s]
                 PROVE  Coming(s, f)'
      BY DEF Known
    <2>1. Coming(s, f) /\ (Underway(work[r], s, f) => Underway(work'[r], s, f))
      BY DEF Inv, Known
    <2>2. Coming(s, f)' \/ Underway(work[r], s, f)
      BY <1>1, <2>1, ComingElsewhere
    <2>3. Underway(work'[r], s, f) => Underway(work[r], s, f)'
      BY <1>1 DEF Underway, Right
    <2> QED
      BY <2>1, <2>2, <2>3 DEF Coming
  <1>6. Refreshed'
    <2>1. "watcher" \in Reporters
      BY DEF Reporters
    <2>2. \A j \in JuliaServers \intersect live :
            index' = "old" /\ refreshing /\ (j \in work["watcher"].todo \/ work["watcher"].at = j)
              => (j \in work'["watcher"].todo \/ work'["watcher"].at = j)
      BY <2>1
    <2>3. index' = "old" => index = "old"
      OBVIOUS
    <2> QED
      BY <2>2, <2>3 DEF Inv, Refreshed
  <1> QED
    BY <1>2, <1>3, <1>4, <1>5, <1>6 DEF Inv

\* A change that is filtered is one that the server did not ask for.
LEMMA FilterStep ==
  ASSUME Inv, NEW r \in Reporters, Filter(r)
  PROVE  Inv'
  <1>1. PICK s \in work[r].todo :
          LET chosen == {c \in work[r].batch : Matches(s, c)}
          IN  /\ unasked' = [unasked EXCEPT ![s] =
                               @ \union (stale[s] \intersect FilesOf(work[r].batch \ chosen))]
              /\ IF chosen = {} THEN AfterNotify(r, s)
                 ELSE work' = [work EXCEPT ![r].at = s, ![r].step = "claim",
                                           ![r].chosen = chosen]
    BY DEF Filter
  <1> DEFINE chosen == {c \in work[r].batch : Matches(s, c)}
  <1>2. /\ work[r].at = "none"
        /\ UNCHANGED <<world, events, lines, servers, batching, stale, doubled, index>>
    BY DEF Filter
  <1>3. UNCHANGED <<live, registered, recent, watcher, pending, refreshing, cooling>>
    BY <1>2 DEF servers, batching
  <1>4. /\ work \in [Reporters -> Working] /\ live \subseteq Servers
        /\ unasked \in [Servers -> SUBSET Files] /\ stale \in [Servers -> SUBSET Files]
        /\ TypeOK
    BY DEF Inv, TypeOK
  <1>5. work[r] \in Working /\ s \in Servers /\ s # "none" /\ chosen \in SUBSET Changes
    BY <1>4, SetsAgree DEF Working
  <1>6. \A c \in work[r].batch : c \in chosen \/ c \in work[r].batch \ chosen
    OBVIOUS
  <1>7. /\ unasked' = [unasked EXCEPT ![s] =
                         @ \union (stale[s] \intersect FilesOf(work[r].batch \ chosen))]
        /\ IF chosen = {} THEN AfterNotify(r, s)
           ELSE work' = [work EXCEPT ![r].at = s, ![r].step = "claim", ![r].chosen = chosen]
    BY <1>1
  <1> HIDE DEF chosen
  <1>8. /\ unasked' \in [Servers -> SUBSET Files]
        /\ \A q \in Servers : unasked[q] \subseteq unasked'[q]
        /\ unasked'[s] = unasked[s] \union (stale[s] \intersect FilesOf(work[r].batch \ chosen))
    BY <1>4, <1>5, <1>7
  <1>9. /\ work' \in [Reporters -> Working] /\ \A q \in Reporters \ {r} : work'[q] = work[q]
        /\ work'[r].batch = work[r].batch
        /\ work'[r].step = "next" <=> work'[r].at = "none"
        /\ work'[r].at \in {s, "none"}
        /\ \A q \in Servers \ {s} : q \in work[r].todo => q \in work'[r].todo
        /\ chosen # {} => /\ work'[r].at = s /\ work'[r].step = "claim"
                          /\ work'[r].chosen = chosen
        /\ r = "watcher" /\ refreshing => s \in work'[r].todo \/ work'[r].at = s
    <2>1. CASE chosen = {}
      <3>1. AfterNotify(r, s)
        BY <1>7, <2>1
      <3> QED
        BY <1>4, <1>5, <2>1, <3>1, Finished
    <2>2. CASE chosen # {}
      <3> DEFINE new == [work[r] EXCEPT !.at = s, !.step = "claim", !.chosen = chosen]
      <3>1. work' = [work EXCEPT ![r] = new]
        BY <1>4, <1>7, <2>2
      <3>2. /\ new \in Working /\ new.batch = work[r].batch /\ new.todo = work[r].todo
            /\ new.at = s /\ new.step = "claim" /\ new.chosen = chosen
        BY <1>5 DEF Working
      <3> HIDE DEF new
      <3>3. work'[r] = new /\ work' \in [Reporters -> Working]
        BY <1>4, <3>1, <3>2
      <3>4. \A q \in Reporters \ {r} : work'[q] = work[q]
        BY <1>4, <3>1
      <3> QED
        BY <1>5, <3>2, <3>3, <3>4
    <2> QED
      BY <2>1, <2>2
  <1>10. ASSUME NEW q \in live, NEW f \in stale[q], f \notin unasked'[q], f \notin doubled[q]
         PROVE  /\ f \notin unasked[q]
                /\ Underway(work[r], q, f) => Underway(work'[r], q, f)
    <2>1. q \in Servers /\ q # "none" /\ f \notin unasked[q]
      BY <1>4, <1>8, <1>10, SetsAgree
    <2>2. ASSUME Underway(work[r], q, f) PROVE Underway(work'[r], q, f)
      <3>1. PICK t \in Types : /\ Right(f, t) /\ q \in work[r].todo
                               /\ <<f, t>> \in work[r].batch
        BY <1>2, <2>1, <2>2 DEF Underway
      <3>2. CASE q # s
        BY <1>9, <2>1, <3>1, <3>2 DEF Underway
      <3>3. CASE q = s
        <4>1. <<f, t>> \notin work[r].batch \ chosen
          <5>1. f \notin FilesOf(work[r].batch \ chosen)
            BY <1>8, <1>10, <3>3
          <5> QED
            BY <5>1 DEF FilesOf
        <4>2. <<f, t>> \in chosen
          BY <1>6, <3>1, <4>1
        <4> QED
          BY <1>9, <3>1, <3>3, <4>2 DEF Underway
      <3> QED
        BY <3>2, <3>3
    <2> QED
      BY <2>1, <2>2
  <1>11. ASSUME NEW j \in Servers, refreshing, r = "watcher",
                j \in work[r].todo \/ work[r].at = j
         PROVE  j \in work'[r].todo \/ work'[r].at = j
    BY <1>2, <1>9, <1>11, SetsAgree
  <1>12. /\ \A q \in Servers \ live : recent'[q] = {}
         /\ recent' \in [Servers -> SUBSET Changes] /\ cooling' \in BOOLEAN
         /\ stale' \in [Servers -> SUBSET Files] /\ doubled' \in [Servers -> SUBSET Files]
    BY <1>2, <1>3 DEF Inv, TypeOK
  <1> QED
    BY <1>1, <1>2, <1>3, <1>8, <1>9, <1>10, <1>11, <1>12, SetsAgree, ReportsStep

\* A change that is dropped is a repetition.
LEMMA ClaimStep ==
  ASSUME Inv, NEW r \in Reporters, Claim(r)
  PROVE  Inv'
  <1> DEFINE s == work[r].at
             fresh == work[r].chosen \ recent[s]
  <1>1. /\ work[r].step = "claim"
        /\ recent' = [recent EXCEPT ![s] = IF s \in live THEN @ \union fresh ELSE @]
        /\ doubled' = [doubled EXCEPT ![s] = @ \union (stale[s] \intersect
                                                FilesOf(work[r].chosen \ fresh))]
        /\ IF fresh = {} THEN AfterNotify(r, s)
           ELSE work' = [work EXCEPT ![r].step = "notify", ![r].chosen = fresh]
    BY DEF Claim
  <1>2. UNCHANGED <<world, events, lines, live, registered, batching, stale, unasked, index>>
    BY DEF Claim
  <1>3. UNCHANGED <<watcher, pending, refreshing, cooling>>
    BY <1>2 DEF batching
  <1>4. /\ work \in [Reporters -> Working] /\ live \subseteq Servers
        /\ doubled \in [Servers -> SUBSET Files] /\ stale \in [Servers -> SUBSET Files]
        /\ recent \in [Servers -> SUBSET Changes]
        /\ \A q \in Servers \ live : recent[q] = {}
        /\ TypeOK
    BY DEF Inv, TypeOK
  <1>5. work[r] \in Working /\ s \in Servers /\ s # "none" /\ fresh \in SUBSET Changes
    <2>1. work[r] \in Working /\ s # "none"
      BY <1>1, <1>4 DEF Inv, Channels
    <2> QED
      BY <2>1 DEF Working
  <1>6. /\ fresh \subseteq work[r].chosen
        /\ \A c \in work[r].chosen : c \in fresh \/ c \in work[r].chosen \ fresh
    OBVIOUS
  <1>7. PICK s0 \in Servers : s0 = work[r].at
    BY <1>5
  <1>8. PICK fresh0 \in SUBSET Changes : fresh0 = fresh
    BY <1>5
  <1> HIDE DEF s, fresh
  <1>9. s = s0
    BY <1>7 DEF s
  <1>10. /\ doubled' \in [Servers -> SUBSET Files]
         /\ \A q \in Servers : doubled[q] \subseteq doubled'[q]
         /\ doubled'[s0] = doubled[s0] \union (stale[s0] \intersect
                                               FilesOf(work[r].chosen \ fresh0))
    BY <1>1, <1>4, <1>8, <1>9
  <1>11. /\ recent' \in [Servers -> SUBSET Changes]
         /\ \A q \in Servers \ live : recent'[q] = {}
    BY <1>1, <1>4, <1>5
  <1>12. /\ work' \in [Reporters -> Working] /\ \A q \in Reporters \ {r} : work'[q] = work[q]
         /\ work'[r].batch = work[r].batch
         /\ work'[r].step = "next" <=> work'[r].at = "none"
         /\ work'[r].at \in {s0, "none"}
         /\ \A q \in Servers \ {s0} : q \in work[r].todo => q \in work'[r].todo
         /\ fresh0 # {} => /\ work'[r].at = s0 /\ work'[r].step = "notify"
                           /\ work'[r].chosen = fresh0
         /\ r = "watcher" /\ refreshing => s0 \in work'[r].todo \/ work'[r].at = s0
    <2>0. s0 # "none"
      BY SetsAgree
    <2>1. CASE fresh0 = {}
      <3>1. AfterNotify(r, s0)
        BY <1>1, <1>8, <1>9, <2>1
      <3> QED
        BY <1>4, <2>0, <2>1, <3>1, Finished
    <2>2. CASE fresh0 # {}
      <3> DEFINE new == [work[r] EXCEPT !.step = "notify", !.chosen = fresh0]
      <3>1. work' = [work EXCEPT ![r] = new]
        BY <1>1, <1>4, <1>8, <2>2
      <3>2. /\ new \in Working /\ new.batch = work[r].batch /\ new.todo = work[r].todo
            /\ new.at = work[r].at /\ new.step = "notify" /\ new.chosen = fresh0
        BY <1>5 DEF Working
      <3> HIDE DEF new
      <3>3. work'[r] = new /\ work' \in [Reporters -> Working]
        BY <1>4, <3>1, <3>2
      <3>4. \A q \in Reporters \ {r} : work'[q] = work[q]
        BY <1>4, <3>1
      <3> QED
        BY <1>7, <2>0, <3>2, <3>3, <3>4
    <2> QED
      BY <2>1, <2>2
  <1>13. ASSUME NEW q \in live, NEW f \in stale[q], f \notin unasked[q], f \notin doubled'[q]
         PROVE  /\ f \notin doubled[q]
                /\ Underway(work[r], q, f) => Underway(work'[r], q, f)
    <2>1. q \in Servers /\ q # "none" /\ f \notin doubled[q]
      BY <1>4, <1>10, <1>13, SetsAgree
    <2>2. ASSUME Underway(work[r], q, f) PROVE Underway(work'[r], q, f)
      <3>1. CASE q # s0
        <4>1. PICK t \in Types : /\ Right(f, t) /\ q \in work[r].todo
                                 /\ <<f, t>> \in work[r].batch
          BY <1>7, <2>2, <3>1 DEF Underway
        <4> QED
          BY <1>12, <2>1, <3>1, <4>1 DEF Underway
      <3>2. CASE q = s0
        <4>1. PICK t \in Types : Right(f, t) /\ <<f, t>> \in work[r].chosen
          BY <1>7, <2>2, <3>2 DEF Underway
        <4>2. <<f, t>> \notin work[r].chosen \ fresh0
          <5>1. f \notin FilesOf(work[r].chosen \ fresh0)
            BY <1>10, <1>13, <3>2
          <5> QED
            BY <5>1 DEF FilesOf
        <4>3. <<f, t>> \in fresh0
          BY <4>1, <4>2
        <4> QED
          BY <1>12, <3>2, <4>1, <4>3 DEF Underway
      <3> QED
        BY <3>1, <3>2
    <2> QED
      BY <2>1, <2>2
  <1>14. ASSUME NEW j \in Servers, refreshing, r = "watcher",
                j \in work[r].todo \/ work[r].at = j
         PROVE  j \in work'[r].todo \/ work'[r].at = j
    BY <1>7, <1>12, <1>14
  <1>15. /\ cooling' \in BOOLEAN /\ work[r].at # "none"
         /\ stale' \in [Servers -> SUBSET Files] /\ unasked' \in [Servers -> SUBSET Files]
    BY <1>2, <1>3, <1>7, SetsAgree DEF Inv, TypeOK
  <1> QED
    BY <1>2, <1>3, <1>10, <1>11, <1>12, <1>13, <1>14, <1>15, SetsAgree, ReportsStep

\* A server is told, and knows what was right.
LEMMA NotifyStep ==
  ASSUME Inv, NEW r \in Reporters, Notify(r)
  PROVE  Inv'
  <1> DEFINE s == work[r].at
             right == {c[1] : c \in {d \in work[r].chosen :
                                       d[2] = DELETED => d[1] \notin disk}}
  <1>1. /\ work[r].step = "notify" /\ AfterNotify(r, s)
        /\ stale' = [stale EXCEPT ![s] = @ \ right]
        /\ unasked' = [unasked EXCEPT ![s] = @ \ right]
        /\ doubled' = [doubled EXCEPT ![s] = @ \ right]
        /\ UNCHANGED <<world, events, lines, servers, batching, index>>
    BY DEF Notify
  <1>2. UNCHANGED <<live, registered, recent, watcher, pending, refreshing, cooling>>
    BY <1>1 DEF servers, batching
  <1>3. /\ work \in [Reporters -> Working] /\ live \subseteq Servers
        /\ doubled \in [Servers -> SUBSET Files] /\ stale \in [Servers -> SUBSET Files]
        /\ unasked \in [Servers -> SUBSET Files]
        /\ TypeOK
    BY DEF Inv, TypeOK
  <1>4. work[r] \in Working /\ s \in Servers /\ s # "none"
    <2>1. work[r] \in Working /\ s # "none"
      BY <1>1, <1>3 DEF Inv, Channels
    <2> QED
      BY <2>1 DEF Working
  <1>5. \A f \in Files, t \in Types : Right(f, t) /\ <<f, t>> \in work[r].chosen => f \in right
    <2> SUFFICES ASSUME NEW f \in Files, NEW t \in Types, Right(f, t),
                        <<f, t>> \in work[r].chosen
                 PROVE  f \in right
      OBVIOUS
    <2>1. <<f, t>> \in {d \in work[r].chosen : d[2] = DELETED => d[1] \notin disk}
      BY DEF Right
    <2>2. <<f, t>>[1] = f
      OBVIOUS
    <2> QED
      BY <2>1, <2>2
  <1>6. PICK s0 \in Servers : s0 = work[r].at
    BY <1>4
  <1> HIDE DEF s, right
  <1>7. s = s0
    BY <1>6 DEF s
  <1>8. /\ stale' \in [Servers -> SUBSET Files] /\ unasked' \in [Servers -> SUBSET Files]
        /\ doubled' \in [Servers -> SUBSET Files]
        /\ \A q \in Servers \ {s0} : stale'[q] = stale[q] /\ unasked'[q] = unasked[q]
                                     /\ doubled'[q] = doubled[q]
        /\ stale'[s0] = stale[s0] \ right /\ unasked'[s0] = unasked[s0] \ right
        /\ doubled'[s0] = doubled[s0] \ right
    BY <1>1, <1>3, <1>7
  <1>9. /\ work' \in [Reporters -> Working] /\ \A q \in Reporters \ {r} : work'[q] = work[q]
        /\ work'[r].batch = work[r].batch
        /\ work'[r].step = "next" <=> work'[r].at = "none"
        /\ work'[r].at \in {s0, "none"}
        /\ \A q \in Servers \ {s0} : q \in work[r].todo => q \in work'[r].todo
        /\ r = "watcher" /\ refreshing => work'[r].at = s0
    <2>1. AfterNotify(r, s0) /\ s0 # "none"
      BY <1>1, <1>7, SetsAgree
    <2> QED
      BY <1>3, <2>1, Finished
  <1>10. ASSUME NEW q \in live, NEW f \in stale'[q], f \notin unasked'[q], f \notin doubled'[q]
         PROVE  /\ f \in stale[q] /\ f \notin unasked[q] /\ f \notin doubled[q]
                /\ Underway(work[r], q, f) => Underway(work'[r], q, f)
    <2>1. q \in Servers /\ q # "none" /\ f \in Files
      BY <1>3, <1>8, SetsAgree
    <2>2. CASE q # s0
      <3>1. f \in stale[q] /\ f \notin unasked[q] /\ f \notin doubled[q]
        BY <1>8, <1>10, <2>1, <2>2
      <3>2. ASSUME Underway(work[r], q, f) PROVE Underway(work'[r], q, f)
        <4>1. PICK t \in Types : /\ Right(f, t) /\ q \in work[r].todo
                                 /\ <<f, t>> \in work[r].batch
          BY <1>6, <2>2, <3>2 DEF Underway
        <4> QED
          BY <1>9, <2>1, <2>2, <4>1 DEF Underway
      <3> QED
        BY <3>1, <3>2
    <2>3. CASE q = s0
      <3>1. f \notin right /\ f \in stale[q] /\ f \notin unasked[q] /\ f \notin doubled[q]
        BY <1>8, <1>10, <2>3
      <3>2. ~Underway(work[r], q, f)
        BY <1>5, <1>6, <2>1, <2>3, <3>1 DEF Underway
      <3> QED
        BY <3>1, <3>2
    <2> QED
      BY <2>2, <2>3
  <1>11. ASSUME NEW j \in Servers, refreshing, r = "watcher",
                j \in work[r].todo \/ work[r].at = j
         PROVE  j \in work'[r].todo \/ work'[r].at = j
    BY <1>6, <1>9, <1>11
  <1>12. /\ \A q \in Servers \ live : recent'[q] = {}
         /\ recent' \in [Servers -> SUBSET Changes] /\ cooling' \in BOOLEAN
         /\ work[r].at # "none"
    BY <1>2, <1>6, SetsAgree DEF Inv, TypeOK
  <1> QED
    BY <1>1, <1>2, <1>8, <1>9, <1>10, <1>11, <1>12, SetsAgree, ReportsStep

\* Julia's server is asked to refresh its index.
LEMMA RefreshStep ==
  ASSUME Inv, Refresh
  PROVE  Inv'
  <1> DEFINE s == work["watcher"].at
             sent == s \in JuliaServers \intersect live
             new == [work["watcher"] EXCEPT !.at = "none", !.step = "next"]
  <1>1. /\ work["watcher"].step = "refresh"
        /\ cooling' = (cooling \/ sent) /\ index' = IF sent THEN "fresh" ELSE index
        /\ work' = [work EXCEPT !["watcher"].at = "none", !["watcher"].step = "next"]
        /\ UNCHANGED <<world, events, lines, servers, watcher, pending, refreshing,
                       stale, unasked, doubled>>
    BY DEF Refresh
  <1>2. UNCHANGED <<live, registered, recent>>
    BY <1>1 DEF servers
  <1>3. "watcher" \in Reporters /\ "none" \notin Servers
    BY SetsAgree DEF Reporters
  <1>4. /\ work \in [Reporters -> Working] /\ cooling \in BOOLEAN
        /\ live \subseteq Servers
    BY DEF Inv, TypeOK
  <1>5. work["watcher"] \in Working /\ s # "none"
    BY <1>1, <1>3, <1>4 DEF Inv, Channels
  <1>6. work' = [work EXCEPT !["watcher"] = new]
    BY <1>1, <1>3, <1>4
  <1>7. /\ new \in Working /\ new.batch = work["watcher"].batch
        /\ new.todo = work["watcher"].todo /\ new.at = "none" /\ new.step = "next"
    BY <1>5 DEF Working
  <1> HIDE DEF new
  <1>8. /\ work' \in [Reporters -> Working] /\ work'["watcher"] = new
        /\ \A q \in Reporters \ {"watcher"} : work'[q] = work[q]
    BY <1>3, <1>4, <1>6, <1>7
  <1>9. ASSUME NEW q \in live, NEW f, Underway(work["watcher"], q, f)
        PROVE  Underway(work'["watcher"], q, f)
    <2>1. q # "none"
      BY <1>3, <1>4
    <2>2. PICK t \in Types : /\ Right(f, t) /\ q \in work["watcher"].todo
                             /\ <<f, t>> \in work["watcher"].batch
      BY <1>1, <1>9 DEF Underway
    <2> QED
      BY <1>7, <1>8, <2>1, <2>2 DEF Underway
  <1>10. ASSUME NEW j \in JuliaServers \intersect live, index' = "old",
                j \in work["watcher"].todo \/ work["watcher"].at = j
         PROVE  j \in work'["watcher"].todo
    BY <1>1, <1>7, <1>8, <1>10
  <1>11. /\ \A q \in Servers \ live : recent'[q] = {}
         /\ recent' \in [Servers -> SUBSET Changes] /\ cooling' \in BOOLEAN
         /\ stale' \in [Servers -> SUBSET Files] /\ doubled' \in [Servers -> SUBSET Files]
         /\ unasked' \in [Servers -> SUBSET Files] /\ index' \in {"fresh", index}
    BY <1>1, <1>2, <1>4 DEF Inv, TypeOK
  <1> QED
    BY <1>1, <1>2, <1>3, <1>5, <1>7, <1>8, <1>9, <1>10, <1>11, ReportsStep

-----------------------------------------------------------------------------
(* The theorems.                                                           *)

\* Nothing has changed yet.
LEMMA StartsRight ==
  ASSUME Init
  PROVE  Inv
  <1>1. /\ Manifests \subseteq Files /\ MaxChanges \in Nat /\ MaxQueue \in Nat
        /\ "none" \notin Servers
    BY SetsAgree
  <1>2. Everything \in Offered
    BY DEF Offered, Offers, Everything, Watching
  <1>3. /\ NoWork \in Working /\ NoWork.batch = {} /\ NoWork.todo = {} /\ NoWork.at = "none"
        /\ NoWork.step = "next"
    BY DEF NoWork, Working
  <1>4. Empty \in [Files -> 0 .. 3] /\ \A f \in Files : Empty[f] = 0
    BY DEF Empty
  <1>5. /\ events \in Seq(Seq(Changes)) /\ Len(events) = 0 /\ DOMAIN events = {}
        /\ lines \in Seq(SUBSET Changes) /\ Len(lines) = 0 /\ DOMAIN lines = {}
    BY DEF Init
  <1>6. TypeOK
    <2>1. /\ registered \in [Servers -> [Ids -> Offered]] /\ recent \in [Servers -> SUBSET Changes]
          /\ work \in [Reporters -> Working] /\ stale \in [Servers -> SUBSET Files]
          /\ unasked \in [Servers -> SUBSET Files] /\ doubled \in [Servers -> SUBSET Files]
          /\ Servers \ live = {}
      BY <1>2, <1>3 DEF Init
    <2>2. \A r \in Reporters : work[r].batch = {}
      BY <1>3 DEF Init
    <2>3. /\ remote \in BOOLEAN /\ disk \subseteq Files /\ live \subseteq Servers
          /\ watcher \in {"idle", "batching", "telling"} /\ pending \in [Files -> 0 .. 3]
          /\ refreshing \in BOOLEAN /\ cooling \in BOOLEAN
          /\ index \in {"fresh", "old", "left old"}
      BY <1>1, <1>4 DEF Init
    <2>4. left \in 0 .. MaxChanges /\ Len(events) <= MaxQueue /\ Len(lines) <= MaxQueue
      <3>1. left = MaxChanges
        BY DEF Init
      <3> QED
        BY <1>1, <1>5, <3>1
    <2> QED
      BY <1>5, <2>1, <2>2, <2>3, <2>4 DEF TypeOK
  <1>7. Channels
    <2>1. \A r \in Reporters : work[r] = NoWork
      BY DEF Init
    <2> QED
      BY <1>3, <1>5, <2>1 DEF Init, Channels, Reporters
  <1>8. Recreated
    BY <1>1, <1>4, <1>5, Kinds DEF Init, Recreated
  <1>9. Known /\ Refreshed
    BY DEF Init, Known, Refreshed
  <1> QED
    BY <1>6, <1>7, <1>8, <1>9 DEF Inv

\* Whatever a running server does not know of a file, although it asked for it and
\* did not hear the same a moment ago, is on its way to it, in every reachable state.
THEOREM Inductive == Spec => []Inv
  <1>1. Init => Inv
    BY StartsRight
  <1>2. Inv /\ [Next]_vars => Inv'
    <2> SUFFICES ASSUME Inv, [Next]_vars PROVE Inv'
      OBVIOUS
    <2>1. ASSUME NEW f \in Files,
                 Create(f) \/ Write(f) \/ Delete(f) \/ Access(f) \/ Save(f)
                   \/ \E g \in Files : Rename(f, g)
          PROVE  Inv'
      BY <2>1, CreateStep, WriteStep, DeleteStep, AccessStep, SaveStep, RenameStep
    <2>2. ASSUME NEW s \in Servers, Register(s) \/ Unregister(s) \/ ServerDies(s) \/ Fade(s)
          PROVE  Inv'
      BY <2>2, RegisterStep, UnregisterStep, ServerDiesStep, FadeStep
    <2>3. CASE Cooled
      BY <2>3, CooledStep
    <2>4. CASE Watch
      BY <2>4, TakeStep, WindowEndsStep, ToldStep, RefreshStep DEF Watch
    <2>5. CASE TakeLine
      BY <2>5, TakeLineStep
    <2>6. ASSUME NEW r \in Reporters, Report(r) PROVE Inv'
      BY <2>6, FilterStep, ClaimStep, NotifyStep DEF Report
    <2>7. CASE UNCHANGED vars
      <3>1. UNCHANGED <<world, events, lines, servers, tasks, knowledge>>
        BY <2>7 DEF vars
      <3>2. UNCHANGED <<remote, disk, left, live, registered, recent, stale, unasked,
                        doubled, index>>
        BY <3>1 DEF world, servers, knowledge
      <3>3. left' \in 0 .. MaxChanges
        BY <3>2 DEF Inv, TypeOK
      <3> QED
        BY <3>1, <3>2, <3>3, RegistersStep DEF Inv, TypeOK
    <2> QED
      BY <2>1, <2>2, <2>3, <2>4, <2>5, <2>6, <2>7 DEF Next
  <1> QED
    BY <1>1, <1>2, PTL DEF Spec

\* Every variable has its type; in particular the merge of a burst of events says
\* one thing of a file, and what a server registered for dies with it (merge_event,
\* LspClient::start).
THEOREM TypeCorrect == Spec => []TypeOK
  <1>1. Inv => TypeOK
    BY DEF Inv
  <1> QED
    BY <1>1, Inductive, PTL

\* When nothing is under way every running server knows every file as it is now,
\* but for changes it did not ask for and repetitions, and Julia's index is not old:
\* merging, filtering, two reporters at once and the death of another server lose
\* nothing (merge_path, did_change_watched_files, WorkspaceWatcher::start).
THEOREM NothingIsLost == Spec => []KnowsWhenQuiet
  <1>1. Inv => KnowsWhenQuiet
    <2> SUFFICES ASSUME Inv, Quiet PROVE KnowsWhenQuiet
      BY DEF KnowsWhenQuiet
    <2>1. /\ DOMAIN events = {} /\ DOMAIN lines = {}
          /\ \A r \in Reporters : work[r].todo = {} /\ work[r].at = "none"
          /\ pending = Empty
      BY DEF Quiet, Inv, Channels
    <2>2. "none" \notin Servers /\ Manifests \subseteq Files /\ JuliaServers \subseteq Servers
          /\ live \subseteq Servers /\ "watcher" \in Reporters
      BY SetsAgree DEF Inv, TypeOK, Reporters
    <2>3. \A f \in Files : pending[f] = 0
      BY <2>1 DEF Empty
    <2>4. ASSUME NEW s \in live, NEW f \in stale[s]
          PROVE  f \in unasked[s] \union doubled[s]
      <3>1. f \in Files
        BY <2>2 DEF Inv, TypeOK
      <3>2. ~Reported(f) /\ ~Requested(f) /\ ~Collected(f)
        BY <2>1, <2>3, <3>1 DEF Reported, Requested, Collected
      <3>3. \A r \in Reporters : ~Underway(work[r], s, f)
        BY <2>1, <2>2 DEF Underway
      <3>4. ~Coming(s, f)
        BY <3>2, <3>3 DEF Coming
      <3> QED
        BY <3>4 DEF Inv, Known
    <2>5. ASSUME NEW j \in JuliaServers \intersect live PROVE index # "old"
      BY <2>1, <2>2, <2>3 DEF Inv, Refreshed
    <2> QED
      BY <2>4, <2>5 DEF KnowsWhenQuiet
  <1> QED
    BY <1>1, Inductive, PTL
===============================================================================
