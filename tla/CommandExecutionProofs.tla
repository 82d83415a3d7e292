------------------------ MODULE CommandExecutionProofs ------------------------
(***************************************************************************)
(* Proofs about CommandExecution for any number of requests, edits and     *)
(* refreshes.                                                              *)
(***************************************************************************)
EXTENDS CommandExecution, TLAPS

\* The types of the records, named for the SMT solver.
Lines   == [type : {"change", "list", "run"}, id : 0 .. MaxId, gen : 0 .. MaxId,
            tick : 0 .. MaxTick]
Pcs     == {"none", "begin", "ask", "asked", "listed", "pick", "resolve", "resolving",
            "check", "send", "sent", "ran", "done"}
Tasks   == [pc : Pcs, gen : 0 .. MaxId, item : Items]
Replies == [type : {"list", "run", "error"}, id : Ids, on : 0 .. MaxTick]
Answers == [type : {"answer", "refresh"}, id : 0 .. MaxId, epoch : 0 .. MaxRefresh]

\* Where a list task, a picked command and a running one can be.
ListPcs   == {"begin", "ask", "asked", "listed"}
PickedPcs == {"resolve", "resolving", "check", "send"}
RunPcs    == {"pick"} \union PickedPcs

\* Requests reach the daemon in the order of their ids, so a task or the cache
\* is older than whatever is still unread.
Ordered ==
  /\ \A k \in DOMAIN input : input[k].type # "change" =>
        /\ input[k].id \in 1 .. lastId /\ input[k].gen \in Ids
        /\ input[k].type = "list" => input[k].gen = input[k].id
        /\ cache.gen < input[k].id
        /\ \A i \in Ids : tasks[i].pc # "none" => i < input[k].id
        /\ \A m \in DOMAIN input : m < k /\ input[m].type # "change" => input[m].id < input[k].id
  /\ \A i \in Ids : tasks[i].pc # "none" => i <= lastId
  /\ cache.gen <= lastId
  /\ \A p \in DOMAIN output : /\ tasks[output[p].id].pc # "none"
                              /\ output[p].type = "list" => output[p].id <= cache.gen
  /\ asked # None => asked.id <= lastId

\* The editor can still run items of list g, or has asked to.
Given(g) == \/ shown # None /\ shown.gen = g
            \/ \E k \in DOMAIN input : input[k].type = "run" /\ input[k].gen = g
            \/ \E i \in Ids : tasks[i].pc \in RunPcs /\ tasks[i].gen = g

\* A list that was begun, or given to the editor, is not begun again; an item
\* carries the number of its list.
Lists ==
  /\ \A i \in Ids : tasks[i].pc \in ListPcs => tasks[i].gen = i
  /\ \A i \in Ids : tasks[i].pc \in {"ask", "asked", "listed"} => i <= cache.gen
  /\ \A i \in Ids : tasks[i].pc \in {"asked", "listed"} => tasks[i].item.list = i
  /\ \A i \in Ids : tasks[i].pc \in RunPcs => tasks[i].gen # 0
  /\ \A i \in Ids : tasks[i].pc \in PickedPcs => tasks[i].item.list = tasks[i].gen
  /\ cache.items # None => cache.live /\ cache.items.list = cache.gen
  /\ \A g \in Ids : Given(g) => g <= cache.gen

\* The server numbers its refreshes; the dispatcher has read them in order.
Refreshes ==
  /\ refreshes <= retired /\ retired <= epoch
  /\ \A n \in DOMAIN stream :
        /\ stream[n].epoch <= epoch
        /\ stream[n].type = "answer" => /\ stream[n].id \in Ids
                                        /\ tasks[stream[n].id].pc # "none"
                                        /\ stream[n].epoch >= retired
        /\ stream[n].type = "refresh" => stream[n].epoch > retired
        /\ \A m \in DOMAIN stream : m < n =>
              /\ stream[m].epoch <= stream[n].epoch
              /\ stream[n].type = "refresh" => stream[m].epoch < stream[n].epoch

\* What a generation check lets through was computed after the last refresh read.
Fresh ==
  /\ cache.live /\ cache.items # None => cache.items.epoch >= retired
  /\ \A i \in Ids : tasks[i].pc \in {"listed"} \union PickedPcs /\ Matches(tasks[i].gen) =>
        tasks[i].item.epoch >= retired

\* While lenses are awaited or shown, no text change of the editor is behind them.
Quiet ==
  /\ asked # None =>
        /\ timer = FALSE
        /\ \A m \in DOMAIN input : input[m].type = "change" =>
              \E k \in DOMAIN input : k > m /\ input[k].type = "list" /\ input[k].id = asked.id
        /\ loop # Idle => \E k \in DOMAIN input : input[k].type = "list" /\ input[k].id = asked.id
  /\ shown # None => /\ timer = FALSE /\ loop = Idle
                     /\ \A m \in DOMAIN input : input[m].type # "change"
  /\ \A k \in DOMAIN input : input[k].type = "run" =>
        \A m \in DOMAIN input : m < k => input[m].type # "change"
  /\ loop # Idle => /\ \A k \in DOMAIN input : input[k].type # "run"
                    /\ \A i \in Ids : tasks[i].pc \in RunPcs => ~Matches(tasks[i].gen)

\* Lenses that are awaited or can be run are of the text that the server has.
OfTheText ==
  /\ \A g \in Ids : Matches(g) /\ (Given(g) \/ (asked # None /\ asked.id = g)) =>
        /\ cache.items # None => cache.items.snap = doc
        /\ tasks[g].pc \in {"asked", "listed"} => tasks[g].item.snap = doc
  /\ \A i \in Ids : tasks[i].pc \in PickedPcs /\ Matches(tasks[i].gen) =>
        tasks[i].item.snap = doc

\* What holds of lenses alone: code actions carry no text with them.
LensInv == feature = "lens" => Quiet /\ OfTheText

\* The three properties the runs check.
Results == LensOnItsText /\ CommandFromShownReply /\ NoCommandAfterRefresh

\* The inductive invariant.
Inv == Shapes /\ Ordered /\ Lists /\ Refreshes /\ Fresh /\ LensInv /\ Results

-----------------------------------------------------------------------------
(* What the operators that the actions share do.                           *)

\* The bounds are natural numbers.
LEMMA Bounds == /\ MaxId \in Nat /\ MaxTick \in Nat /\ MaxRefresh \in Nat
                /\ Ids = 1 .. MaxId
                /\ 0 \in 0 .. MaxId /\ 0 \in 0 .. MaxTick /\ 0 \in 0 .. MaxRefresh
                /\ \A i \in Ids : i \in 0 .. MaxId
  BY CommandAssumption DEF Ids

\* The types of the variables, one by one.
LEMMA Types ==
  ASSUME Shapes
  PROVE  /\ feature \in Features
         /\ tick \in 0 .. MaxTick /\ sent \in 0 .. MaxTick /\ doc \in 0 .. MaxTick
         /\ lastId \in 0 .. MaxId
         /\ textChanged \in BOOLEAN /\ timer \in BOOLEAN
         /\ asked \in {None} \union [id : Ids, tick : 0 .. MaxTick]
         /\ asked # None => asked.id \in Ids /\ asked.tick \in 0 .. MaxTick
         /\ shown \in {None} \union [gen : Ids, tick : 0 .. MaxTick]
         /\ shown # None => shown.gen \in Ids /\ shown.tick \in 0 .. MaxTick
         /\ running \subseteq [id : Ids, gen : Ids, tick : 0 .. MaxTick]
         /\ applied \in {None} \union [on : 0 .. MaxTick, tick : 0 .. MaxTick]
         /\ input \in Seq(Lines) /\ loop \in {Idle} \union 0 .. MaxTick
         /\ tasks \in [Ids -> Tasks]
         /\ cache \in [gen : 0 .. MaxId, live : BOOLEAN, items : {None} \union Items]
         /\ cache.gen \in 0 .. MaxId /\ cache.live \in BOOLEAN
         /\ cache.items \in {None} \union Items
         /\ refreshes \in 0 .. MaxRefresh /\ epoch \in 0 .. MaxRefresh
         /\ retired \in 0 .. MaxRefresh
         /\ output \in Seq(Replies) /\ stream \in Seq(Answers)
         /\ command \in {None} \union [item : Items, gen : Ids, doc : 0 .. MaxTick,
                                       retired : 0 .. MaxRefresh]
  BY DEF Shapes, Lines, Tasks, Pcs, Replies, Answers

\* The types of the counters and numbers alone.
LEMMA Numbers ==
  ASSUME Shapes
  PROVE  /\ tick \in 0 .. MaxTick /\ doc \in 0 .. MaxTick /\ lastId \in 0 .. MaxId
         /\ cache.gen \in 0 .. MaxId
         /\ asked # None => asked.id \in Ids
         /\ shown # None => shown.gen \in Ids /\ shown.tick \in 0 .. MaxTick
         /\ refreshes \in 0 .. MaxRefresh /\ epoch \in 0 .. MaxRefresh
         /\ retired \in 0 .. MaxRefresh
  BY Types

\* The same the other way round, for the state after a step.
LEMMA Typed ==
  ASSUME feature' \in Features,
         tick' \in 0 .. MaxTick, sent' \in 0 .. MaxTick, doc' \in 0 .. MaxTick,
         lastId' \in 0 .. MaxId, textChanged' \in BOOLEAN, timer' \in BOOLEAN,
         asked' \in {None} \union [id : Ids, tick : 0 .. MaxTick],
         shown' \in {None} \union [gen : Ids, tick : 0 .. MaxTick],
         running' \subseteq [id : Ids, gen : Ids, tick : 0 .. MaxTick],
         applied' \in {None} \union [on : 0 .. MaxTick, tick : 0 .. MaxTick],
         input' \in Seq(Lines), loop' \in {Idle} \union 0 .. MaxTick,
         tasks' \in [Ids -> Tasks],
         cache' \in [gen : 0 .. MaxId, live : BOOLEAN, items : {None} \union Items],
         refreshes' \in 0 .. MaxRefresh, epoch' \in 0 .. MaxRefresh,
         retired' \in 0 .. MaxRefresh,
         output' \in Seq(Replies), stream' \in Seq(Answers),
         command' \in {None} \union [item : Items, gen : Ids, doc : 0 .. MaxTick,
                                    retired : 0 .. MaxRefresh]
  PROVE  Shapes'
  BY DEF Shapes, Lines, Tasks, Pcs, Replies, Answers

\* What a task carries.
LEMMA TaskTypes ==
  ASSUME Shapes, NEW i \in Ids
  PROVE  /\ tasks[i] \in Tasks /\ tasks[i].pc \in Pcs /\ tasks[i].gen \in 0 .. MaxId
         /\ tasks[i].item \in Items
         /\ tasks[i].item.list \in 0 .. MaxId /\ tasks[i].item.snap \in 0 .. MaxTick
         /\ tasks[i].item.epoch \in 0 .. MaxRefresh
  <1>1. tasks[i] \in Tasks
    BY Types
  <1> QED
    BY <1>1 DEF Tasks, Items

\* What the next line carries, and what is left when it is read.
LEMMA Reading ==
  ASSUME Shapes, input # <<>>, input' = Tail(input)
  PROVE  /\ Head(input) = input[1] /\ 1 \in DOMAIN input /\ input' \in Seq(Lines)
         /\ Head(input).type \in {"change", "list", "run"} /\ Head(input).id \in 0 .. MaxId
         /\ Head(input).gen \in 0 .. MaxId /\ Head(input).tick \in 0 .. MaxTick
         /\ \A k \in DOMAIN input : k \in Nat /\ k >= 1
         /\ \A k \in DOMAIN input : k > 1 => k - 1 \in DOMAIN input' /\ input'[k - 1] = input[k]
         /\ \A k \in DOMAIN input' : /\ k \in Nat /\ k + 1 \in DOMAIN input
                                     /\ input'[k] = input[k + 1]
  <1>1. input \in Seq(Lines) /\ input' \in Seq(Lines)
    BY Types
  <1>2. Head(input) = input[1] /\ 1 \in DOMAIN input /\ input[1] \in Lines
    BY <1>1
  <1>3. Len(input) \in Nat /\ Len(input') = Len(input) - 1
        /\ DOMAIN input = 1 .. Len(input) /\ DOMAIN input' = 1 .. Len(input')
    BY <1>1
  <1>4. \A k \in DOMAIN input' : /\ k \in Nat /\ k + 1 \in DOMAIN input
                                 /\ input'[k] = input[k + 1]
    BY <1>1, <1>3
  <1>5. \A k \in DOMAIN input : k > 1 => k - 1 \in DOMAIN input' /\ input'[k - 1] = input[k]
    BY <1>1, <1>3, <1>4
  <1> QED
    BY <1>1, <1>2, <1>3, <1>4, <1>5 DEF Lines

\* A line is written behind the others.
LEMMA Writing ==
  ASSUME Shapes, NEW e \in Lines, input' = Append(input, e)
  PROVE  /\ input' \in Seq(Lines) /\ Len(input) + 1 \in DOMAIN input'
         /\ input'[Len(input) + 1] = e /\ Len(input) \in Nat
         /\ \A k \in DOMAIN input : /\ k \in DOMAIN input' /\ input'[k] = input[k]
                                    /\ k \in Nat /\ k < Len(input) + 1
         /\ \A k \in DOMAIN input' : k \in DOMAIN input \/ k = Len(input) + 1
  <1>1. input \in Seq(Lines)
    BY Types
  <1>2. /\ Len(input) \in Nat /\ DOMAIN input = 1 .. Len(input)
        /\ DOMAIN input' = 1 .. Len(input) + 1 /\ input' \in Seq(Lines)
    BY <1>1
  <1>3. /\ \A k \in 1 .. Len(input) : input'[k] = input[k]
        /\ input'[Len(input) + 1] = e
    BY <1>1
  <1> QED
    BY <1>2, <1>3

\* A reply is said last.
LEMMA Saying ==
  ASSUME Shapes, NEW r \in Replies, output' = Append(output, r)
  PROVE  /\ output' \in Seq(Replies)
         /\ \A p \in DOMAIN output' :
               (p \in DOMAIN output /\ output'[p] = output[p]) \/ output'[p] = r
  <1>1. output \in Seq(Replies)
    BY Types
  <1>2. DOMAIN output = 1 .. Len(output) /\ DOMAIN output' = 1 .. Len(output) + 1
        /\ Len(output) \in Nat
    BY <1>1
  <1>3. output' \in Seq(Replies) /\ \A p \in 1 .. Len(output) : output'[p] = output[p]
    BY <1>1
  <1>4. output'[Len(output) + 1] = r
    BY <1>1
  <1> QED
    BY <1>2, <1>3, <1>4

\* Replies answer requests.
LEMMA Replied ==
  ASSUME Shapes
  PROVE  \A p \in DOMAIN output : output[p].id \in Ids
  <1>1. \A p \in DOMAIN output : output[p] \in Replies
    BY Types
  <1> QED
    BY <1>1 DEF Replies

\* The editor takes the first reply.
LEMMA Taking ==
  ASSUME Shapes, output # <<>>, output' = Tail(output)
  PROVE  /\ output' \in Seq(Replies) /\ 1 \in DOMAIN output /\ output[1] = Head(output)
         /\ Head(output).id \in Ids /\ Head(output).on \in 0 .. MaxTick
         /\ \A p \in DOMAIN output' : p + 1 \in DOMAIN output /\ output'[p] = output[p + 1]
  <1>1. output \in Seq(Replies)
    BY Types
  <1>2. Head(output) \in Replies /\ output' \in Seq(Replies)
        /\ 1 \in DOMAIN output /\ output[1] = Head(output)
    BY <1>1
  <1>3. Len(output') = Len(output) - 1 /\ Len(output) \in Nat
    BY <1>1
  <1>4. \A p \in DOMAIN output' : p + 1 \in DOMAIN output /\ output'[p] = output[p + 1]
    BY <1>1, <1>3
  <1> QED
    BY <1>2, <1>4 DEF Replies

\* What the server writes comes last.
LEMMA Streaming ==
  ASSUME Shapes, NEW a \in Answers, stream' = Append(stream, a)
  PROVE  /\ stream' \in Seq(Answers)
         /\ \A n \in DOMAIN stream : n \in Nat /\ stream[n].epoch \in 0 .. MaxRefresh
         /\ \A n \in DOMAIN stream' :
               \/ /\ n \in DOMAIN stream /\ stream'[n] = stream[n]
                  /\ n \in Nat /\ n < Len(stream) + 1
               \/ n = Len(stream) + 1 /\ stream'[n] = a
         /\ Len(stream) \in Nat
  <1>1. stream \in Seq(Answers)
    BY Types
  <1>2. DOMAIN stream = 1 .. Len(stream) /\ DOMAIN stream' = 1 .. Len(stream) + 1
        /\ Len(stream) \in Nat
    BY <1>1
  <1>3. stream' \in Seq(Answers) /\ \A n \in 1 .. Len(stream) : stream'[n] = stream[n]
    BY <1>1
  <1>4. stream'[Len(stream) + 1] = a
    BY <1>1
  <1>5. \A n \in DOMAIN stream : stream[n] \in Answers
    BY <1>1
  <1>6. \A n \in DOMAIN stream : stream[n].epoch \in 0 .. MaxRefresh
    BY <1>5 DEF Answers
  <1> QED
    BY <1>2, <1>3, <1>4, <1>6

\* The dispatcher reads the first thing on the stream.
LEMMA Dispatching ==
  ASSUME Shapes, stream # <<>>, stream' = Tail(stream)
  PROVE  /\ stream' \in Seq(Answers) /\ 1 \in DOMAIN stream /\ stream[1] = Head(stream)
         /\ Head(stream).epoch \in 0 .. MaxRefresh /\ Head(stream).id \in 0 .. MaxId
         /\ \A n \in DOMAIN stream : stream[n].epoch \in 0 .. MaxRefresh
         /\ \A n \in DOMAIN stream' : /\ n \in Nat /\ 1 < n + 1
                                      /\ n + 1 \in DOMAIN stream /\ stream'[n] = stream[n + 1]
  <1>1. stream \in Seq(Answers)
    BY Types
  <1>2. Head(stream) \in Answers /\ stream' \in Seq(Answers)
        /\ 1 \in DOMAIN stream /\ stream[1] = Head(stream)
    BY <1>1
  <1>3. Len(stream') = Len(stream) - 1 /\ Len(stream) \in Nat
        /\ DOMAIN stream' = 1 .. Len(stream')
    BY <1>1
  <1>4. \A n \in DOMAIN stream' : /\ n \in Nat /\ 1 < n + 1
                                  /\ n + 1 \in DOMAIN stream /\ stream'[n] = stream[n + 1]
    BY <1>1, <1>3
  <1>5. \A n \in DOMAIN stream : stream[n] \in Answers
    BY <1>1
  <1>6. \A n \in DOMAIN stream : stream[n].epoch \in 0 .. MaxRefresh
    BY <1>5 DEF Answers
  <1> QED
    BY <1>2, <1>4, <1>6 DEF Answers

\* The initial states satisfy the invariant.
LEMMA InvInit == Init => Inv
  <1> SUFFICES ASSUME Init PROVE Inv
    OBVIOUS
  <1>1. Shapes
    <2>1. NoTask \in Tasks
      BY Bounds DEF NoTask, NoItem, Tasks, Pcs, Items
    <2>2. tasks \in [Ids -> Tasks]
      BY <2>1 DEF Init
    <2>3. cache \in [gen : 0 .. MaxId, live : BOOLEAN, items : {None} \union Items]
      BY Bounds DEF Init
    <2>4. input \in Seq(Lines) /\ output \in Seq(Replies) /\ stream \in Seq(Answers)
      BY DEF Init
    <2> QED
      BY <2>2, <2>3, <2>4, Bounds
         DEF Init, Shapes, Lines, Tasks, Pcs, Replies, Answers
  <1>2. Ordered /\ Lists /\ Fresh
    BY CommandAssumption
       DEF Init, Ordered, Lists, Fresh, NoTask, NoItem, Given, ListPcs,
          PickedPcs, RunPcs, Ids
  <1>3. Refreshes
    BY DEF Init, Refreshes
  <1>4. LensInv
    <2>1. \A i \in Ids : tasks[i].pc = "none"
      BY DEF Init, NoTask
    <2> QED
      BY <2>1 DEF Init, LensInv, Quiet, OfTheText, Matches, RunPcs, PickedPcs
  <1>5. Results
    BY DEF Init, Results, LensOnItsText, CommandFromShownReply,
       NoCommandAfterRefresh
  <1> QED
    BY <1>1, <1>2, <1>3, <1>4, <1>5 DEF Inv

-----------------------------------------------------------------------------
\* A step of the specification preserves the invariant.
LEMMA InvStep == Inv /\ [Next]_vars => Inv'
  <1> SUFFICES ASSUME Inv, [Next]_vars PROVE Inv'
    OBVIOUS
  <1>0. Shapes /\ Ordered /\ Lists /\ Refreshes /\ Fresh /\ LensInv /\ Results
    BY DEF Inv
  <1>f. feature' = feature
    BY DEF Next, vars
  <1>1. CASE Edit
    <2>1. /\ tick' \in 0 .. MaxTick /\ textChanged' \in BOOLEAN
          /\ UNCHANGED <<timer, sent, lastId, asked, shown, running, applied, input,
                         loop, tasks, cache, refreshes, output, doc, epoch, stream,
                         retired, command>>
      <3>1. tick < MaxTick /\ tick' = tick + 1
        BY <1>1 DEF Edit
      <3>2. tick' \in 0 .. MaxTick
        BY <1>0, <3>1, Numbers, Bounds
      <3> QED
        BY <1>1, <3>2 DEF Edit, daemonVars, serverVars
    <2>2. \A g \in Ids : Given(g)' => Given(g)
      BY <1>f, <2>1 DEF Given, RunPcs, PickedPcs
    <2>3. Shapes'
      BY <1>0, <1>f, <2>1, Types, Typed
    <2>4. Ordered'
      <3>1. \A k \in DOMAIN input' : input'[k].type # "change" =>
             /\ input'[k].id \in 1 .. lastId' /\ input'[k].gen \in Ids
             /\ input'[k].type = "list" => input'[k].gen = input'[k].id
             /\ cache'.gen < input'[k].id
        BY <1>0, <1>f, <2>1, Bounds DEF Ordered
      <3>2. \A k \in DOMAIN input' : input'[k].type # "change" =>
             \A j \in Ids : tasks'[j].pc # "none" => j < input'[k].id
        BY <1>0, <1>f, <2>1, Bounds DEF Ordered
      <3>3. \A k, m \in DOMAIN input' :
             input'[k].type # "change" /\ m < k /\ input'[m].type # "change" =>
                input'[m].id < input'[k].id
        BY <1>0, <1>f, <2>1, Bounds DEF Ordered
      <3>4. /\ \A j \in Ids : tasks'[j].pc # "none" => j <= lastId'
            /\ cache'.gen <= lastId'
            /\ asked' # None => asked'.id <= lastId'
        BY <1>0, <1>f, <2>1, Bounds DEF Ordered
      <3>5. \A p \in DOMAIN output' :
             /\ tasks'[output'[p].id].pc # "none"
             /\ output'[p].type = "list" => output'[p].id <= cache'.gen
        BY <1>0, <1>f, <2>1, Bounds DEF Ordered
      <3> QED
        BY <3>1, <3>2, <3>3, <3>4, <3>5 DEF Ordered
    <2>5. Lists'
      BY <1>0, <1>f, <2>1, <2>2, Types, Bounds DEF Lists, ListPcs, PickedPcs, RunPcs
    <2>6. Refreshes'
      BY <1>0, <1>f, <2>1, Numbers DEF Refreshes
    <2>7. Fresh'
      BY <1>0, <1>f, <2>1, Types, Bounds
         DEF Fresh, Matches, ListPcs, PickedPcs, RunPcs
    <2>8. LensInv'
      <3> SUFFICES ASSUME feature = "lens" PROVE Quiet' /\ OfTheText'
        BY <1>f DEF LensInv
      <3>1. Quiet /\ OfTheText
        BY <1>0 DEF LensInv
      <3>2. Quiet'
        <4>1. asked' # None =>
               /\ timer' = FALSE
               /\ \A m \in DOMAIN input' : input'[m].type = "change" =>
                     \E k \in DOMAIN input' :
                        k > m /\ input'[k].type = "list" /\ input'[k].id = asked'.id
               /\ loop' # Idle => \E k \in DOMAIN input' :
                                    input'[k].type = "list" /\ input'[k].id = asked'.id
          BY <1>0, <1>f, <2>1, <3>1 DEF Quiet, Matches, PickedPcs, RunPcs
        <4>2. shown' # None => /\ timer' = FALSE /\ loop' = Idle
                                /\ \A m \in DOMAIN input' : input'[m].type # "change"
          BY <1>0, <1>f, <2>1, <3>1 DEF Quiet, Matches, PickedPcs, RunPcs
        <4>3. \A k \in DOMAIN input' : input'[k].type = "run" =>
               \A m \in DOMAIN input' : m < k => input'[m].type # "change"
          BY <1>0, <1>f, <2>1, <3>1 DEF Quiet, Matches, PickedPcs, RunPcs
        <4>4. loop' # Idle => \A k \in DOMAIN input' : input'[k].type # "run"
          BY <1>0, <1>f, <2>1, <3>1 DEF Quiet, Matches, PickedPcs, RunPcs
        <4>5. loop' # Idle =>
               \A j \in Ids : tasks'[j].pc \in RunPcs => ~Matches(tasks[j].gen)'
          BY <1>0, <1>f, <2>1, <3>1 DEF Quiet, Matches, PickedPcs, RunPcs
        <4> QED
          BY <4>1, <4>2, <4>3, <4>4, <4>5 DEF Quiet
      <3>3. OfTheText'
        BY <1>0, <1>f, <2>1, <2>2, <3>1, Types, Bounds
           DEF OfTheText, Matches, PickedPcs, RunPcs
      <3> QED
        BY <3>2, <3>3
    <2>9. Results'
      BY <1>0, <1>f, <2>1
         DEF Results, LensOnItsText, CommandFromShownReply, NoCommandAfterRefresh
    <2> QED
      BY <2>3, <2>4, <2>5, <2>6, <2>7, <2>8, <2>9 DEF Inv
  <1>2. CASE OnTextChanged
    <2>1. /\ feature = "lens" => asked' = None /\ shown' = None
          /\ feature # "lens" => UNCHANGED <<asked, shown>>
          /\ running' \in {{}, running} /\ textChanged' \in BOOLEAN /\ timer' \in BOOLEAN
          /\ sent' \in {sent, tick}
          /\ UNCHANGED <<tick, lastId, applied, loop, tasks, cache, refreshes,
                         output, doc, epoch, stream, retired, command>>
      BY <1>2, Types DEF OnTextChanged, serverVars
    <2>2. /\ input' \in Seq(Lines)
          /\ \A k \in DOMAIN input' :
                \/ k \in DOMAIN input /\ input'[k] = input[k]
                \/ input'[k].type = "change" /\ \A m \in DOMAIN input : m < k
          /\ \A k \in DOMAIN input' : k \in Nat
      <3>1. input \in Seq(Lines) /\ (\A k \in DOMAIN input : k \in Nat)
        BY <1>0, Types
      <3>2. CASE input' = input
        BY <3>1, <3>2
      <3>3. CASE input' = Append(input, Change(tick))
        <4>1. Change(tick) \in Lines /\ Change(tick).type = "change"
          BY <1>0, Types, Bounds DEF Change, Lines
        <4> QED
          BY <1>0, <3>3, <4>1, Writing
      <3> QED
        BY <1>2, <3>2, <3>3 DEF OnTextChanged
    <2>3. \A g \in Ids : Given(g)' => Given(g)
      BY <1>f, <2>1, <2>2 DEF Given, RunPcs, PickedPcs
    <2>4. Shapes'
      BY <1>0, <1>f, <2>1, <2>2, Types, Typed
    <2>5. Ordered'
      <3>1. \A k \in DOMAIN input' : input'[k].type # "change" =>
             /\ input'[k].id \in 1 .. lastId' /\ input'[k].gen \in Ids
             /\ input'[k].type = "list" => input'[k].gen = input'[k].id
             /\ cache'.gen < input'[k].id
        BY <1>0, <1>f, <2>1, <2>2, Bounds DEF Ordered
      <3>2. \A k \in DOMAIN input' : input'[k].type # "change" =>
             \A j \in Ids : tasks'[j].pc # "none" => j < input'[k].id
        BY <1>0, <1>f, <2>1, <2>2, Bounds DEF Ordered
      <3>3. \A k, m \in DOMAIN input' :
             input'[k].type # "change" /\ m < k /\ input'[m].type # "change" =>
                input'[m].id < input'[k].id
        BY <1>0, <1>f, <2>1, <2>2, Bounds DEF Ordered
      <3>4. /\ \A j \in Ids : tasks'[j].pc # "none" => j <= lastId'
            /\ cache'.gen <= lastId'
            /\ asked' # None => asked'.id <= lastId'
        BY <1>0, <1>f, <2>1, <2>2, Bounds DEF Ordered
      <3>5. \A p \in DOMAIN output' :
             /\ tasks'[output'[p].id].pc # "none"
             /\ output'[p].type = "list" => output'[p].id <= cache'.gen
        BY <1>0, <1>f, <2>1, <2>2, Bounds DEF Ordered
      <3> QED
        BY <3>1, <3>2, <3>3, <3>4, <3>5 DEF Ordered
    <2>6. Lists'
      BY <1>0, <1>f, <2>1, <2>2, <2>3, Types, Bounds
         DEF Lists, ListPcs, PickedPcs, RunPcs
    <2>7. Refreshes'
      BY <1>0, <1>f, <2>1, <2>2, Numbers DEF Refreshes
    <2>8. Fresh'
      BY <1>0, <1>f, <2>1, <2>2, Types, Bounds
         DEF Fresh, Matches, ListPcs, PickedPcs, RunPcs
    <2>9. LensInv'
      <3> SUFFICES ASSUME feature = "lens" PROVE Quiet' /\ OfTheText'
        BY <1>f DEF LensInv
      <3>1. Quiet /\ OfTheText
        BY <1>0 DEF LensInv
      <3>2. Quiet'
        <4>1. asked' # None =>
               /\ timer' = FALSE
               /\ \A m \in DOMAIN input' : input'[m].type = "change" =>
                     \E k \in DOMAIN input' :
                        k > m /\ input'[k].type = "list" /\ input'[k].id = asked'.id
               /\ loop' # Idle => \E k \in DOMAIN input' :
                                    input'[k].type = "list" /\ input'[k].id = asked'.id
          BY <1>0, <1>f, <2>1, <2>2, <3>1
             DEF Quiet, Matches, PickedPcs, RunPcs
        <4>2. shown' # None => /\ timer' = FALSE /\ loop' = Idle
                                /\ \A m \in DOMAIN input' : input'[m].type # "change"
          BY <1>0, <1>f, <2>1, <2>2, <3>1
             DEF Quiet, Matches, PickedPcs, RunPcs
        <4>3. \A k \in DOMAIN input' : input'[k].type = "run" =>
               \A m \in DOMAIN input' : m < k => input'[m].type # "change"
          BY <1>0, <1>f, <2>1, <2>2, <3>1
             DEF Quiet, Matches, PickedPcs, RunPcs
        <4>4. loop' # Idle => \A k \in DOMAIN input' : input'[k].type # "run"
          BY <1>0, <1>f, <2>1, <2>2, <3>1
             DEF Quiet, Matches, PickedPcs, RunPcs
        <4>5. loop' # Idle =>
               \A j \in Ids : tasks'[j].pc \in RunPcs => ~Matches(tasks[j].gen)'
          BY <1>0, <1>f, <2>1, <2>2, <3>1
             DEF Quiet, Matches, PickedPcs, RunPcs
        <4> QED
          BY <4>1, <4>2, <4>3, <4>4, <4>5 DEF Quiet
      <3>3. OfTheText'
        BY <1>0, <1>f, <2>1, <2>2, <2>3, <3>1, Types, Bounds
           DEF OfTheText, Matches, PickedPcs, RunPcs
      <3> QED
        BY <3>2, <3>3
    <2>10. Results'
      BY <1>0, <1>f, <2>1, <2>2
         DEF Results, LensOnItsText, CommandFromShownReply, NoCommandAfterRefresh
    <2> QED
      BY <2>4, <2>5, <2>6, <2>7, <2>8, <2>9, <2>10 DEF Inv
  <1>3. CASE TimerFires
    <2>1. /\ timer = TRUE /\ timer' = FALSE /\ sent' = tick
          /\ UNCHANGED <<tick, textChanged, lastId, asked, shown, running, applied,
                         loop, tasks, cache, refreshes, output, doc, epoch, stream,
                         retired, command>>
      BY <1>0, <1>3, Types DEF TimerFires, serverVars
    <2>2. /\ input' \in Seq(Lines)
          /\ \A k \in DOMAIN input' :
                \/ k \in DOMAIN input /\ input'[k] = input[k]
                \/ input'[k].type = "change" /\ \A m \in DOMAIN input : m < k
          /\ \A k \in DOMAIN input' : k \in Nat
      <3>1. Change(tick) \in Lines /\ Change(tick).type = "change"
        BY <1>0, Types, Bounds DEF Change, Lines
      <3> QED
        BY <1>0, <1>3, <3>1, Writing DEF TimerFires
    <2>3. \A g \in Ids : Given(g)' => Given(g)
      BY <1>f, <2>1, <2>2 DEF Given, RunPcs, PickedPcs
    <2>4. Shapes'
      BY <1>0, <1>f, <2>1, <2>2, Types, Typed
    <2>5. Ordered'
      <3>1. \A k \in DOMAIN input' : input'[k].type # "change" =>
             /\ input'[k].id \in 1 .. lastId' /\ input'[k].gen \in Ids
             /\ input'[k].type = "list" => input'[k].gen = input'[k].id
             /\ cache'.gen < input'[k].id
        BY <1>0, <1>f, <2>1, <2>2, Bounds DEF Ordered
      <3>2. \A k \in DOMAIN input' : input'[k].type # "change" =>
             \A j \in Ids : tasks'[j].pc # "none" => j < input'[k].id
        BY <1>0, <1>f, <2>1, <2>2, Bounds DEF Ordered
      <3>3. \A k, m \in DOMAIN input' :
             input'[k].type # "change" /\ m < k /\ input'[m].type # "change" =>
                input'[m].id < input'[k].id
        BY <1>0, <1>f, <2>1, <2>2, Bounds DEF Ordered
      <3>4. /\ \A j \in Ids : tasks'[j].pc # "none" => j <= lastId'
            /\ cache'.gen <= lastId'
            /\ asked' # None => asked'.id <= lastId'
        BY <1>0, <1>f, <2>1, <2>2, Bounds DEF Ordered
      <3>5. \A p \in DOMAIN output' :
             /\ tasks'[output'[p].id].pc # "none"
             /\ output'[p].type = "list" => output'[p].id <= cache'.gen
        BY <1>0, <1>f, <2>1, <2>2, Bounds DEF Ordered
      <3> QED
        BY <3>1, <3>2, <3>3, <3>4, <3>5 DEF Ordered
    <2>6. Lists'
      BY <1>0, <1>f, <2>1, <2>2, <2>3, Types, Bounds
         DEF Lists, ListPcs, PickedPcs, RunPcs
    <2>7. Refreshes'
      BY <1>0, <1>f, <2>1, <2>2, Numbers DEF Refreshes
    <2>8. Fresh'
      BY <1>0, <1>f, <2>1, <2>2, Types, Bounds
         DEF Fresh, Matches, ListPcs, PickedPcs, RunPcs
    <2>9. LensInv'
      <3> SUFFICES ASSUME feature = "lens" PROVE Quiet' /\ OfTheText'
        BY <1>f DEF LensInv
      <3>1. Quiet /\ OfTheText
        BY <1>0 DEF LensInv
      <3>2. Quiet'
        <4>1. asked' # None =>
               /\ timer' = FALSE
               /\ \A m \in DOMAIN input' : input'[m].type = "change" =>
                     \E k \in DOMAIN input' :
                        k > m /\ input'[k].type = "list" /\ input'[k].id = asked'.id
               /\ loop' # Idle => \E k \in DOMAIN input' :
                                    input'[k].type = "list" /\ input'[k].id = asked'.id
          BY <1>0, <1>f, <2>1, <2>2, <3>1
             DEF Quiet, Matches, PickedPcs, RunPcs
        <4>2. shown' # None => /\ timer' = FALSE /\ loop' = Idle
                                /\ \A m \in DOMAIN input' : input'[m].type # "change"
          BY <1>0, <1>f, <2>1, <2>2, <3>1
             DEF Quiet, Matches, PickedPcs, RunPcs
        <4>3. \A k \in DOMAIN input' : input'[k].type = "run" =>
               \A m \in DOMAIN input' : m < k => input'[m].type # "change"
          BY <1>0, <1>f, <2>1, <2>2, <3>1
             DEF Quiet, Matches, PickedPcs, RunPcs
        <4>4. loop' # Idle => \A k \in DOMAIN input' : input'[k].type # "run"
          BY <1>0, <1>f, <2>1, <2>2, <3>1
             DEF Quiet, Matches, PickedPcs, RunPcs
        <4>5. loop' # Idle =>
               \A j \in Ids : tasks'[j].pc \in RunPcs => ~Matches(tasks[j].gen)'
          BY <1>0, <1>f, <2>1, <2>2, <3>1
             DEF Quiet, Matches, PickedPcs, RunPcs
        <4> QED
          BY <4>1, <4>2, <4>3, <4>4, <4>5 DEF Quiet
      <3>3. OfTheText'
        BY <1>0, <1>f, <2>1, <2>2, <2>3, <3>1, Types, Bounds
           DEF OfTheText, Matches, PickedPcs, RunPcs
      <3> QED
        BY <3>2, <3>3
    <2>10. Results'
      BY <1>0, <1>f, <2>1, <2>2
         DEF Results, LensOnItsText, CommandFromShownReply, NoCommandAfterRefresh
    <2> QED
      BY <2>4, <2>5, <2>6, <2>7, <2>8, <2>9, <2>10 DEF Inv
  <1>4. CASE AskForList
    <2>1. /\ lastId < MaxId /\ lastId' = lastId + 1 /\ lastId' \in Ids /\ lastId' \in 0 .. MaxId
          /\ lastId \in Nat /\ cache.gen \in Nat
          /\ asked' = [id |-> lastId', tick |-> tick] /\ shown' = None
          /\ running' \in {{}, running} /\ sent' \in {sent, tick}
          /\ timer' \in {FALSE, timer} /\ (feature = "lens" => timer' = FALSE)
          /\ UNCHANGED <<tick, textChanged, applied, loop, tasks, cache, refreshes,
                         output, doc, epoch, stream, retired, command>>
      <3>1. lastId < MaxId /\ lastId' = lastId + 1 /\ lastId' \in Ids /\ lastId' \in 0 .. MaxId
            /\ lastId \in Nat /\ cache.gen \in Nat
        <4>1. lastId < MaxId /\ lastId' = lastId + 1
          BY <1>4 DEF AskForList
        <4>2. lastId \in Nat /\ cache.gen \in Nat
          BY <1>0, Numbers, Bounds
        <4> QED
          BY <4>1, <4>2, Bounds
      <3>2. /\ asked' = [id |-> lastId', tick |-> tick] /\ shown' = None
            /\ running' \in {{}, running} /\ sent' \in {sent, tick}
            /\ UNCHANGED <<tick, textChanged, applied, loop, tasks, cache,
                           refreshes, output, doc, epoch, stream, retired, command>>
        BY <1>4 DEF AskForList, serverVars
      <3>3. SyncFirst => timer' = FALSE
        BY <1>4 DEF AskForList
      <3>4. ~SyncFirst => timer' = timer /\ (feature = "lens" => timer = FALSE)
        BY <1>0, <1>4, Types DEF AskForList, SyncFirst
      <3> QED
        BY <3>1, <3>2, <3>3, <3>4
    <2>2. /\ asked'.id = lastId + 1 /\ asked' # None
          /\ asked' \in {None} \union [id : Ids, tick : 0 .. MaxTick]
      BY <1>0, <2>1, Types DEF None
    <2>3. /\ input' \in Seq(Lines) /\ (\A k \in DOMAIN input' : k \in Nat)
          /\ \A k \in DOMAIN input : k \in DOMAIN input' /\ input'[k] = input[k]
          /\ Len(input') \in DOMAIN input' /\ (\A k \in DOMAIN input' : k <= Len(input'))
          /\ input'[Len(input')].type = "list" /\ input'[Len(input')].id = lastId + 1
          /\ input'[Len(input')].gen = lastId + 1
          /\ \A k \in DOMAIN input' :
                \/ k \in DOMAIN input /\ input'[k] = input[k] /\ k < Len(input')
                \/ k = Len(input')
                \/ /\ input'[k].type = "change" /\ k < Len(input')
                   /\ \A m \in DOMAIN input : m < k
      <3> DEFINE list == [type |-> "list", id |-> lastId', gen |-> lastId', tick |-> tick]
      <3>1. list \in Lines /\ Change(tick) \in Lines /\ Change(tick).type = "change"
        BY <1>0, <2>1, Types, Bounds DEF Change, Lines
      <3>2. list.type = "list" /\ list.id = lastId + 1 /\ list.gen = lastId + 1
        BY <2>1
      <3>3. input' = input \o <<Change(tick), list>> \/ input' = Append(input, list)
        BY <1>4 DEF AskForList
      <3>4. input \in Seq(Lines) /\ Len(input) \in Nat /\ DOMAIN input = 1 .. Len(input)
        BY <1>0, Types
      <3> HIDE DEF list
      <3>5. CASE input' = Append(input, list)
        <4>1. /\ Len(input') = Len(input) + 1 /\ input' \in Seq(Lines)
              /\ DOMAIN input' = 1 .. Len(input) + 1
          BY <3>1, <3>4, <3>5
        <4>2. /\ \A k \in 1 .. Len(input) : input'[k] = input[k]
              /\ input'[Len(input) + 1] = list
          BY <3>1, <3>4, <3>5
        <4> QED
          BY <3>2, <3>4, <4>1, <4>2
      <3>6. CASE input' = input \o <<Change(tick), list>>
        <4>1. <<Change(tick), list>> \in Seq(Lines) /\ Len(<<Change(tick), list>>) = 2
          BY <3>1
        <4>2. /\ Len(input') = Len(input) + 2 /\ input' \in Seq(Lines)
              /\ DOMAIN input' = 1 .. Len(input) + 2
          BY <3>4, <3>6, <4>1
        <4>3. /\ \A k \in 1 .. Len(input) : input'[k] = input[k]
              /\ input'[Len(input) + 1] = Change(tick)
              /\ input'[Len(input) + 2] = list
          BY <3>4, <3>6, <4>1
        <4> QED
          BY <3>1, <3>2, <3>4, <4>2, <4>3
      <3> QED
        BY <3>3, <3>5, <3>6
    <2>4. \A g \in Ids : Given(g)' => Given(g)
      BY <1>f, <2>1, <2>2, <2>3 DEF Given, RunPcs, PickedPcs
    <2>5. Shapes'
      <3>1. input' \in Seq(Lines)
        BY <2>3
      <3>2. asked' \in {None} \union [id : Ids, tick : 0 .. MaxTick]
        BY <1>0, <2>1, Numbers
      <3>3. /\ tick' \in 0 .. MaxTick /\ sent' \in 0 .. MaxTick /\ timer' \in BOOLEAN
            /\ running' \subseteq [id : Ids, gen : Ids, tick : 0 .. MaxTick]
        BY <1>0, <2>1, Types
      <3> QED
        BY <1>0, <1>f, <2>1, <3>1, <3>2, <3>3, Types, Typed
    <2>6. Ordered'
      <3>1. \A k \in DOMAIN input' : input'[k].type # "change" =>
             /\ input'[k].id \in 1 .. lastId' /\ input'[k].gen \in Ids
             /\ input'[k].type = "list" => input'[k].gen = input'[k].id
             /\ cache'.gen < input'[k].id
        BY <1>0, <1>f, <2>1, <2>2, <2>3, Bounds DEF Ordered
      <3>2. \A k \in DOMAIN input' : input'[k].type # "change" =>
             \A j \in Ids : tasks'[j].pc # "none" => j < input'[k].id
        BY <1>0, <1>f, <2>1, <2>2, <2>3, Bounds DEF Ordered
      <3>3. \A k, m \in DOMAIN input' :
             input'[k].type # "change" /\ m < k /\ input'[m].type # "change" =>
                input'[m].id < input'[k].id
        BY <1>0, <1>f, <2>1, <2>2, <2>3, Bounds DEF Ordered
      <3>4. /\ \A j \in Ids : tasks'[j].pc # "none" => j <= lastId'
            /\ cache'.gen <= lastId'
            /\ asked' # None => asked'.id <= lastId'
        BY <1>0, <1>f, <2>1, <2>2, <2>3, Bounds DEF Ordered
      <3>5. \A p \in DOMAIN output' :
             /\ tasks'[output'[p].id].pc # "none"
             /\ output'[p].type = "list" => output'[p].id <= cache'.gen
        BY <1>0, <1>f, <2>1, <2>2, <2>3, Bounds DEF Ordered
      <3> QED
        BY <3>1, <3>2, <3>3, <3>4, <3>5 DEF Ordered
    <2>7. Lists'
      BY <1>0, <1>f, <2>1, <2>2, <2>3, <2>4, Types, Bounds
         DEF Lists, ListPcs, PickedPcs, RunPcs
    <2>8. Refreshes'
      BY <1>0, <1>f, <2>1, <2>2, <2>3, Numbers DEF Refreshes
    <2>9. Fresh'
      BY <1>0, <1>f, <2>1, <2>2, <2>3, Types, Bounds
         DEF Fresh, Matches, ListPcs, PickedPcs, RunPcs
    <2>10. LensInv'
      <3> SUFFICES ASSUME feature = "lens" PROVE Quiet' /\ OfTheText'
        BY <1>f DEF LensInv
      <3>1. Quiet /\ OfTheText
        BY <1>0 DEF LensInv
      <3>4. ~Matches(lastId + 1) /\ Idle # 0
        BY <1>0, <2>1 DEF Ordered, Matches, Idle
      <3>2. Quiet'
        <4>1. asked' # None =>
               /\ timer' = FALSE
               /\ \A m \in DOMAIN input' : input'[m].type = "change" =>
                     \E k \in DOMAIN input' :
                        k > m /\ input'[k].type = "list" /\ input'[k].id = asked'.id
               /\ loop' # Idle => \E k \in DOMAIN input' :
                                    input'[k].type = "list" /\ input'[k].id = asked'.id
          BY <1>0, <1>f, <2>1, <2>2, <2>3, <3>1
             DEF Quiet, Matches, PickedPcs, RunPcs
        <4>2. shown' # None => /\ timer' = FALSE /\ loop' = Idle
                                /\ \A m \in DOMAIN input' : input'[m].type # "change"
          BY <1>0, <1>f, <2>1, <2>2, <2>3, <3>1
             DEF Quiet, Matches, PickedPcs, RunPcs
        <4>3. \A k \in DOMAIN input' : input'[k].type = "run" =>
               \A m \in DOMAIN input' : m < k => input'[m].type # "change"
          BY <1>0, <1>f, <2>1, <2>2, <2>3, <3>1
             DEF Quiet, Matches, PickedPcs, RunPcs
        <4>4. loop' # Idle => \A k \in DOMAIN input' : input'[k].type # "run"
          BY <1>0, <1>f, <2>1, <2>2, <2>3, <3>1
             DEF Quiet, Matches, PickedPcs, RunPcs
        <4>5. loop' # Idle =>
               \A j \in Ids : tasks'[j].pc \in RunPcs => ~Matches(tasks[j].gen)'
          BY <1>0, <1>f, <2>1, <2>2, <2>3, <3>1
             DEF Quiet, Matches, PickedPcs, RunPcs
        <4> QED
          BY <4>1, <4>2, <4>3, <4>4, <4>5 DEF Quiet
      <3>3. OfTheText'
        BY <1>0, <1>f, <2>1, <2>2, <2>3, <2>4, <3>1, <3>4, Types, Bounds
           DEF OfTheText, Matches, PickedPcs, RunPcs
      <3> QED
        BY <3>2, <3>3
    <2>11. Results'
      BY <1>0, <1>f, <2>1, <2>2, <2>3
         DEF Results, LensOnItsText, CommandFromShownReply, NoCommandAfterRefresh
    <2> QED
      BY <2>5, <2>6, <2>7, <2>8, <2>9, <2>10, <2>11 DEF Inv
  <1>5. CASE RunItem
    <2>1. /\ lastId < MaxId /\ lastId' = lastId + 1 /\ lastId' \in Ids /\ lastId' \in 0 .. MaxId
          /\ lastId \in Nat /\ cache.gen \in Nat
          /\ shown.gen \in Ids /\ (asked # None => asked.id \in Nat)
          /\ shown # None /\ shown' \in {None, shown}
          /\ running' \subseteq [id : Ids, gen : Ids, tick : 0 .. MaxTick]
          /\ UNCHANGED <<tick, textChanged, timer, sent, asked, applied, loop,
                         tasks, cache, refreshes, output, doc, epoch, stream,
                         retired, command>>
      <3>1. lastId < MaxId /\ lastId' = lastId + 1 /\ lastId' \in Ids /\ lastId' \in 0 .. MaxId
            /\ lastId \in Nat /\ cache.gen \in Nat
            /\ shown.gen \in Ids /\ (asked # None => asked.id \in Nat)
        <4>1. lastId < MaxId /\ lastId' = lastId + 1 /\ shown # None
          BY <1>5 DEF RunItem
        <4>2. asked # None => asked.id \in Nat
          BY <1>0, Numbers, Bounds
        <4>3. lastId \in Nat /\ cache.gen \in Nat /\ shown.gen \in Ids
          BY <1>0, <4>1, Numbers, Bounds
        <4>4. lastId' \in Ids /\ lastId' \in 0 .. MaxId
          BY <4>1, <4>3, Bounds
        <4> QED
          BY <4>1, <4>2, <4>3, <4>4
      <3>2. [id |-> lastId', gen |-> shown.gen, tick |-> shown.tick]
              \in [id : Ids, gen : Ids, tick : 0 .. MaxTick]
        BY <1>0, <1>5, <3>1, Types DEF RunItem
      <3> QED
        BY <1>0, <1>5, <3>1, <3>2, Types DEF RunItem, serverVars
    <2>2. /\ input' \in Seq(Lines) /\ (\A k \in DOMAIN input' : k \in Nat)
          /\ \A k \in DOMAIN input' :
                \/ k \in DOMAIN input /\ input'[k] = input[k]
                \/ /\ input'[k].type = "run" /\ input'[k].id = lastId + 1
                   /\ input'[k].gen = shown.gen /\ k = Len(input) + 1
          /\ \A m \in DOMAIN input : m < Len(input) + 1
          /\ \A k \in DOMAIN input : k \in DOMAIN input' /\ input'[k] = input[k]
      <3> DEFINE run == [type |-> "run", id |-> lastId', gen |-> shown.gen, tick |-> tick]
      <3>1. run \in Lines
        BY <1>0, <2>1, Types, Bounds DEF Lines
      <3>2. run.type = "run" /\ run.id = lastId + 1 /\ run.gen = shown.gen
        BY <2>1
      <3>3. input' = Append(input, run)
        BY <1>5 DEF RunItem
      <3> HIDE DEF run
      <3> QED
        BY <1>0, <3>1, <3>2, <3>3, Writing
    <2>3. \A g \in Ids : Given(g)' => Given(g)
      BY <1>f, <2>1, <2>2 DEF Given, RunPcs, PickedPcs
    <2>4. Shapes'
      BY <1>0, <1>f, <2>1, <2>2, Types, Typed
    <2>5. Ordered'
      <3>1. \A k \in DOMAIN input' : input'[k].type # "change" =>
             /\ input'[k].id \in 1 .. lastId' /\ input'[k].gen \in Ids
             /\ input'[k].type = "list" => input'[k].gen = input'[k].id
             /\ cache'.gen < input'[k].id
        <4> SUFFICES ASSUME NEW k \in DOMAIN input', input'[k].type # "change"
                     PROVE  /\ input'[k].id \in 1 .. lastId' /\ input'[k].gen \in Ids
                            /\ input'[k].type = "list" => input'[k].gen = input'[k].id
                            /\ cache'.gen < input'[k].id
          OBVIOUS
        <4>1. CASE k \in DOMAIN input /\ input'[k] = input[k]
          <5>1. /\ input[k].id \in 1 .. lastId /\ input[k].gen \in Ids
                /\ input[k].type = "list" => input[k].gen = input[k].id
                /\ cache.gen < input[k].id
            BY <1>0, <4>1 DEF Ordered
          <5> QED
            BY <2>1, <4>1, <5>1
        <4>2. CASE input'[k].type = "run" /\ input'[k].id = lastId + 1 /\ input'[k].gen = shown.gen
          <5>1. cache.gen <= lastId
            BY <1>0 DEF Ordered
          <5> QED
            BY <2>1, <4>2, <5>1
        <4> QED
          BY <2>2, <4>1, <4>2
      <3>2. \A k \in DOMAIN input' : input'[k].type # "change" =>
             \A j \in Ids : tasks'[j].pc # "none" => j < input'[k].id
        <4>1. \A i \in Ids : tasks[i].pc # "none" => i < lastId + 1
          BY <1>0, <2>1, Bounds DEF Ordered
        <4> QED
          BY <1>0, <2>1, <2>2, <4>1 DEF Ordered
      <3>3. \A k, m \in DOMAIN input' :
             input'[k].type # "change" /\ m < k /\ input'[m].type # "change" =>
                input'[m].id < input'[k].id
        <4>1. \A m \in DOMAIN input : input[m].type # "change" => input[m].id < lastId + 1
          BY <1>0, <2>1 DEF Ordered
        <4> QED
          BY <1>0, <2>2, <4>1 DEF Ordered
      <3>4. /\ \A j \in Ids : tasks'[j].pc # "none" => j <= lastId'
            /\ cache'.gen <= lastId'
            /\ asked' # None => asked'.id <= lastId'
        BY <1>0, <1>f, <2>1, <2>2, Bounds DEF Ordered
      <3>5. \A p \in DOMAIN output' :
             /\ tasks'[output'[p].id].pc # "none"
             /\ output'[p].type = "list" => output'[p].id <= cache'.gen
        BY <1>0, <1>f, <2>1, <2>2, Bounds DEF Ordered
      <3> QED
        BY <3>1, <3>2, <3>3, <3>4, <3>5 DEF Ordered
    <2>6. Lists'
      BY <1>0, <1>f, <2>1, <2>2, <2>3, Types, Bounds
         DEF Lists, ListPcs, PickedPcs, RunPcs
    <2>7. Refreshes'
      BY <1>0, <1>f, <2>1, <2>2, Numbers DEF Refreshes
    <2>8. Fresh'
      BY <1>0, <1>f, <2>1, <2>2, Types, Bounds
         DEF Fresh, Matches, ListPcs, PickedPcs, RunPcs
    <2>9. LensInv'
      <3> SUFFICES ASSUME feature = "lens" PROVE Quiet' /\ OfTheText'
        BY <1>f DEF LensInv
      <3>1. Quiet /\ OfTheText
        BY <1>0 DEF LensInv
      <3>2. Quiet'
        <4>1. asked' # None =>
               /\ timer' = FALSE
               /\ \A m \in DOMAIN input' : input'[m].type = "change" =>
                     \E k \in DOMAIN input' :
                        k > m /\ input'[k].type = "list" /\ input'[k].id = asked'.id
               /\ loop' # Idle => \E k \in DOMAIN input' :
                                    input'[k].type = "list" /\ input'[k].id = asked'.id
          BY <1>0, <1>f, <2>1, <2>2, <3>1
             DEF Quiet, Matches, PickedPcs, RunPcs
        <4>2. shown' # None => /\ timer' = FALSE /\ loop' = Idle
                                /\ \A m \in DOMAIN input' : input'[m].type # "change"
          BY <1>0, <1>f, <2>1, <2>2, <3>1
             DEF Quiet, Matches, PickedPcs, RunPcs
        <4>3. \A k \in DOMAIN input' : input'[k].type = "run" =>
               \A m \in DOMAIN input' : m < k => input'[m].type # "change"
          BY <1>0, <1>f, <2>1, <2>2, <3>1
             DEF Quiet, Matches, PickedPcs, RunPcs
        <4>4. loop' # Idle => \A k \in DOMAIN input' : input'[k].type # "run"
          BY <1>0, <1>f, <2>1, <2>2, <3>1
             DEF Quiet, Matches, PickedPcs, RunPcs
        <4>5. loop' # Idle =>
               \A j \in Ids : tasks'[j].pc \in RunPcs => ~Matches(tasks[j].gen)'
          BY <1>0, <1>f, <2>1, <2>2, <3>1
             DEF Quiet, Matches, PickedPcs, RunPcs
        <4> QED
          BY <4>1, <4>2, <4>3, <4>4, <4>5 DEF Quiet
      <3>3. OfTheText'
        BY <1>0, <1>f, <2>1, <2>2, <2>3, <3>1, Types, Bounds
           DEF OfTheText, Matches, PickedPcs, RunPcs
      <3> QED
        BY <3>2, <3>3
    <2>10. Results'
      BY <1>0, <1>f, <2>1, <2>2
         DEF Results, LensOnItsText, CommandFromShownReply, NoCommandAfterRefresh
    <2> QED
      BY <2>4, <2>5, <2>6, <2>7, <2>8, <2>9, <2>10 DEF Inv
  <1>6. CASE OnList
    <2>1. /\ output # <<>> /\ output' = Tail(output)
          /\ UNCHANGED <<tick, textChanged, timer, sent, lastId, running, applied,
                         input, loop, tasks, cache, refreshes, doc, epoch, stream,
                         retired, command>>
          /\ Head(output).type = "list"
      BY <1>6 DEF OnList, serverVars
    <2>2. /\ output' \in Seq(Replies) /\ 1 \in DOMAIN output /\ output[1] = Head(output)
          /\ Head(output).id \in Ids /\ Head(output).on \in 0 .. MaxTick
          /\ \A p \in DOMAIN output' : p + 1 \in DOMAIN output /\ output'[p] = output[p + 1]
      BY <1>0, <2>1, Taking
    <2>3. /\ asked' \in {None, asked}
          /\ \/ shown' = shown
             \/ /\ asked # None /\ asked.id = Head(output).id /\ asked' = None
                /\ shown' = [gen |-> asked.id, tick |-> asked.tick]
      BY <1>6 DEF OnList
    <2>4. /\ asked' # None => asked' = asked
          /\ shown' \in {None} \union [gen : Ids, tick : 0 .. MaxTick]
          /\ shown' = shown \/ (asked # None /\ shown' # None /\ shown'.gen = asked.id /\ asked' = None
                                /\ asked.id \in Ids /\ asked.id = Head(output).id)
      BY <1>0, <2>3, Types DEF None
    <2>5. shown' # shown =>
            /\ asked.id <= cache.gen /\ tasks[asked.id].pc # "none"
            /\ asked.id \in Ids
            /\ \A k \in DOMAIN input : input[k].type # "change" => asked.id < input[k].id
      BY <1>0, <2>1, <2>2, <2>4 DEF Ordered
    <2>6. \A g \in Ids : Given(g)' => Given(g) \/ (shown' # shown /\ g = asked.id)
      BY <2>1, <2>4 DEF Given
    <2>7. Shapes'
      BY <1>0, <1>f, <2>1, <2>2, <2>3, <2>4, <2>5, Types, Typed
    <2>8. Ordered'
      <3>1. \A k \in DOMAIN input' : input'[k].type # "change" =>
             /\ input'[k].id \in 1 .. lastId' /\ input'[k].gen \in Ids
             /\ input'[k].type = "list" => input'[k].gen = input'[k].id
             /\ cache'.gen < input'[k].id
        BY <1>0, <1>f, <2>1, <2>2, <2>3, <2>4, <2>5, Bounds DEF Ordered
      <3>2. \A k \in DOMAIN input' : input'[k].type # "change" =>
             \A j \in Ids : tasks'[j].pc # "none" => j < input'[k].id
        BY <1>0, <1>f, <2>1, <2>2, <2>3, <2>4, <2>5, Bounds DEF Ordered
      <3>3. \A k, m \in DOMAIN input' :
             input'[k].type # "change" /\ m < k /\ input'[m].type # "change" =>
                input'[m].id < input'[k].id
        BY <1>0, <1>f, <2>1, <2>2, <2>3, <2>4, <2>5, Bounds DEF Ordered
      <3>4. /\ \A j \in Ids : tasks'[j].pc # "none" => j <= lastId'
            /\ cache'.gen <= lastId'
            /\ asked' # None => asked'.id <= lastId'
        BY <1>0, <1>f, <2>1, <2>2, <2>3, <2>4, <2>5, Bounds DEF Ordered
      <3>5. \A p \in DOMAIN output' :
             /\ tasks'[output'[p].id].pc # "none"
             /\ output'[p].type = "list" => output'[p].id <= cache'.gen
        BY <1>0, <1>f, <2>1, <2>2, <2>3, <2>4, <2>5, Bounds DEF Ordered
      <3> QED
        BY <3>1, <3>2, <3>3, <3>4, <3>5 DEF Ordered
    <2>9. Lists'
      BY <1>0, <1>f, <2>1, <2>2, <2>3, <2>4, <2>5, <2>6, Types, Bounds
         DEF Lists, ListPcs, PickedPcs, RunPcs
    <2>10. Refreshes'
      BY <1>0, <1>f, <2>1, <2>2, <2>3, <2>4, <2>5, Numbers DEF Refreshes
    <2>11. Fresh'
      BY <1>0, <1>f, <2>1, <2>2, <2>3, <2>4, <2>5, Types, Bounds
         DEF Fresh, Matches, ListPcs, PickedPcs, RunPcs
    <2>12. LensInv'
      <3> SUFFICES ASSUME feature = "lens" PROVE Quiet' /\ OfTheText'
        BY <1>f DEF LensInv
      <3>1. Quiet /\ OfTheText
        BY <1>0 DEF LensInv
      <3>2. Quiet'
        <4>1. asked' # None =>
               /\ timer' = FALSE
               /\ \A m \in DOMAIN input' : input'[m].type = "change" =>
                     \E k \in DOMAIN input' :
                        k > m /\ input'[k].type = "list" /\ input'[k].id = asked'.id
               /\ loop' # Idle => \E k \in DOMAIN input' :
                                    input'[k].type = "list" /\ input'[k].id = asked'.id
          BY <1>0, <1>f, <2>1, <2>2, <2>3, <2>4, <2>5, <3>1
             DEF Quiet, Matches, PickedPcs, RunPcs
        <4>2. shown' # None => /\ timer' = FALSE /\ loop' = Idle
                                /\ \A m \in DOMAIN input' : input'[m].type # "change"
          <5>1. CASE shown' = shown
            BY <2>1, <3>1, <5>1 DEF Quiet
          <5>2. CASE shown' # shown
            <6>1. \A k \in DOMAIN input : ~(input[k].type = "list" /\ input[k].id = asked.id)
              BY <2>4, <2>5, <5>2, Bounds
            <6> QED
              BY <2>1, <2>4, <3>1, <5>2, <6>1 DEF Quiet
          <5> QED
            BY <5>1, <5>2
        <4>3. \A k \in DOMAIN input' : input'[k].type = "run" =>
               \A m \in DOMAIN input' : m < k => input'[m].type # "change"
          BY <1>0, <1>f, <2>1, <2>2, <2>3, <2>4, <2>5, <3>1
             DEF Quiet, Matches, PickedPcs, RunPcs
        <4>4. loop' # Idle => \A k \in DOMAIN input' : input'[k].type # "run"
          BY <1>0, <1>f, <2>1, <2>2, <2>3, <2>4, <2>5, <3>1
             DEF Quiet, Matches, PickedPcs, RunPcs
        <4>5. loop' # Idle =>
               \A j \in Ids : tasks'[j].pc \in RunPcs => ~Matches(tasks[j].gen)'
          BY <1>0, <1>f, <2>1, <2>2, <2>3, <2>4, <2>5, <3>1
             DEF Quiet, Matches, PickedPcs, RunPcs
        <4> QED
          BY <4>1, <4>2, <4>3, <4>4, <4>5 DEF Quiet
      <3>3. OfTheText'
        BY <1>0, <1>f, <2>1, <2>2, <2>3, <2>4, <2>5, <2>6, <3>1, Types, Bounds
           DEF OfTheText, Matches, PickedPcs, RunPcs
      <3> QED
        BY <3>2, <3>3
    <2>13. Results'
      BY <1>0, <1>f, <2>1, <2>2, <2>3, <2>4, <2>5
         DEF Results, LensOnItsText, CommandFromShownReply, NoCommandAfterRefresh
    <2> QED
      BY <2>7, <2>8, <2>9, <2>10, <2>11, <2>12, <2>13 DEF Inv
  <1>7. CASE OnRunReply
    <2>1. /\ output # <<>> /\ output' = Tail(output)
          /\ UNCHANGED <<timer, sent, lastId, asked, shown, input, loop, tasks,
                         cache, refreshes, doc, epoch, stream, retired, command>>
      BY <1>7 DEF OnRunReply, serverVars
    <2>2. /\ output' \in Seq(Replies) /\ 1 \in DOMAIN output /\ output[1] = Head(output)
          /\ Head(output).id \in Ids /\ Head(output).on \in 0 .. MaxTick
          /\ \A p \in DOMAIN output' : p + 1 \in DOMAIN output /\ output'[p] = output[p + 1]
      BY <1>0, <2>1, Taking
    <2>3. /\ running' \subseteq running
          /\ \/ /\ applied' = [on |-> Head(output).on, tick |-> tick]
                /\ tick < MaxTick /\ tick' = tick + 1 /\ textChanged' = TRUE
             \/ UNCHANGED <<applied, tick, textChanged>>
      BY <1>7 DEF OnRunReply
    <2>4. /\ running' \subseteq [id : Ids, gen : Ids, tick : 0 .. MaxTick]
          /\ applied' \in {None} \union [on : 0 .. MaxTick, tick : 0 .. MaxTick]
          /\ tick' \in 0 .. MaxTick /\ textChanged' \in BOOLEAN
      <3>1. CASE UNCHANGED <<applied, tick, textChanged>>
        BY <1>0, <2>3, <3>1, Types
      <3>2. CASE /\ applied' = [on |-> Head(output).on, tick |-> tick]
                 /\ tick < MaxTick /\ tick' = tick + 1 /\ textChanged' = TRUE
        <4>1. [on |-> Head(output).on, tick |-> tick] \in [on : 0 .. MaxTick, tick : 0 .. MaxTick]
          BY <1>0, <2>2, Types
        <4>2. tick' \in 0 .. MaxTick
          BY <1>0, <3>2, Numbers, Bounds
        <4> QED
          BY <1>0, <2>3, <3>2, <4>1, <4>2, Types
      <3> QED
        BY <2>3, <3>1, <3>2
    <2>5. \A g \in Ids : Given(g)' => Given(g)
      BY <1>f, <2>1, <2>2, <2>3, <2>4 DEF Given, RunPcs, PickedPcs
    <2>6. Shapes'
      BY <1>0, <1>f, <2>1, <2>2, <2>3, <2>4, Types, Typed
    <2>7. Ordered'
      <3>1. \A k \in DOMAIN input' : input'[k].type # "change" =>
             /\ input'[k].id \in 1 .. lastId' /\ input'[k].gen \in Ids
             /\ input'[k].type = "list" => input'[k].gen = input'[k].id
             /\ cache'.gen < input'[k].id
        BY <1>0, <1>f, <2>1, <2>2, <2>3, <2>4, Bounds DEF Ordered
      <3>2. \A k \in DOMAIN input' : input'[k].type # "change" =>
             \A j \in Ids : tasks'[j].pc # "none" => j < input'[k].id
        BY <1>0, <1>f, <2>1, <2>2, <2>3, <2>4, Bounds DEF Ordered
      <3>3. \A k, m \in DOMAIN input' :
             input'[k].type # "change" /\ m < k /\ input'[m].type # "change" =>
                input'[m].id < input'[k].id
        BY <1>0, <1>f, <2>1, <2>2, <2>3, <2>4, Bounds DEF Ordered
      <3>4. /\ \A j \in Ids : tasks'[j].pc # "none" => j <= lastId'
            /\ cache'.gen <= lastId'
            /\ asked' # None => asked'.id <= lastId'
        BY <1>0, <1>f, <2>1, <2>2, <2>3, <2>4, Bounds DEF Ordered
      <3>5. \A p \in DOMAIN output' :
             /\ tasks'[output'[p].id].pc # "none"
             /\ output'[p].type = "list" => output'[p].id <= cache'.gen
        BY <1>0, <1>f, <2>1, <2>2, <2>3, <2>4, Bounds DEF Ordered
      <3> QED
        BY <3>1, <3>2, <3>3, <3>4, <3>5 DEF Ordered
    <2>8. Lists'
      BY <1>0, <1>f, <2>1, <2>2, <2>3, <2>4, <2>5, Types, Bounds
         DEF Lists, ListPcs, PickedPcs, RunPcs
    <2>9. Refreshes'
      BY <1>0, <1>f, <2>1, <2>2, <2>3, <2>4, Numbers DEF Refreshes
    <2>10. Fresh'
      BY <1>0, <1>f, <2>1, <2>2, <2>3, <2>4, Types, Bounds
         DEF Fresh, Matches, ListPcs, PickedPcs, RunPcs
    <2>11. LensInv'
      <3> SUFFICES ASSUME feature = "lens" PROVE Quiet' /\ OfTheText'
        BY <1>f DEF LensInv
      <3>1. Quiet /\ OfTheText
        BY <1>0 DEF LensInv
      <3>2. Quiet'
        <4>1. asked' # None =>
               /\ timer' = FALSE
               /\ \A m \in DOMAIN input' : input'[m].type = "change" =>
                     \E k \in DOMAIN input' :
                        k > m /\ input'[k].type = "list" /\ input'[k].id = asked'.id
               /\ loop' # Idle => \E k \in DOMAIN input' :
                                    input'[k].type = "list" /\ input'[k].id = asked'.id
          BY <1>0, <1>f, <2>1, <2>2, <2>3, <2>4, <3>1
             DEF Quiet, Matches, PickedPcs, RunPcs
        <4>2. shown' # None => /\ timer' = FALSE /\ loop' = Idle
                                /\ \A m \in DOMAIN input' : input'[m].type # "change"
          BY <1>0, <1>f, <2>1, <2>2, <2>3, <2>4, <3>1
             DEF Quiet, Matches, PickedPcs, RunPcs
        <4>3. \A k \in DOMAIN input' : input'[k].type = "run" =>
               \A m \in DOMAIN input' : m < k => input'[m].type # "change"
          BY <1>0, <1>f, <2>1, <2>2, <2>3, <2>4, <3>1
             DEF Quiet, Matches, PickedPcs, RunPcs
        <4>4. loop' # Idle => \A k \in DOMAIN input' : input'[k].type # "run"
          BY <1>0, <1>f, <2>1, <2>2, <2>3, <2>4, <3>1
             DEF Quiet, Matches, PickedPcs, RunPcs
        <4>5. loop' # Idle =>
               \A j \in Ids : tasks'[j].pc \in RunPcs => ~Matches(tasks[j].gen)'
          BY <1>0, <1>f, <2>1, <2>2, <2>3, <2>4, <3>1
             DEF Quiet, Matches, PickedPcs, RunPcs
        <4> QED
          BY <4>1, <4>2, <4>3, <4>4, <4>5 DEF Quiet
      <3>3. OfTheText'
        BY <1>0, <1>f, <2>1, <2>2, <2>3, <2>4, <2>5, <3>1, Types, Bounds
           DEF OfTheText, Matches, PickedPcs, RunPcs
      <3> QED
        BY <3>2, <3>3
    <2>12. Results'
      BY <1>0, <1>f, <2>1, <2>2, <2>3, <2>4
         DEF Results, LensOnItsText, CommandFromShownReply, NoCommandAfterRefresh
    <2> QED
      BY <2>6, <2>7, <2>8, <2>9, <2>10, <2>11, <2>12 DEF Inv
  <1>8. CASE OnError
    <2>1. /\ output # <<>> /\ output' = Tail(output)
          /\ UNCHANGED <<tick, textChanged, timer, sent, lastId, shown, applied,
                         input, loop, tasks, cache, refreshes, doc, epoch, stream,
                         retired, command>>
          /\ running' \subseteq running /\ asked' \in {None, asked}
      BY <1>8 DEF OnError, serverVars
    <2>2. /\ output' \in Seq(Replies) /\ 1 \in DOMAIN output /\ output[1] = Head(output)
          /\ Head(output).id \in Ids /\ Head(output).on \in 0 .. MaxTick
          /\ \A p \in DOMAIN output' : p + 1 \in DOMAIN output /\ output'[p] = output[p + 1]
      BY <1>0, <2>1, Taking
    <2>3. running' \subseteq [id : Ids, gen : Ids, tick : 0 .. MaxTick]
      BY <1>0, <2>1, Types
    <2>4. \A g \in Ids : Given(g)' => Given(g)
      BY <1>f, <2>1, <2>2, <2>3 DEF Given, RunPcs, PickedPcs
    <2>5. Shapes'
      BY <1>0, <1>f, <2>1, <2>2, <2>3, Types, Typed
    <2>6. Ordered'
      <3>1. \A k \in DOMAIN input' : input'[k].type # "change" =>
             /\ input'[k].id \in 1 .. lastId' /\ input'[k].gen \in Ids
             /\ input'[k].type = "list" => input'[k].gen = input'[k].id
             /\ cache'.gen < input'[k].id
        BY <1>0, <1>f, <2>1, <2>2, <2>3, Bounds DEF Ordered
      <3>2. \A k \in DOMAIN input' : input'[k].type # "change" =>
             \A j \in Ids : tasks'[j].pc # "none" => j < input'[k].id
        BY <1>0, <1>f, <2>1, <2>2, <2>3, Bounds DEF Ordered
      <3>3. \A k, m \in DOMAIN input' :
             input'[k].type # "change" /\ m < k /\ input'[m].type # "change" =>
                input'[m].id < input'[k].id
        BY <1>0, <1>f, <2>1, <2>2, <2>3, Bounds DEF Ordered
      <3>4. /\ \A j \in Ids : tasks'[j].pc # "none" => j <= lastId'
            /\ cache'.gen <= lastId'
            /\ asked' # None => asked'.id <= lastId'
        BY <1>0, <1>f, <2>1, <2>2, <2>3, Bounds DEF Ordered
      <3>5. \A p \in DOMAIN output' :
             /\ tasks'[output'[p].id].pc # "none"
             /\ output'[p].type = "list" => output'[p].id <= cache'.gen
        BY <1>0, <1>f, <2>1, <2>2, <2>3, Bounds DEF Ordered
      <3> QED
        BY <3>1, <3>2, <3>3, <3>4, <3>5 DEF Ordered
    <2>7. Lists'
      BY <1>0, <1>f, <2>1, <2>2, <2>3, <2>4, Types, Bounds
         DEF Lists, ListPcs, PickedPcs, RunPcs
    <2>8. Refreshes'
      BY <1>0, <1>f, <2>1, <2>2, <2>3, Numbers DEF Refreshes
    <2>9. Fresh'
      BY <1>0, <1>f, <2>1, <2>2, <2>3, Types, Bounds
         DEF Fresh, Matches, ListPcs, PickedPcs, RunPcs
    <2>10. LensInv'
      <3> SUFFICES ASSUME feature = "lens" PROVE Quiet' /\ OfTheText'
        BY <1>f DEF LensInv
      <3>1. Quiet /\ OfTheText
        BY <1>0 DEF LensInv
      <3>2. Quiet'
        <4>1. asked' # None =>
               /\ timer' = FALSE
               /\ \A m \in DOMAIN input' : input'[m].type = "change" =>
                     \E k \in DOMAIN input' :
                        k > m /\ input'[k].type = "list" /\ input'[k].id = asked'.id
               /\ loop' # Idle => \E k \in DOMAIN input' :
                                    input'[k].type = "list" /\ input'[k].id = asked'.id
          BY <1>0, <1>f, <2>1, <2>2, <2>3, <3>1
             DEF Quiet, Matches, PickedPcs, RunPcs
        <4>2. shown' # None => /\ timer' = FALSE /\ loop' = Idle
                                /\ \A m \in DOMAIN input' : input'[m].type # "change"
          BY <1>0, <1>f, <2>1, <2>2, <2>3, <3>1
             DEF Quiet, Matches, PickedPcs, RunPcs
        <4>3. \A k \in DOMAIN input' : input'[k].type = "run" =>
               \A m \in DOMAIN input' : m < k => input'[m].type # "change"
          BY <1>0, <1>f, <2>1, <2>2, <2>3, <3>1
             DEF Quiet, Matches, PickedPcs, RunPcs
        <4>4. loop' # Idle => \A k \in DOMAIN input' : input'[k].type # "run"
          BY <1>0, <1>f, <2>1, <2>2, <2>3, <3>1
             DEF Quiet, Matches, PickedPcs, RunPcs
        <4>5. loop' # Idle =>
               \A j \in Ids : tasks'[j].pc \in RunPcs => ~Matches(tasks[j].gen)'
          BY <1>0, <1>f, <2>1, <2>2, <2>3, <3>1
             DEF Quiet, Matches, PickedPcs, RunPcs
        <4> QED
          BY <4>1, <4>2, <4>3, <4>4, <4>5 DEF Quiet
      <3>3. OfTheText'
        BY <1>0, <1>f, <2>1, <2>2, <2>3, <2>4, <3>1, Types, Bounds
           DEF OfTheText, Matches, PickedPcs, RunPcs
      <3> QED
        BY <3>2, <3>3
    <2>11. Results'
      BY <1>0, <1>f, <2>1, <2>2, <2>3
         DEF Results, LensOnItsText, CommandFromShownReply, NoCommandAfterRefresh
    <2> QED
      BY <2>5, <2>6, <2>7, <2>8, <2>9, <2>10, <2>11 DEF Inv
  <1>9. CASE OnRefresh
    <2>1. /\ refreshes > 0 /\ refreshes' = refreshes - 1
          /\ asked' = None /\ shown' = None /\ running' = {}
          /\ UNCHANGED <<tick, textChanged, timer, sent, lastId, applied, input,
                         loop, tasks, cache, output, doc, epoch, stream, retired,
                         command>>
      BY <1>9 DEF OnRefresh, serverVars
    <2>2. \A g \in Ids : Given(g)' => Given(g)
      BY <1>f, <2>1 DEF Given, RunPcs, PickedPcs
    <2>3. Shapes'
      <3>1. refreshes' \in 0 .. MaxRefresh
        BY <1>0, <2>1, Numbers, Bounds
      <3>2. /\ asked' \in {None} \union [id : Ids, tick : 0 .. MaxTick]
            /\ shown' \in {None} \union [gen : Ids, tick : 0 .. MaxTick]
            /\ running' \subseteq [id : Ids, gen : Ids, tick : 0 .. MaxTick]
        BY <2>1
      <3> QED
        BY <1>0, <1>f, <2>1, <3>1, <3>2, Types, Typed
    <2>4. Ordered'
      <3>1. \A k \in DOMAIN input' : input'[k].type # "change" =>
             /\ input'[k].id \in 1 .. lastId' /\ input'[k].gen \in Ids
             /\ input'[k].type = "list" => input'[k].gen = input'[k].id
             /\ cache'.gen < input'[k].id
        BY <1>0, <1>f, <2>1, Bounds DEF Ordered
      <3>2. \A k \in DOMAIN input' : input'[k].type # "change" =>
             \A j \in Ids : tasks'[j].pc # "none" => j < input'[k].id
        BY <1>0, <1>f, <2>1, Bounds DEF Ordered
      <3>3. \A k, m \in DOMAIN input' :
             input'[k].type # "change" /\ m < k /\ input'[m].type # "change" =>
                input'[m].id < input'[k].id
        BY <1>0, <1>f, <2>1, Bounds DEF Ordered
      <3>4. /\ \A j \in Ids : tasks'[j].pc # "none" => j <= lastId'
            /\ cache'.gen <= lastId'
            /\ asked' # None => asked'.id <= lastId'
        BY <1>0, <1>f, <2>1, Bounds DEF Ordered
      <3>5. \A p \in DOMAIN output' :
             /\ tasks'[output'[p].id].pc # "none"
             /\ output'[p].type = "list" => output'[p].id <= cache'.gen
        BY <1>0, <1>f, <2>1, Bounds DEF Ordered
      <3> QED
        BY <3>1, <3>2, <3>3, <3>4, <3>5 DEF Ordered
    <2>5. Lists'
      BY <1>0, <1>f, <2>1, <2>2, Types, Bounds DEF Lists, ListPcs, PickedPcs, RunPcs
    <2>6. Refreshes'
      BY <1>0, <1>f, <2>1, Numbers DEF Refreshes
    <2>7. Fresh'
      BY <1>0, <1>f, <2>1, Types, Bounds
         DEF Fresh, Matches, ListPcs, PickedPcs, RunPcs
    <2>8. LensInv'
      <3> SUFFICES ASSUME feature = "lens" PROVE Quiet' /\ OfTheText'
        BY <1>f DEF LensInv
      <3>1. Quiet /\ OfTheText
        BY <1>0 DEF LensInv
      <3>2. Quiet'
        <4>1. asked' # None =>
               /\ timer' = FALSE
               /\ \A m \in DOMAIN input' : input'[m].type = "change" =>
                     \E k \in DOMAIN input' :
                        k > m /\ input'[k].type = "list" /\ input'[k].id = asked'.id
               /\ loop' # Idle => \E k \in DOMAIN input' :
                                    input'[k].type = "list" /\ input'[k].id = asked'.id
          BY <1>0, <1>f, <2>1, <3>1 DEF Quiet, Matches, PickedPcs, RunPcs
        <4>2. shown' # None => /\ timer' = FALSE /\ loop' = Idle
                                /\ \A m \in DOMAIN input' : input'[m].type # "change"
          BY <1>0, <1>f, <2>1, <3>1 DEF Quiet, Matches, PickedPcs, RunPcs
        <4>3. \A k \in DOMAIN input' : input'[k].type = "run" =>
               \A m \in DOMAIN input' : m < k => input'[m].type # "change"
          BY <1>0, <1>f, <2>1, <3>1 DEF Quiet, Matches, PickedPcs, RunPcs
        <4>4. loop' # Idle => \A k \in DOMAIN input' : input'[k].type # "run"
          BY <1>0, <1>f, <2>1, <3>1 DEF Quiet, Matches, PickedPcs, RunPcs
        <4>5. loop' # Idle =>
               \A j \in Ids : tasks'[j].pc \in RunPcs => ~Matches(tasks[j].gen)'
          BY <1>0, <1>f, <2>1, <3>1 DEF Quiet, Matches, PickedPcs, RunPcs
        <4> QED
          BY <4>1, <4>2, <4>3, <4>4, <4>5 DEF Quiet
      <3>3. OfTheText'
        BY <1>0, <1>f, <2>1, <2>2, <3>1, Types, Bounds
           DEF OfTheText, Matches, PickedPcs, RunPcs
      <3> QED
        BY <3>2, <3>3
    <2>9. Results'
      BY <1>0, <1>f, <2>1
         DEF Results, LensOnItsText, CommandFromShownReply, NoCommandAfterRefresh
    <2> QED
      BY <2>3, <2>4, <2>5, <2>6, <2>7, <2>8, <2>9 DEF Inv
  <1>10. CASE ReadChange
    <2>1. /\ loop = Idle /\ input # <<>> /\ input' = Tail(input) /\ Head(input).type = "change"
          /\ loop' = Head(input).tick
          /\ cache' = [cache EXCEPT !.live = FALSE, !.items = None]
          /\ UNCHANGED <<tick, textChanged, timer, sent, lastId, asked, shown,
                         running, applied, tasks, refreshes, output, doc, epoch,
                         stream, retired, command>>
      BY <1>10 DEF ReadChange, Invalidated, editorVars, serverVars
    <2>2. /\ Head(input) = input[1] /\ 1 \in DOMAIN input /\ input' \in Seq(Lines)
          /\ Head(input).type \in {"change", "list", "run"} /\ Head(input).id \in 0 .. MaxId
          /\ Head(input).gen \in 0 .. MaxId /\ Head(input).tick \in 0 .. MaxTick
          /\ \A k \in DOMAIN input : k \in Nat /\ k >= 1
          /\ \A k \in DOMAIN input : k > 1 => k - 1 \in DOMAIN input' /\ input'[k - 1] = input[k]
          /\ \A k \in DOMAIN input' : /\ k \in Nat /\ k + 1 \in DOMAIN input
                                      /\ input'[k] = input[k + 1]
      BY <1>0, <2>1, Reading
    <2>3. /\ cache' \in [gen : 0 .. MaxId, live : BOOLEAN, items : {None} \union Items]
          /\ cache'.gen = cache.gen /\ cache'.live = FALSE /\ cache'.items = None
      BY <1>0, <2>1, Types
    <2>4. \A g \in Ids : Given(g)' => Given(g)
      BY <1>f, <2>1, <2>2, <2>3 DEF Given, RunPcs, PickedPcs
    <2>5. Shapes'
      BY <1>0, <1>f, <2>1, <2>2, <2>3, Types, Typed
    <2>6. Ordered'
      <3>1. \A k \in DOMAIN input' : input'[k].type # "change" =>
             /\ input'[k].id \in 1 .. lastId' /\ input'[k].gen \in Ids
             /\ input'[k].type = "list" => input'[k].gen = input'[k].id
             /\ cache'.gen < input'[k].id
        BY <1>0, <1>f, <2>1, <2>2, <2>3, Bounds DEF Ordered
      <3>2. \A k \in DOMAIN input' : input'[k].type # "change" =>
             \A j \in Ids : tasks'[j].pc # "none" => j < input'[k].id
        <4>1. \A k \in DOMAIN input : input[k].type # "change" =>
                 \A j \in Ids : tasks[j].pc # "none" => j < input[k].id
          BY <1>0 DEF Ordered
        <4> QED
          BY <2>1, <2>2, <4>1
      <3>3. \A k, m \in DOMAIN input' :
             input'[k].type # "change" /\ m < k /\ input'[m].type # "change" =>
                input'[m].id < input'[k].id
        <4>1. \A k, m \in DOMAIN input :
                 input[k].type # "change" /\ m < k /\ input[m].type # "change" =>
                    input[m].id < input[k].id
          BY <1>0 DEF Ordered
        <4>2. \A k, m \in DOMAIN input' : m < k => m + 1 < k + 1
          BY <2>2
        <4> QED
          BY <2>2, <4>1, <4>2
      <3>4. /\ \A j \in Ids : tasks'[j].pc # "none" => j <= lastId'
            /\ cache'.gen <= lastId'
            /\ asked' # None => asked'.id <= lastId'
        BY <1>0, <1>f, <2>1, <2>2, <2>3, Bounds DEF Ordered
      <3>5. \A p \in DOMAIN output' :
             /\ tasks'[output'[p].id].pc # "none"
             /\ output'[p].type = "list" => output'[p].id <= cache'.gen
        BY <1>0, <1>f, <2>1, <2>2, <2>3, Bounds DEF Ordered
      <3> QED
        BY <3>1, <3>2, <3>3, <3>4, <3>5 DEF Ordered
    <2>7. Lists'
      BY <1>0, <1>f, <2>1, <2>2, <2>3, <2>4, Types, Bounds
         DEF Lists, ListPcs, PickedPcs, RunPcs
    <2>8. Refreshes'
      BY <1>0, <1>f, <2>1, <2>2, <2>3, Numbers DEF Refreshes
    <2>9. Fresh'
      BY <1>0, <1>f, <2>1, <2>2, <2>3, Types, Bounds
         DEF Fresh, Matches, ListPcs, PickedPcs, RunPcs
    <2>10. LensInv'
      <3> SUFFICES ASSUME feature = "lens" PROVE Quiet' /\ OfTheText'
        BY <1>f DEF LensInv
      <3>1. Quiet /\ OfTheText
        BY <1>0 DEF LensInv
      <3>2. Quiet'
        <4>1. asked' # None =>
               /\ timer' = FALSE
               /\ \A m \in DOMAIN input' : input'[m].type = "change" =>
                     \E k \in DOMAIN input' :
                        k > m /\ input'[k].type = "list" /\ input'[k].id = asked'.id
               /\ loop' # Idle => \E k \in DOMAIN input' :
                                    input'[k].type = "list" /\ input'[k].id = asked'.id
          <5> SUFFICES ASSUME asked # None
                       PROVE  /\ timer = FALSE
                              /\ \A m \in DOMAIN input' : input'[m].type = "change" =>
                                    \E k \in DOMAIN input' :
                                       k > m /\ input'[k].type = "list" /\ input'[k].id = asked.id
                              /\ \E k \in DOMAIN input' :
                                       input'[k].type = "list" /\ input'[k].id = asked.id
            BY <2>1
          <5>1. \A m \in DOMAIN input : input[m].type = "change" =>
                   \E k \in DOMAIN input : k > m /\ input[k].type = "list" /\ input[k].id = asked.id
            BY <3>1 DEF Quiet
          <5>2. \E k \in DOMAIN input : k > 1 /\ input[k].type = "list" /\ input[k].id = asked.id
            BY <2>1, <2>2, <5>1
          <5>3. \E k \in DOMAIN input' : input'[k].type = "list" /\ input'[k].id = asked.id
            BY <2>2, <5>2
          <5>4. ASSUME NEW m \in DOMAIN input', input'[m].type = "change"
                PROVE  \E k \in DOMAIN input' :
                          k > m /\ input'[k].type = "list" /\ input'[k].id = asked.id
            <6>1. m + 1 \in DOMAIN input /\ input[m + 1].type = "change" /\ m \in Nat /\ m >= 1
              BY <2>2, <5>4
            <6>2. PICK k \in DOMAIN input :
                     k > m + 1 /\ input[k].type = "list" /\ input[k].id = asked.id
              BY <5>1, <6>1
            <6>3. k - 1 \in DOMAIN input' /\ input'[k - 1] = input[k] /\ k - 1 > m
              BY <2>2, <6>1, <6>2
            <6> QED
              BY <6>2, <6>3
          <5> QED
            BY <3>1, <5>3, <5>4 DEF Quiet
        <4>2. shown' # None => /\ timer' = FALSE /\ loop' = Idle
                                /\ \A m \in DOMAIN input' : input'[m].type # "change"
          BY <1>0, <1>f, <2>1, <2>2, <2>3, <3>1
             DEF Quiet, Matches, PickedPcs, RunPcs
        <4>3. \A k \in DOMAIN input' : input'[k].type = "run" =>
               \A m \in DOMAIN input' : m < k => input'[m].type # "change"
          <5>1. \A k, m \in DOMAIN input :
                   input[k].type = "run" /\ m < k => input[m].type # "change"
            BY <3>1 DEF Quiet
          <5>2. \A k, m \in DOMAIN input' : m < k => m + 1 < k + 1
            BY <2>2
          <5> QED
            BY <2>2, <5>1, <5>2
        <4>4. loop' # Idle => \A k \in DOMAIN input' : input'[k].type # "run"
          BY <1>0, <1>f, <2>1, <2>2, <2>3, <3>1
             DEF Quiet, Matches, PickedPcs, RunPcs
        <4>5. loop' # Idle =>
               \A j \in Ids : tasks'[j].pc \in RunPcs => ~Matches(tasks[j].gen)'
          BY <1>0, <1>f, <2>1, <2>2, <2>3, <3>1
             DEF Quiet, Matches, PickedPcs, RunPcs
        <4> QED
          BY <4>1, <4>2, <4>3, <4>4, <4>5 DEF Quiet
      <3>3. OfTheText'
        BY <1>0, <1>f, <2>1, <2>2, <2>3, <2>4, <3>1, Types, Bounds
           DEF OfTheText, Matches, PickedPcs, RunPcs
      <3> QED
        BY <3>2, <3>3
    <2>11. Results'
      BY <1>0, <1>f, <2>1, <2>2, <2>3
         DEF Results, LensOnItsText, CommandFromShownReply, NoCommandAfterRefresh
    <2> QED
      BY <2>5, <2>6, <2>7, <2>8, <2>9, <2>10, <2>11 DEF Inv
  <1>11. CASE ForwardChange
    <2>1. /\ loop # Idle /\ doc' = loop /\ loop' = Idle
          /\ UNCHANGED <<tick, textChanged, timer, sent, lastId, asked, shown,
                         running, applied, input, tasks, cache, refreshes, output,
                         epoch, stream, retired, command>>
      BY <1>11 DEF ForwardChange, editorVars
    <2>2. \A g \in Ids : Given(g)' => Given(g)
      BY <1>f, <2>1 DEF Given, RunPcs, PickedPcs
    <2>3. Shapes'
      BY <1>0, <1>f, <2>1, Types, Typed
    <2>4. Ordered'
      <3>1. \A k \in DOMAIN input' : input'[k].type # "change" =>
             /\ input'[k].id \in 1 .. lastId' /\ input'[k].gen \in Ids
             /\ input'[k].type = "list" => input'[k].gen = input'[k].id
             /\ cache'.gen < input'[k].id
        BY <1>0, <1>f, <2>1, Bounds DEF Ordered
      <3>2. \A k \in DOMAIN input' : input'[k].type # "change" =>
             \A j \in Ids : tasks'[j].pc # "none" => j < input'[k].id
        BY <1>0, <1>f, <2>1, Bounds DEF Ordered
      <3>3. \A k, m \in DOMAIN input' :
             input'[k].type # "change" /\ m < k /\ input'[m].type # "change" =>
                input'[m].id < input'[k].id
        BY <1>0, <1>f, <2>1, Bounds DEF Ordered
      <3>4. /\ \A j \in Ids : tasks'[j].pc # "none" => j <= lastId'
            /\ cache'.gen <= lastId'
            /\ asked' # None => asked'.id <= lastId'
        BY <1>0, <1>f, <2>1, Bounds DEF Ordered
      <3>5. \A p \in DOMAIN output' :
             /\ tasks'[output'[p].id].pc # "none"
             /\ output'[p].type = "list" => output'[p].id <= cache'.gen
        BY <1>0, <1>f, <2>1, Bounds DEF Ordered
      <3> QED
        BY <3>1, <3>2, <3>3, <3>4, <3>5 DEF Ordered
    <2>5. Lists'
      BY <1>0, <1>f, <2>1, <2>2, Types, Bounds DEF Lists, ListPcs, PickedPcs, RunPcs
    <2>6. Refreshes'
      BY <1>0, <1>f, <2>1, Numbers DEF Refreshes
    <2>7. Fresh'
      BY <1>0, <1>f, <2>1, Types, Bounds
         DEF Fresh, Matches, ListPcs, PickedPcs, RunPcs
    <2>8. LensInv'
      <3> SUFFICES ASSUME feature = "lens" PROVE Quiet' /\ OfTheText'
        BY <1>f DEF LensInv
      <3>1. Quiet /\ OfTheText
        BY <1>0 DEF LensInv
      <3>2. Quiet'
        <4>1. asked' # None =>
               /\ timer' = FALSE
               /\ \A m \in DOMAIN input' : input'[m].type = "change" =>
                     \E k \in DOMAIN input' :
                        k > m /\ input'[k].type = "list" /\ input'[k].id = asked'.id
               /\ loop' # Idle => \E k \in DOMAIN input' :
                                    input'[k].type = "list" /\ input'[k].id = asked'.id
          BY <1>0, <1>f, <2>1, <3>1 DEF Quiet, Matches, PickedPcs, RunPcs
        <4>2. shown' # None => /\ timer' = FALSE /\ loop' = Idle
                                /\ \A m \in DOMAIN input' : input'[m].type # "change"
          BY <1>0, <1>f, <2>1, <3>1 DEF Quiet, Matches, PickedPcs, RunPcs
        <4>3. \A k \in DOMAIN input' : input'[k].type = "run" =>
               \A m \in DOMAIN input' : m < k => input'[m].type # "change"
          BY <1>0, <1>f, <2>1, <3>1 DEF Quiet, Matches, PickedPcs, RunPcs
        <4>4. loop' # Idle => \A k \in DOMAIN input' : input'[k].type # "run"
          BY <1>0, <1>f, <2>1, <3>1 DEF Quiet, Matches, PickedPcs, RunPcs
        <4>5. loop' # Idle =>
               \A j \in Ids : tasks'[j].pc \in RunPcs => ~Matches(tasks[j].gen)'
          BY <1>0, <1>f, <2>1, <3>1 DEF Quiet, Matches, PickedPcs, RunPcs
        <4> QED
          BY <4>1, <4>2, <4>3, <4>4, <4>5 DEF Quiet
      <3>3. OfTheText'
        <4>1. \A i \in Ids : tasks[i].pc \in RunPcs => ~Matches(tasks[i].gen)
          BY <2>1, <3>1 DEF Quiet
        <4>2. shown = None /\ \A k \in DOMAIN input : input[k].type # "run"
          BY <2>1, <3>1 DEF Quiet
        <4>3. \A g \in Ids : Given(g) => ~Matches(g)
          BY <4>1, <4>2 DEF Given
        <4>4. asked # None => cache.gen < asked.id /\ tasks[asked.id].pc = "none"
          <5> SUFFICES ASSUME asked # None
                       PROVE  cache.gen < asked.id /\ tasks[asked.id].pc = "none"
            OBVIOUS
          <5>1. PICK k \in DOMAIN input : input[k].type = "list" /\ input[k].id = asked.id
            BY <2>1, <3>1 DEF Quiet
          <5>2. asked.id \in Ids
            BY <1>0, Types
          <5> QED
            BY <1>0, <5>1, <5>2, Bounds DEF Ordered
        <4>5. asked # None => ~Matches(asked.id)
          <5>1. asked # None => asked.id \in Ids /\ asked.id \in Nat /\ cache.gen \in Nat
            BY <1>0, Numbers, Bounds
          <5> QED
            BY <4>4, <5>1 DEF Matches
        <4> QED
          BY <2>1, <2>2, <4>1, <4>3, <4>5 DEF OfTheText, Matches, PickedPcs, RunPcs
      <3> QED
        BY <3>2, <3>3
    <2>9. Results'
      BY <1>0, <1>f, <2>1
         DEF Results, LensOnItsText, CommandFromShownReply, NoCommandAfterRefresh
    <2> QED
      BY <2>3, <2>4, <2>5, <2>6, <2>7, <2>8, <2>9 DEF Inv
  <1>12. CASE SpawnTask
    <2>1. /\ loop = Idle /\ input # <<>> /\ input' = Tail(input) /\ Head(input).type # "change"
          /\ tasks' = [tasks EXCEPT ![Head(input).id] =
                         [pc |-> IF Head(input).type = "list" THEN "begin" ELSE "pick",
                          gen |-> Head(input).gen, item |-> NoItem]]
          /\ UNCHANGED <<tick, textChanged, timer, sent, lastId, asked, shown,
                         running, applied, loop, cache, refreshes, output, doc,
                         epoch, stream, retired, command>>
      BY <1>12 DEF SpawnTask, editorVars, serverVars
    <2>2. /\ Head(input) = input[1] /\ 1 \in DOMAIN input /\ input' \in Seq(Lines)
          /\ Head(input).type \in {"change", "list", "run"} /\ Head(input).id \in 0 .. MaxId
          /\ Head(input).gen \in 0 .. MaxId /\ Head(input).tick \in 0 .. MaxTick
          /\ \A k \in DOMAIN input : k \in Nat /\ k >= 1
          /\ \A k \in DOMAIN input : k > 1 => k - 1 \in DOMAIN input' /\ input'[k - 1] = input[k]
          /\ \A k \in DOMAIN input' : /\ k \in Nat /\ k + 1 \in DOMAIN input
                                      /\ input'[k] = input[k + 1]
      BY <1>0, <2>1, Reading
    <2>3. /\ Head(input).id \in Ids /\ Head(input).gen \in Ids /\ Head(input).id <= lastId
          /\ tasks[Head(input).id].pc = "none"
      <3>1. Head(input).id \in 1 .. lastId /\ Head(input).gen \in Ids
        BY <1>0, <2>1, <2>2 DEF Ordered
      <3>2. Head(input).id \in Ids
        <4>1. lastId \in 0 .. MaxId
          BY <1>0, Numbers
        <4> QED
          BY <3>1, <4>1, Bounds
      <3>3. tasks[Head(input).id].pc = "none"
        <4>1. \A i \in Ids : tasks[i].pc # "none" => i < input[1].id
          BY <1>0, <2>1, <2>2 DEF Ordered
        <4> QED
          BY <2>2, <3>2, <4>1, Bounds
      <3> QED
        BY <3>1, <3>2, <3>3
    <2>4. /\ tasks' \in [Ids -> Tasks]
          /\ \A j \in Ids : j # Head(input).id => tasks'[j] = tasks[j]
          /\ tasks'[Head(input).id].gen = Head(input).gen
          /\ tasks'[Head(input).id].pc =
                IF Head(input).type = "list" THEN "begin" ELSE "pick"
      <3>1. [pc |-> IF Head(input).type = "list" THEN "begin" ELSE "pick",
             gen |-> Head(input).gen, item |-> NoItem] \in Tasks
        BY <2>2, <2>3, Bounds DEF Tasks, Pcs, Items, NoItem
      <3> QED
        BY <1>0, <2>1, <2>3, <3>1, Types
    <2>5. \A g \in Ids : Given(g)' => Given(g)
      BY <1>f, <2>1, <2>2, <2>3, <2>4 DEF Given, RunPcs, PickedPcs
    <2>6. Shapes'
      BY <1>0, <1>f, <2>1, <2>2, <2>3, <2>4, Types, Typed
    <2>7. Ordered'
      <3>1. \A k \in DOMAIN input' : input'[k].type # "change" =>
             /\ input'[k].id \in 1 .. lastId' /\ input'[k].gen \in Ids
             /\ input'[k].type = "list" => input'[k].gen = input'[k].id
             /\ cache'.gen < input'[k].id
        BY <1>0, <1>f, <2>1, <2>2, <2>3, <2>4, Bounds DEF Ordered
      <3>2. \A k \in DOMAIN input' : input'[k].type # "change" =>
             \A j \in Ids : tasks'[j].pc # "none" => j < input'[k].id
        BY <1>0, <1>f, <2>1, <2>2, <2>3, <2>4, Bounds DEF Ordered
      <3>3. \A k, m \in DOMAIN input' :
             input'[k].type # "change" /\ m < k /\ input'[m].type # "change" =>
                input'[m].id < input'[k].id
        BY <1>0, <1>f, <2>1, <2>2, <2>3, <2>4, Bounds DEF Ordered
      <3>4. /\ \A j \in Ids : tasks'[j].pc # "none" => j <= lastId'
            /\ cache'.gen <= lastId'
            /\ asked' # None => asked'.id <= lastId'
        BY <1>0, <1>f, <2>1, <2>2, <2>3, <2>4, Bounds DEF Ordered
      <3>5. \A p \in DOMAIN output' :
             /\ tasks'[output'[p].id].pc # "none"
             /\ output'[p].type = "list" => output'[p].id <= cache'.gen
        BY <1>0, <1>f, <2>1, <2>2, <2>3, <2>4, Bounds DEF Ordered
      <3> QED
        BY <3>1, <3>2, <3>3, <3>4, <3>5 DEF Ordered
    <2>8. Lists'
      <3>1. /\ Head(input).type # "list" => Head(input).type = "run" /\ Given(Head(input).gen)
            /\ Head(input).type = "list" => Head(input).gen = Head(input).id
        BY <1>0, <2>1, <2>2, <2>3 DEF Ordered, Given
      <3>2. Head(input).gen # 0
        BY <2>3, Bounds
      <3> QED
        BY <1>0, <2>1, <2>3, <2>4, <2>5, <3>1, <3>2
           DEF Lists, ListPcs, PickedPcs, RunPcs
    <2>9. Refreshes'
      BY <1>0, <1>f, <2>1, <2>2, <2>3, <2>4, Numbers DEF Refreshes
    <2>10. Fresh'
      BY <1>0, <1>f, <2>1, <2>2, <2>3, <2>4, Types, Bounds
         DEF Fresh, Matches, ListPcs, PickedPcs, RunPcs
    <2>11. LensInv'
      <3> SUFFICES ASSUME feature = "lens" PROVE Quiet' /\ OfTheText'
        BY <1>f DEF LensInv
      <3>1. Quiet /\ OfTheText
        BY <1>0 DEF LensInv
      <3>2. Quiet'
        <4>1. asked' # None =>
               /\ timer' = FALSE
               /\ \A m \in DOMAIN input' : input'[m].type = "change" =>
                     \E k \in DOMAIN input' :
                        k > m /\ input'[k].type = "list" /\ input'[k].id = asked'.id
               /\ loop' # Idle => \E k \in DOMAIN input' :
                                    input'[k].type = "list" /\ input'[k].id = asked'.id
          <5> SUFFICES ASSUME asked # None
                       PROVE  /\ timer = FALSE
                              /\ \A m \in DOMAIN input' : input'[m].type = "change" =>
                                    \E k \in DOMAIN input' :
                                       k > m /\ input'[k].type = "list" /\ input'[k].id = asked.id
            BY <2>1
          <5>1. ASSUME NEW m \in DOMAIN input', input'[m].type = "change"
                PROVE  \E k \in DOMAIN input' :
                          k > m /\ input'[k].type = "list" /\ input'[k].id = asked.id
            <6>1. m + 1 \in DOMAIN input /\ input[m + 1].type = "change" /\ m \in Nat
              BY <2>2, <5>1
            <6>2. PICK k \in DOMAIN input :
                     k > m + 1 /\ input[k].type = "list" /\ input[k].id = asked.id
              BY <3>1, <6>1 DEF Quiet
            <6>3. k - 1 \in DOMAIN input' /\ input'[k - 1] = input[k] /\ k - 1 > m
              BY <2>2, <6>1, <6>2
            <6> QED
              BY <6>2, <6>3
          <5> QED
            BY <3>1, <5>1 DEF Quiet
        <4>2. shown' # None => /\ timer' = FALSE /\ loop' = Idle
                                /\ \A m \in DOMAIN input' : input'[m].type # "change"
          BY <1>0, <1>f, <2>1, <2>2, <2>3, <2>4, <3>1
             DEF Quiet, Matches, PickedPcs, RunPcs
        <4>3. \A k \in DOMAIN input' : input'[k].type = "run" =>
               \A m \in DOMAIN input' : m < k => input'[m].type # "change"
          BY <1>0, <1>f, <2>1, <2>2, <2>3, <2>4, <3>1
             DEF Quiet, Matches, PickedPcs, RunPcs
        <4>4. loop' # Idle => \A k \in DOMAIN input' : input'[k].type # "run"
          BY <1>0, <1>f, <2>1, <2>2, <2>3, <2>4, <3>1
             DEF Quiet, Matches, PickedPcs, RunPcs
        <4>5. loop' # Idle =>
               \A j \in Ids : tasks'[j].pc \in RunPcs => ~Matches(tasks[j].gen)'
          BY <1>0, <1>f, <2>1, <2>2, <2>3, <2>4, <3>1
             DEF Quiet, Matches, PickedPcs, RunPcs
        <4> QED
          BY <4>1, <4>2, <4>3, <4>4, <4>5 DEF Quiet
      <3>3. OfTheText'
        <4>1. \A g \in Ids :
               Matches(g)' /\ (Given(g) \/ (asked # None /\ asked.id = g))' =>
                  (cache'.items # None => cache'.items.snap = doc')
          BY <1>f, <2>1, <2>3, <2>4, <2>5, <3>1
             DEF OfTheText, Matches, PickedPcs, RunPcs
        <4>2. \A g \in Ids :
               Matches(g)' /\ (Given(g) \/ (asked # None /\ asked.id = g))' =>
                  (tasks'[g].pc \in {"asked", "listed"} => tasks'[g].item.snap = doc')
          BY <1>f, <2>1, <2>3, <2>4, <2>5, <3>1
             DEF OfTheText, Matches, PickedPcs, RunPcs
        <4>3. \A j \in Ids : tasks'[j].pc \in PickedPcs /\ Matches(tasks[j].gen)' =>
               tasks'[j].item.snap = doc'
          BY <1>f, <2>1, <2>3, <2>4, <3>1
             DEF OfTheText, Matches, PickedPcs, RunPcs
        <4> QED
          BY <4>1, <4>2, <4>3 DEF OfTheText
      <3> QED
        BY <3>2, <3>3
    <2>12. Results'
      BY <1>0, <1>f, <2>1, <2>2, <2>3, <2>4
         DEF Results, LensOnItsText, CommandFromShownReply, NoCommandAfterRefresh
    <2> QED
      BY <2>6, <2>7, <2>8, <2>9, <2>10, <2>11, <2>12 DEF Inv
  <1>13. ASSUME NEW i \in Ids, BeginList(i) PROVE Inv'
    <2>1. tasks[i].pc = "begin" /\ UNCHANGED <<tick, textChanged, timer, sent,
                                               lastId, asked, shown, running,
                                               applied, input, loop, refreshes, doc,
                                               epoch, stream, retired, command>>
      BY <1>13 DEF BeginList, editorVars, serverVars
    <2>2. /\ \A j \in Ids : j # i => tasks'[j] = tasks[j]
          /\ tasks'[i].gen = tasks[i].gen /\ tasks'[i].item = tasks[i].item
          /\ tasks'[i].pc \in {"ask", "done"}
          /\ tasks' \in [Ids -> Tasks]
      <3>1. tasks \in [Ids -> Tasks]
        BY <1>0, Types
      <3>2. PICK pc \in {"ask", "done"} : tasks' = [tasks EXCEPT ![i].pc = pc]
        BY <1>13 DEF BeginList, Refuse, Moved
      <3> QED
        BY <3>1, <3>2 DEF Tasks, Pcs
    <2>3. /\ output' \in Seq(Replies)
          /\ \A p \in DOMAIN output' :
                \/ p \in DOMAIN output /\ output'[p] = output[p]
                \/ output'[p].id = i /\ output'[p].type = "error"
      <3>1. output \in Seq(Replies)
        BY <1>0, Types
      <3>2. CASE output' = output
        BY <3>1, <3>2
      <3>3. CASE output' = Reply("error", i, 0)
        <4>1. [type |-> "error", id |-> i, on |-> 0] \in Replies
          BY Bounds DEF Replies
        <4> QED
          BY <1>0, <3>3, <4>1, Saying DEF Reply
      <3> QED
        BY <1>13, <3>2, <3>3 DEF BeginList, Refuse
    <2>4. /\ \/ cache' = cache /\ tasks'[i].pc = "done"
             \/ /\ cache'.gen = i /\ cache'.items = None /\ cache.gen < i
          /\ cache' \in [gen : 0 .. MaxId, live : BOOLEAN, items : {None} \union Items]
          /\ cache.gen \in Nat /\ i \in Nat /\ cache'.gen \in Nat
      <3>0. /\ tasks[i].gen = i /\ i \in Nat /\ cache.gen \in Nat /\ i \in 0 .. MaxId
            /\ cache \in [gen : 0 .. MaxId, live : BOOLEAN, items : {None} \union Items]
        BY <1>0, <2>1, Types, Bounds DEF Lists, ListPcs
      <3>1. CASE MayBegin(tasks[i].gen)
        <4>1. cache' = [gen |-> i, live |-> TRUE, items |-> None] /\ cache.gen < i
          BY <1>13, <3>0, <3>1 DEF BeginList, MayBegin
        <4> QED
          BY <3>0, <4>1
      <3>2. CASE ~MayBegin(tasks[i].gen)
        <4>1. cache' = cache /\ tasks' = [tasks EXCEPT ![i].pc = "done"]
          BY <1>13, <3>2 DEF BeginList, Refuse, Moved
        <4>2. tasks \in [Ids -> Tasks]
          BY <1>0, Types
        <4>3. tasks'[i].pc = "done"
          BY <4>1, <4>2 DEF Tasks
        <4> QED
          BY <3>0, <4>1, <4>3
      <3> QED
        BY <3>1, <3>2
    <2>5. /\ \A j \in Ids : tasks'[j].gen = tasks[j].gen
          /\ \A j \in Ids : tasks[j].pc # "none" <=> tasks'[j].pc # "none"
          /\ \A p \in DOMAIN output : output[p].id \in Ids
      <3>1. \A j \in Ids : tasks[j].pc # "none" <=> tasks'[j].pc # "none"
        BY <2>1, <2>2
      <3> QED
        BY <1>0, <2>2, <3>1, Replied
    <2>6. \A j \in Ids : tasks[j].pc \in {"listed"} \union RunPcs =>
             tasks[j].gen \in Ids /\ tasks[j].gen \in Nat /\ tasks[j].gen <= cache.gen
      <3> SUFFICES ASSUME NEW j \in Ids, tasks[j].pc \in {"listed"} \union RunPcs
                   PROVE  tasks[j].gen \in Ids /\ tasks[j].gen <= cache.gen
        BY Bounds
      <3>1. CASE tasks[j].pc = "listed"
        BY <1>0, <3>1 DEF Lists, ListPcs
      <3>2. CASE tasks[j].pc \in RunPcs
        <4>1. tasks[j].gen # 0 /\ Given(tasks[j].gen)
          BY <1>0, <3>2 DEF Lists, Given
        <4>2. tasks[j].gen \in Ids
          BY <1>0, <4>1, TaskTypes, Bounds
        <4> QED
          BY <1>0, <4>1, <4>2 DEF Lists
      <3> QED
        BY <3>1, <3>2
    <2>7. \A j \in Ids : tasks'[j].pc \in {"listed"} \union RunPcs =>
             /\ tasks'[j] = tasks[j]
             /\ Matches(tasks[j].gen)' => Matches(tasks[j].gen)
      BY <2>1, <2>2, <2>4, <2>6 DEF Matches, RunPcs, PickedPcs
    <2>8. \A g \in Ids : Given(g)' => Given(g)
      BY <1>f, <2>1, <2>2, <2>3, <2>4, <2>5, <2>6, <2>7 DEF Given, RunPcs, PickedPcs
    <2>9. Shapes'
      BY <1>0, <1>f, <2>1, <2>2, <2>3, <2>4, <2>5, <2>6, <2>7, Types,
         Typed
    <2>10. Ordered'
      <3>1. \A k \in DOMAIN input' : input'[k].type # "change" =>
             /\ input'[k].id \in 1 .. lastId' /\ input'[k].gen \in Ids
             /\ input'[k].type = "list" => input'[k].gen = input'[k].id
             /\ cache'.gen < input'[k].id
        BY <1>0, <2>1, <2>2, <2>3, <2>4, <2>5, <2>6, <2>7, Bounds DEF Ordered
      <3>2. \A k \in DOMAIN input' : input'[k].type # "change" =>
             \A j \in Ids : tasks'[j].pc # "none" => j < input'[k].id
        BY <1>0, <2>1, <2>2, <2>3, <2>4, <2>5, <2>6, <2>7, Bounds DEF Ordered
      <3>3. \A k, m \in DOMAIN input' :
             input'[k].type # "change" /\ m < k /\ input'[m].type # "change" =>
                input'[m].id < input'[k].id
        BY <1>0, <2>1, <2>2, <2>3, <2>4, <2>5, <2>6, <2>7, Bounds DEF Ordered
      <3>4. /\ \A j \in Ids : tasks'[j].pc # "none" => j <= lastId'
            /\ cache'.gen <= lastId'
            /\ asked' # None => asked'.id <= lastId'
        BY <1>0, <2>1, <2>2, <2>3, <2>4, <2>5, <2>6, <2>7, Bounds DEF Ordered
      <3>5. \A p \in DOMAIN output' :
             /\ tasks'[output'[p].id].pc # "none"
             /\ output'[p].type = "list" => output'[p].id <= cache'.gen
        BY <1>0, <2>1, <2>2, <2>3, <2>4, <2>5, <2>6, <2>7, Bounds DEF Ordered
      <3> QED
        BY <3>1, <3>2, <3>3, <3>4, <3>5 DEF Ordered
    <2>11. Lists'
      <3>1. \A j \in Ids : tasks'[j].pc \in ListPcs => tasks'[j].gen = j
        BY <1>0, <2>1, <2>2, <2>3, <2>4, <2>5, <2>6, <2>7, Bounds
           DEF Lists, ListPcs, PickedPcs, RunPcs
      <3>2. \A j \in Ids : tasks'[j].pc \in {"ask", "asked", "listed"} => j <= cache'.gen
        BY <1>0, <2>1, <2>2, <2>3, <2>4, <2>5, <2>6, <2>7, Bounds
           DEF Lists, ListPcs, PickedPcs, RunPcs
      <3>3. \A j \in Ids : tasks'[j].pc \in {"asked", "listed"} => tasks'[j].item.list = j
        BY <1>0, <2>1, <2>2, <2>3, <2>4, <2>5, <2>6, <2>7, Bounds
           DEF Lists, ListPcs, PickedPcs, RunPcs
      <3>4. \A j \in Ids : tasks'[j].pc \in RunPcs => tasks'[j].gen # 0
        BY <1>0, <2>1, <2>2, <2>3, <2>4, <2>5, <2>6, <2>7, Bounds
           DEF Lists, ListPcs, PickedPcs, RunPcs
      <3>5. \A j \in Ids : tasks'[j].pc \in PickedPcs => tasks'[j].item.list = tasks'[j].gen
        BY <1>0, <2>1, <2>2, <2>3, <2>4, <2>5, <2>6, <2>7, Bounds
           DEF Lists, ListPcs, PickedPcs, RunPcs
      <3>6. cache'.items # None => cache'.live /\ cache'.items.list = cache'.gen
        BY <1>0, <2>1, <2>2, <2>3, <2>4, <2>5, <2>6, <2>7, Bounds
           DEF Lists, ListPcs, PickedPcs, RunPcs
      <3>7. \A g \in Ids : Given(g)' => g <= cache'.gen
        BY <1>0, <2>1, <2>2, <2>3, <2>4, <2>5, <2>6, <2>7, <2>8, Bounds
           DEF Lists, ListPcs, PickedPcs, RunPcs
      <3> QED
        BY <3>1, <3>2, <3>3, <3>4, <3>5, <3>6, <3>7 DEF Lists
    <2>12. Refreshes'
      <3>1. refreshes' <= retired' /\ retired' <= epoch'
        BY <1>0, <2>1, <2>2, <2>3, <2>4, <2>5, <2>6, <2>7 DEF Refreshes
      <3>2. \A n \in DOMAIN stream' : stream'[n].epoch <= epoch'
        BY <1>0, <2>1, <2>2, <2>3, <2>4, <2>5, <2>6, <2>7 DEF Refreshes
      <3>3. \A n \in DOMAIN stream' : stream'[n].type = "answer" =>
             /\ stream'[n].id \in Ids /\ tasks'[stream'[n].id].pc # "none"
             /\ stream'[n].epoch >= retired'
        BY <1>0, <2>1, <2>2, <2>3, <2>4, <2>5, <2>6, <2>7 DEF Refreshes
      <3>4. \A n \in DOMAIN stream' : stream'[n].type = "refresh" => stream'[n].epoch > retired'
        BY <1>0, <2>1, <2>2, <2>3, <2>4, <2>5, <2>6, <2>7 DEF Refreshes
      <3>5. \A n, m \in DOMAIN stream' : m < n =>
             /\ stream'[m].epoch <= stream'[n].epoch
             /\ stream'[n].type = "refresh" => stream'[m].epoch < stream'[n].epoch
        BY <1>0, <2>1, <2>2, <2>3, <2>4, <2>5, <2>6, <2>7 DEF Refreshes
      <3> QED
        BY <3>1, <3>2, <3>3, <3>4, <3>5 DEF Refreshes
    <2>13. Fresh'
      <3>1. cache'.live /\ cache'.items # None => cache'.items.epoch >= retired'
        BY <1>0, <2>1, <2>2, <2>3, <2>4, <2>5, <2>6, <2>7
           DEF Fresh, Matches, ListPcs, PickedPcs, RunPcs
      <3>2. \A j \in Ids : tasks'[j].pc \in {"listed"} \union PickedPcs
                         /\ Matches(tasks[j].gen)' => tasks'[j].item.epoch >= retired'
        BY <1>0, <2>1, <2>2, <2>7 DEF Fresh, Matches, PickedPcs, RunPcs
      <3> QED
        BY <3>1, <3>2 DEF Fresh
    <2>14. LensInv'
      <3> SUFFICES ASSUME feature = "lens" PROVE Quiet' /\ OfTheText'
        BY <1>f DEF LensInv
      <3>1. Quiet /\ OfTheText
        BY <1>0 DEF LensInv
      <3>2. Quiet'
        <4>1. asked' # None =>
               /\ timer' = FALSE
               /\ \A m \in DOMAIN input' : input'[m].type = "change" =>
                     \E k \in DOMAIN input' :
                        k > m /\ input'[k].type = "list" /\ input'[k].id = asked'.id
               /\ loop' # Idle => \E k \in DOMAIN input' :
                                    input'[k].type = "list" /\ input'[k].id = asked'.id
          BY <1>0, <2>1, <2>2, <2>3, <2>4, <2>5, <2>6, <2>7, <3>1
             DEF Quiet, Matches, PickedPcs, RunPcs
        <4>2. shown' # None => /\ timer' = FALSE /\ loop' = Idle
                                /\ \A m \in DOMAIN input' : input'[m].type # "change"
          BY <1>0, <2>1, <2>2, <2>3, <2>4, <2>5, <2>6, <2>7, <3>1
             DEF Quiet, Matches, PickedPcs, RunPcs
        <4>3. \A k \in DOMAIN input' : input'[k].type = "run" =>
               \A m \in DOMAIN input' : m < k => input'[m].type # "change"
          BY <1>0, <2>1, <2>2, <2>3, <2>4, <2>5, <2>6, <2>7, <3>1
             DEF Quiet, Matches, PickedPcs, RunPcs
        <4>4. loop' # Idle => \A k \in DOMAIN input' : input'[k].type # "run"
          BY <1>0, <2>1, <2>2, <2>3, <2>4, <2>5, <2>6, <2>7, <3>1
             DEF Quiet, Matches, PickedPcs, RunPcs
        <4>5. loop' # Idle =>
               \A j \in Ids : tasks'[j].pc \in RunPcs => ~Matches(tasks[j].gen)'
          BY <1>0, <2>1, <2>2, <2>7, <3>1 DEF Quiet, Matches, PickedPcs, RunPcs
        <4> QED
          BY <4>1, <4>2, <4>3, <4>4, <4>5 DEF Quiet
      <3>3. OfTheText'
        <4>1. \A g \in Ids :
               Matches(g)' /\ (Given(g) \/ (asked # None /\ asked.id = g))' =>
                  (cache'.items # None => cache'.items.snap = doc')
          BY <1>0, <2>1, <2>2, <2>3, <2>4, <2>5, <2>6, <2>7, <2>8, <3>1
             DEF OfTheText, Matches, PickedPcs, RunPcs
        <4>2. \A g \in Ids :
               Matches(g)' /\ (Given(g) \/ (asked # None /\ asked.id = g))' =>
                  (tasks'[g].pc \in {"asked", "listed"} => tasks'[g].item.snap = doc')
          BY <1>0, <2>1, <2>2, <2>3, <2>4, <2>5, <2>6, <2>7, <2>8, <3>1
             DEF OfTheText, Matches, PickedPcs, RunPcs
        <4>3. \A j \in Ids : tasks'[j].pc \in PickedPcs /\ Matches(tasks[j].gen)' =>
               tasks'[j].item.snap = doc'
          BY <1>0, <2>1, <2>2, <2>7, <3>1 DEF OfTheText, Matches, PickedPcs, RunPcs
        <4> QED
          BY <4>1, <4>2, <4>3 DEF OfTheText
      <3> QED
        BY <3>2, <3>3
    <2>15. Results'
      BY <1>0, <1>f, <2>1, <2>2, <2>3, <2>4, <2>5, <2>6, <2>7
         DEF Results, LensOnItsText, CommandFromShownReply, NoCommandAfterRefresh
    <2> QED
      BY <2>9, <2>10, <2>11, <2>12, <2>13, <2>14, <2>15 DEF Inv
  <1>14. ASSUME NEW i \in Ids, AskServer(i) PROVE Inv'
    <2>1. tasks[i].pc = "ask" /\ UNCHANGED <<tick, textChanged, timer, sent, lastId,
                                             asked, shown, running, applied, input,
                                             loop, refreshes, doc, epoch, stream,
                                             retired, command>>
      BY <1>14 DEF AskServer, editorVars, serverVars
    <2>2. /\ \A j \in Ids : j # i => tasks'[j] = tasks[j]
          /\ tasks'[i].gen = tasks[i].gen /\ tasks'[i].item = [list |-> i, snap |-> doc, epoch |-> 0]
          /\ tasks'[i].pc \in {"asked"}
          /\ tasks' \in [Ids -> Tasks]
      <3>1. tasks \in [Ids -> Tasks] /\ doc \in 0 .. MaxTick
        BY <1>0, Types
      <3>2. tasks' = [tasks EXCEPT ![i].pc = "asked",
                                   ![i].item = [list |-> i, snap |-> doc, epoch |-> 0]]
        BY <1>14 DEF AskServer
      <3>3. [list |-> i, snap |-> doc, epoch |-> 0] \in Items
        BY <3>1, Bounds DEF Items
      <3> QED
        BY <3>1, <3>2, <3>3 DEF Tasks, Pcs
    <2>3. output' = output /\ output' \in Seq(Replies)
      BY <1>0, <1>14, Types DEF AskServer
    <2>4. UNCHANGED cache
      BY <1>14 DEF AskServer
    <2>5. /\ \A j \in Ids : tasks'[j].gen = tasks[j].gen
          /\ \A j \in Ids : tasks[j].pc # "none" <=> tasks'[j].pc # "none"
          /\ \A p \in DOMAIN output : output[p].id \in Ids
      <3>1. \A j \in Ids : tasks[j].pc # "none" <=> tasks'[j].pc # "none"
        BY <2>1, <2>2
      <3> QED
        BY <1>0, <2>2, <3>1, Replied
    <2>6. \A g \in Ids : Given(g)' => Given(g)
      BY <1>f, <2>1, <2>2, <2>3, <2>4, <2>5 DEF Given, RunPcs, PickedPcs
    <2>7. Shapes'
      BY <1>0, <1>f, <2>1, <2>2, <2>3, <2>4, <2>5, Types, Typed
    <2>8. Ordered'
      <3>1. \A k \in DOMAIN input' : input'[k].type # "change" =>
             /\ input'[k].id \in 1 .. lastId' /\ input'[k].gen \in Ids
             /\ input'[k].type = "list" => input'[k].gen = input'[k].id
             /\ cache'.gen < input'[k].id
        BY <1>0, <2>1, <2>2, <2>3, <2>4, <2>5, Bounds DEF Ordered
      <3>2. \A k \in DOMAIN input' : input'[k].type # "change" =>
             \A j \in Ids : tasks'[j].pc # "none" => j < input'[k].id
        BY <1>0, <2>1, <2>2, <2>3, <2>4, <2>5, Bounds DEF Ordered
      <3>3. \A k, m \in DOMAIN input' :
             input'[k].type # "change" /\ m < k /\ input'[m].type # "change" =>
                input'[m].id < input'[k].id
        BY <1>0, <2>1, <2>2, <2>3, <2>4, <2>5, Bounds DEF Ordered
      <3>4. /\ \A j \in Ids : tasks'[j].pc # "none" => j <= lastId'
            /\ cache'.gen <= lastId'
            /\ asked' # None => asked'.id <= lastId'
        BY <1>0, <2>1, <2>2, <2>3, <2>4, <2>5, Bounds DEF Ordered
      <3>5. \A p \in DOMAIN output' :
             /\ tasks'[output'[p].id].pc # "none"
             /\ output'[p].type = "list" => output'[p].id <= cache'.gen
        BY <1>0, <2>1, <2>2, <2>3, <2>4, <2>5, Bounds DEF Ordered
      <3> QED
        BY <3>1, <3>2, <3>3, <3>4, <3>5 DEF Ordered
    <2>9. Lists'
      <3>1. \A j \in Ids : tasks'[j].pc \in ListPcs => tasks'[j].gen = j
        BY <1>0, <2>1, <2>2, <2>3, <2>4, <2>5, Bounds
           DEF Lists, ListPcs, PickedPcs, RunPcs
      <3>2. \A j \in Ids : tasks'[j].pc \in {"ask", "asked", "listed"} => j <= cache'.gen
        BY <1>0, <2>1, <2>2, <2>3, <2>4, <2>5, Bounds
           DEF Lists, ListPcs, PickedPcs, RunPcs
      <3>3. \A j \in Ids : tasks'[j].pc \in {"asked", "listed"} => tasks'[j].item.list = j
        BY <1>0, <2>1, <2>2, <2>3, <2>4, <2>5, Bounds
           DEF Lists, ListPcs, PickedPcs, RunPcs
      <3>4. \A j \in Ids : tasks'[j].pc \in RunPcs => tasks'[j].gen # 0
        BY <1>0, <2>1, <2>2, <2>3, <2>4, <2>5, Bounds
           DEF Lists, ListPcs, PickedPcs, RunPcs
      <3>5. \A j \in Ids : tasks'[j].pc \in PickedPcs => tasks'[j].item.list = tasks'[j].gen
        BY <1>0, <2>1, <2>2, <2>3, <2>4, <2>5, Bounds
           DEF Lists, ListPcs, PickedPcs, RunPcs
      <3>6. cache'.items # None => cache'.live /\ cache'.items.list = cache'.gen
        BY <1>0, <2>1, <2>2, <2>3, <2>4, <2>5, Bounds
           DEF Lists, ListPcs, PickedPcs, RunPcs
      <3>7. \A g \in Ids : Given(g)' => g <= cache'.gen
        BY <1>0, <2>1, <2>2, <2>3, <2>4, <2>5, <2>6, Bounds
           DEF Lists, ListPcs, PickedPcs, RunPcs
      <3> QED
        BY <3>1, <3>2, <3>3, <3>4, <3>5, <3>6, <3>7 DEF Lists
    <2>10. Refreshes'
      <3>1. refreshes' <= retired' /\ retired' <= epoch'
        BY <1>0, <2>1, <2>2, <2>3, <2>4, <2>5 DEF Refreshes
      <3>2. \A n \in DOMAIN stream' : stream'[n].epoch <= epoch'
        BY <1>0, <2>1, <2>2, <2>3, <2>4, <2>5 DEF Refreshes
      <3>3. \A n \in DOMAIN stream' : stream'[n].type = "answer" =>
             /\ stream'[n].id \in Ids /\ tasks'[stream'[n].id].pc # "none"
             /\ stream'[n].epoch >= retired'
        BY <1>0, <2>1, <2>2, <2>3, <2>4, <2>5 DEF Refreshes
      <3>4. \A n \in DOMAIN stream' : stream'[n].type = "refresh" => stream'[n].epoch > retired'
        BY <1>0, <2>1, <2>2, <2>3, <2>4, <2>5 DEF Refreshes
      <3>5. \A n, m \in DOMAIN stream' : m < n =>
             /\ stream'[m].epoch <= stream'[n].epoch
             /\ stream'[n].type = "refresh" => stream'[m].epoch < stream'[n].epoch
        BY <1>0, <2>1, <2>2, <2>3, <2>4, <2>5 DEF Refreshes
      <3> QED
        BY <3>1, <3>2, <3>3, <3>4, <3>5 DEF Refreshes
    <2>11. Fresh'
      <3>1. cache'.live /\ cache'.items # None => cache'.items.epoch >= retired'
        BY <1>0, <2>1, <2>2, <2>3, <2>4, <2>5
           DEF Fresh, Matches, ListPcs, PickedPcs, RunPcs
      <3>2. \A j \in Ids : tasks'[j].pc \in {"listed"} \union PickedPcs
                         /\ Matches(tasks[j].gen)' => tasks'[j].item.epoch >= retired'
        BY <1>0, <2>1, <2>2, <2>3, <2>4, <2>5
           DEF Fresh, Matches, ListPcs, PickedPcs, RunPcs
      <3> QED
        BY <3>1, <3>2 DEF Fresh
    <2>12. LensInv'
      <3> SUFFICES ASSUME feature = "lens" PROVE Quiet' /\ OfTheText'
        BY <1>f DEF LensInv
      <3>1. Quiet /\ OfTheText
        BY <1>0 DEF LensInv
      <3>2. Quiet'
        <4>1. asked' # None =>
               /\ timer' = FALSE
               /\ \A m \in DOMAIN input' : input'[m].type = "change" =>
                     \E k \in DOMAIN input' :
                        k > m /\ input'[k].type = "list" /\ input'[k].id = asked'.id
               /\ loop' # Idle => \E k \in DOMAIN input' :
                                    input'[k].type = "list" /\ input'[k].id = asked'.id
          BY <1>0, <2>1, <2>2, <2>3, <2>4, <2>5, <3>1
             DEF Quiet, Matches, PickedPcs, RunPcs
        <4>2. shown' # None => /\ timer' = FALSE /\ loop' = Idle
                                /\ \A m \in DOMAIN input' : input'[m].type # "change"
          BY <1>0, <2>1, <2>2, <2>3, <2>4, <2>5, <3>1
             DEF Quiet, Matches, PickedPcs, RunPcs
        <4>3. \A k \in DOMAIN input' : input'[k].type = "run" =>
               \A m \in DOMAIN input' : m < k => input'[m].type # "change"
          BY <1>0, <2>1, <2>2, <2>3, <2>4, <2>5, <3>1
             DEF Quiet, Matches, PickedPcs, RunPcs
        <4>4. loop' # Idle => \A k \in DOMAIN input' : input'[k].type # "run"
          BY <1>0, <2>1, <2>2, <2>3, <2>4, <2>5, <3>1
             DEF Quiet, Matches, PickedPcs, RunPcs
        <4>5. loop' # Idle =>
               \A j \in Ids : tasks'[j].pc \in RunPcs => ~Matches(tasks[j].gen)'
          BY <1>0, <2>1, <2>2, <2>3, <2>4, <2>5, <3>1
             DEF Quiet, Matches, PickedPcs, RunPcs
        <4> QED
          BY <4>1, <4>2, <4>3, <4>4, <4>5 DEF Quiet
      <3>3. OfTheText'
        <4>1. \A g \in Ids :
               Matches(g)' /\ (Given(g) \/ (asked # None /\ asked.id = g))' =>
                  (cache'.items # None => cache'.items.snap = doc')
          BY <1>0, <2>1, <2>2, <2>3, <2>4, <2>5, <2>6, <3>1
             DEF OfTheText, Matches, PickedPcs, RunPcs
        <4>2. \A g \in Ids :
               Matches(g)' /\ (Given(g) \/ (asked # None /\ asked.id = g))' =>
                  (tasks'[g].pc \in {"asked", "listed"} => tasks'[g].item.snap = doc')
          BY <1>0, <2>1, <2>2, <2>3, <2>4, <2>5, <2>6, <3>1
             DEF OfTheText, Matches, PickedPcs, RunPcs
        <4>3. \A j \in Ids : tasks'[j].pc \in PickedPcs /\ Matches(tasks[j].gen)' =>
               tasks'[j].item.snap = doc'
          BY <1>0, <2>1, <2>2, <2>3, <2>4, <2>5, <2>6, <3>1
             DEF OfTheText, Matches, PickedPcs, RunPcs
        <4> QED
          BY <4>1, <4>2, <4>3 DEF OfTheText
      <3> QED
        BY <3>2, <3>3
    <2>13. Results'
      BY <1>0, <1>f, <2>1, <2>2, <2>3, <2>4, <2>5
         DEF Results, LensOnItsText, CommandFromShownReply, NoCommandAfterRefresh
    <2> QED
      BY <2>7, <2>8, <2>9, <2>10, <2>11, <2>12, <2>13 DEF Inv
  <1>15. ASSUME NEW i \in Ids, StoreList(i) PROVE Inv'
    <2>1. tasks[i].pc = "listed" /\ UNCHANGED <<tick, textChanged, timer, sent,
                                                lastId, asked, shown, running,
                                                applied, input, loop, refreshes,
                                                doc, epoch, stream, retired,
                                                command>>
      BY <1>15 DEF StoreList, editorVars, serverVars
    <2>2. /\ \A j \in Ids : j # i => tasks'[j] = tasks[j]
          /\ tasks'[i].gen = tasks[i].gen /\ tasks'[i].item = tasks[i].item
          /\ tasks'[i].pc \in {"done"}
          /\ tasks' \in [Ids -> Tasks]
      <3>1. tasks \in [Ids -> Tasks]
        BY <1>0, Types
      <3>2. PICK pc \in {"done"} : tasks' = [tasks EXCEPT ![i].pc = pc]
        BY <1>15 DEF StoreList, Refuse, Moved
      <3> QED
        BY <3>1, <3>2 DEF Tasks, Pcs
    <2>3. /\ output' \in Seq(Replies)
          /\ \A p \in DOMAIN output' :
                \/ p \in DOMAIN output /\ output'[p] = output[p]
                \/ output'[p].id = i /\ output'[p].type \in {"list", "error"}
                   /\ (output'[p].type = "list" => Matches(tasks[i].gen))
      <3>1. output \in Seq(Replies)
        BY <1>0, Types
      <3>2. CASE output' = output
        BY <3>1, <3>2
      <3>3. CASE output' = Reply("error", i, 0)
        <4>1. [type |-> "error", id |-> i, on |-> 0] \in Replies
          BY Bounds DEF Replies
        <4> QED
          BY <1>0, <3>3, <4>1, Saying DEF Reply
      <3>4. CASE output' = Reply("list", i, 0) /\ Matches(tasks[i].gen)
        <4>1. [type |-> "list", id |-> i, on |-> 0] \in Replies
          BY Bounds DEF Replies
        <4> QED
          BY <1>0, <3>4, <4>1, Saying DEF Reply
      <3> QED
        BY <1>15, <3>2, <3>3, <3>4 DEF StoreList, Refuse
    <2>4. /\ cache'.gen = cache.gen /\ cache'.live = cache.live
          /\ \/ cache' = cache
             \/ Matches(tasks[i].gen) /\ cache'.items = tasks[i].item
          /\ cache' \in [gen : 0 .. MaxId, live : BOOLEAN, items : {None} \union Items]
      BY <1>0, <1>15, Types, TaskTypes DEF StoreList
    <2>5. /\ \A j \in Ids : tasks'[j].gen = tasks[j].gen
          /\ \A j \in Ids : tasks[j].pc # "none" <=> tasks'[j].pc # "none"
          /\ \A p \in DOMAIN output : output[p].id \in Ids
      <3>1. \A j \in Ids : tasks[j].pc # "none" <=> tasks'[j].pc # "none"
        BY <2>1, <2>2
      <3> QED
        BY <1>0, <2>2, <3>1, Replied
    <2>6. tasks[i].gen = i /\ tasks[i].item.list = i /\ (Matches(i) <=> cache.gen = i /\ cache.live)
          /\ cache.gen \in Nat /\ i \in Nat
      <3>1. tasks[i].gen = i /\ tasks[i].item.list = i
        BY <1>0, <2>1 DEF Lists, ListPcs
      <3>2. cache.gen \in Nat /\ i \in Nat
        BY <1>0, Numbers, Bounds
      <3> QED
        BY <3>1, <3>2 DEF Matches
    <2>7. \A g \in Ids : Given(g)' => Given(g)
      BY <1>f, <2>1, <2>2, <2>3, <2>4, <2>5, <2>6 DEF Given, RunPcs, PickedPcs
    <2>8. Shapes'
      BY <1>0, <1>f, <2>1, <2>2, <2>3, <2>4, <2>5, <2>6, Types, Typed
    <2>9. Ordered'
      <3>1. \A k \in DOMAIN input' : input'[k].type # "change" =>
             /\ input'[k].id \in 1 .. lastId' /\ input'[k].gen \in Ids
             /\ input'[k].type = "list" => input'[k].gen = input'[k].id
             /\ cache'.gen < input'[k].id
        BY <1>0, <2>1, <2>2, <2>3, <2>4, <2>5, <2>6, Bounds DEF Ordered
      <3>2. \A k \in DOMAIN input' : input'[k].type # "change" =>
             \A j \in Ids : tasks'[j].pc # "none" => j < input'[k].id
        BY <1>0, <2>1, <2>2, <2>3, <2>4, <2>5, <2>6, Bounds DEF Ordered
      <3>3. \A k, m \in DOMAIN input' :
             input'[k].type # "change" /\ m < k /\ input'[m].type # "change" =>
                input'[m].id < input'[k].id
        BY <1>0, <2>1, <2>2, <2>3, <2>4, <2>5, <2>6, Bounds DEF Ordered
      <3>4. /\ \A j \in Ids : tasks'[j].pc # "none" => j <= lastId'
            /\ cache'.gen <= lastId'
            /\ asked' # None => asked'.id <= lastId'
        BY <1>0, <2>1, <2>2, <2>3, <2>4, <2>5, <2>6, Bounds DEF Ordered
      <3>5. \A p \in DOMAIN output' :
             /\ tasks'[output'[p].id].pc # "none"
             /\ output'[p].type = "list" => output'[p].id <= cache'.gen
        <4>1. \A p \in DOMAIN output :
                 /\ tasks'[output[p].id].pc # "none"
                 /\ output[p].type = "list" => output[p].id <= cache'.gen
          BY <1>0, <2>4, <2>5 DEF Ordered
        <4>2. tasks'[i].pc # "none" /\ (Matches(tasks[i].gen) => i <= cache'.gen)
          BY <2>2, <2>4, <2>6 DEF Matches
        <4> QED
          BY <2>3, <4>1, <4>2
      <3> QED
        BY <3>1, <3>2, <3>3, <3>4, <3>5 DEF Ordered
    <2>10. Lists'
      <3>1. \A j \in Ids : tasks'[j].pc \in ListPcs => tasks'[j].gen = j
        BY <1>0, <2>1, <2>2, <2>3, <2>4, <2>5, <2>6, Bounds
           DEF Lists, ListPcs, PickedPcs, RunPcs
      <3>2. \A j \in Ids : tasks'[j].pc \in {"ask", "asked", "listed"} => j <= cache'.gen
        BY <1>0, <2>1, <2>2, <2>3, <2>4, <2>5, <2>6, Bounds
           DEF Lists, ListPcs, PickedPcs, RunPcs
      <3>3. \A j \in Ids : tasks'[j].pc \in {"asked", "listed"} => tasks'[j].item.list = j
        BY <1>0, <2>1, <2>2, <2>3, <2>4, <2>5, <2>6, Bounds
           DEF Lists, ListPcs, PickedPcs, RunPcs
      <3>4. \A j \in Ids : tasks'[j].pc \in RunPcs => tasks'[j].gen # 0
        BY <1>0, <2>1, <2>2, <2>3, <2>4, <2>5, <2>6, Bounds
           DEF Lists, ListPcs, PickedPcs, RunPcs
      <3>5. \A j \in Ids : tasks'[j].pc \in PickedPcs => tasks'[j].item.list = tasks'[j].gen
        BY <1>0, <2>1, <2>2, <2>3, <2>4, <2>5, <2>6, Bounds
           DEF Lists, ListPcs, PickedPcs, RunPcs
      <3>6. cache'.items # None => cache'.live /\ cache'.items.list = cache'.gen
        BY <1>0, <2>1, <2>2, <2>3, <2>4, <2>5, <2>6, Bounds
           DEF Lists, ListPcs, PickedPcs, RunPcs
      <3>7. \A g \in Ids : Given(g)' => g <= cache'.gen
        BY <1>0, <2>1, <2>2, <2>3, <2>4, <2>5, <2>6, <2>7, Bounds
           DEF Lists, ListPcs, PickedPcs, RunPcs
      <3> QED
        BY <3>1, <3>2, <3>3, <3>4, <3>5, <3>6, <3>7 DEF Lists
    <2>11. Refreshes'
      <3>1. refreshes' <= retired' /\ retired' <= epoch'
        BY <1>0, <2>1, <2>2, <2>3, <2>4, <2>5, <2>6 DEF Refreshes
      <3>2. \A n \in DOMAIN stream' : stream'[n].epoch <= epoch'
        BY <1>0, <2>1, <2>2, <2>3, <2>4, <2>5, <2>6 DEF Refreshes
      <3>3. \A n \in DOMAIN stream' : stream'[n].type = "answer" =>
             /\ stream'[n].id \in Ids /\ tasks'[stream'[n].id].pc # "none"
             /\ stream'[n].epoch >= retired'
        BY <1>0, <2>1, <2>2, <2>3, <2>4, <2>5, <2>6 DEF Refreshes
      <3>4. \A n \in DOMAIN stream' : stream'[n].type = "refresh" => stream'[n].epoch > retired'
        BY <1>0, <2>1, <2>2, <2>3, <2>4, <2>5, <2>6 DEF Refreshes
      <3>5. \A n, m \in DOMAIN stream' : m < n =>
             /\ stream'[m].epoch <= stream'[n].epoch
             /\ stream'[n].type = "refresh" => stream'[m].epoch < stream'[n].epoch
        BY <1>0, <2>1, <2>2, <2>3, <2>4, <2>5, <2>6 DEF Refreshes
      <3> QED
        BY <3>1, <3>2, <3>3, <3>4, <3>5 DEF Refreshes
    <2>12. Fresh'
      <3>1. cache'.live /\ cache'.items # None => cache'.items.epoch >= retired'
        BY <1>0, <2>1, <2>2, <2>3, <2>4, <2>5, <2>6
           DEF Fresh, Matches, ListPcs, PickedPcs, RunPcs
      <3>2. \A j \in Ids : tasks'[j].pc \in {"listed"} \union PickedPcs
                         /\ Matches(tasks[j].gen)' => tasks'[j].item.epoch >= retired'
        BY <1>0, <2>1, <2>2, <2>3, <2>4, <2>5, <2>6
           DEF Fresh, Matches, ListPcs, PickedPcs, RunPcs
      <3> QED
        BY <3>1, <3>2 DEF Fresh
    <2>13. LensInv'
      <3> SUFFICES ASSUME feature = "lens" PROVE Quiet' /\ OfTheText'
        BY <1>f DEF LensInv
      <3>1. Quiet /\ OfTheText
        BY <1>0 DEF LensInv
      <3>2. Quiet'
        <4>1. asked' # None =>
               /\ timer' = FALSE
               /\ \A m \in DOMAIN input' : input'[m].type = "change" =>
                     \E k \in DOMAIN input' :
                        k > m /\ input'[k].type = "list" /\ input'[k].id = asked'.id
               /\ loop' # Idle => \E k \in DOMAIN input' :
                                    input'[k].type = "list" /\ input'[k].id = asked'.id
          BY <1>0, <2>1, <2>2, <2>3, <2>4, <2>5, <2>6, <3>1
             DEF Quiet, Matches, PickedPcs, RunPcs
        <4>2. shown' # None => /\ timer' = FALSE /\ loop' = Idle
                                /\ \A m \in DOMAIN input' : input'[m].type # "change"
          BY <1>0, <2>1, <2>2, <2>3, <2>4, <2>5, <2>6, <3>1
             DEF Quiet, Matches, PickedPcs, RunPcs
        <4>3. \A k \in DOMAIN input' : input'[k].type = "run" =>
               \A m \in DOMAIN input' : m < k => input'[m].type # "change"
          BY <1>0, <2>1, <2>2, <2>3, <2>4, <2>5, <2>6, <3>1
             DEF Quiet, Matches, PickedPcs, RunPcs
        <4>4. loop' # Idle => \A k \in DOMAIN input' : input'[k].type # "run"
          BY <1>0, <2>1, <2>2, <2>3, <2>4, <2>5, <2>6, <3>1
             DEF Quiet, Matches, PickedPcs, RunPcs
        <4>5. loop' # Idle =>
               \A j \in Ids : tasks'[j].pc \in RunPcs => ~Matches(tasks[j].gen)'
          BY <1>0, <2>1, <2>2, <2>3, <2>4, <2>5, <2>6, <3>1
             DEF Quiet, Matches, PickedPcs, RunPcs
        <4> QED
          BY <4>1, <4>2, <4>3, <4>4, <4>5 DEF Quiet
      <3>3. OfTheText'
        <4>1. \A g \in Ids :
               Matches(g)' /\ (Given(g) \/ (asked # None /\ asked.id = g))' =>
                  (cache'.items # None => cache'.items.snap = doc')
          BY <1>0, <2>1, <2>2, <2>3, <2>4, <2>5, <2>6, <2>7, <3>1
             DEF OfTheText, Matches, PickedPcs, RunPcs
        <4>2. \A g \in Ids :
               Matches(g)' /\ (Given(g) \/ (asked # None /\ asked.id = g))' =>
                  (tasks'[g].pc \in {"asked", "listed"} => tasks'[g].item.snap = doc')
          BY <1>0, <2>1, <2>2, <2>3, <2>4, <2>5, <2>6, <2>7, <3>1
             DEF OfTheText, Matches, PickedPcs, RunPcs
        <4>3. \A j \in Ids : tasks'[j].pc \in PickedPcs /\ Matches(tasks[j].gen)' =>
               tasks'[j].item.snap = doc'
          BY <1>0, <2>1, <2>2, <2>3, <2>4, <2>5, <2>6, <2>7, <3>1
             DEF OfTheText, Matches, PickedPcs, RunPcs
        <4> QED
          BY <4>1, <4>2, <4>3 DEF OfTheText
      <3> QED
        BY <3>2, <3>3
    <2>14. Results'
      BY <1>0, <1>f, <2>1, <2>2, <2>3, <2>4, <2>5, <2>6
         DEF Results, LensOnItsText, CommandFromShownReply, NoCommandAfterRefresh
    <2> QED
      BY <2>8, <2>9, <2>10, <2>11, <2>12, <2>13, <2>14 DEF Inv
  <1>16. ASSUME NEW i \in Ids, PickItem(i) PROVE Inv'
    <2>1. tasks[i].pc = "pick" /\ UNCHANGED <<tick, textChanged, timer, sent,
                                              lastId, asked, shown, running,
                                              applied, input, loop, refreshes, doc,
                                              epoch, stream, retired, command>>
      BY <1>16 DEF PickItem, editorVars, serverVars
    <2>2. /\ \A j \in Ids : j # i => tasks'[j] = tasks[j]
          /\ tasks'[i].gen = tasks[i].gen /\ tasks'[i].item \in {tasks[i].item, cache.items}
          /\ tasks'[i].pc # "done" =>
                Matches(tasks[i].gen) /\ cache.items # None /\ tasks'[i].item = cache.items
          /\ tasks'[i].pc \in {"resolve", "check", "done"}
          /\ tasks' \in [Ids -> Tasks]
      <3>1. tasks \in [Ids -> Tasks] /\ cache.items \in {None} \union Items
        BY <1>0, Types
      <3>2. CASE tasks' = [tasks EXCEPT ![i].pc = "done"]
        BY <3>1, <3>2 DEF Tasks, Pcs
      <3>3. CASE ~(tasks' = [tasks EXCEPT ![i].pc = "done"])
        <4>1. /\ Matches(tasks[i].gen) /\ cache.items # None
              /\ \E next \in {"resolve", "check"} :
                    tasks' = [tasks EXCEPT ![i].pc = next, ![i].item = cache.items]
          BY <1>16, <3>3 DEF PickItem, Refuse, Moved
        <4>2. PICK next \in {"resolve", "check"} :
                 tasks' = [tasks EXCEPT ![i].pc = next, ![i].item = cache.items]
          BY <4>1
        <4>3. cache.items \in Items /\ next \in Pcs
          BY <3>1, <4>1 DEF Pcs
        <4>4. tasks' \in [Ids -> Tasks]
          BY <3>1, <4>2, <4>3 DEF Tasks
        <4>5. /\ \A j \in Ids : j # i => tasks'[j] = tasks[j]
              /\ tasks'[i].gen = tasks[i].gen /\ tasks'[i].item = cache.items
              /\ tasks'[i].pc = next
          BY <3>1, <4>2 DEF Tasks
        <4> QED
          BY <4>1, <4>2, <4>4, <4>5
      <3> QED
        BY <3>2, <3>3
    <2>3. /\ output' \in Seq(Replies)
          /\ \A p \in DOMAIN output' :
                \/ p \in DOMAIN output /\ output'[p] = output[p]
                \/ output'[p].id = i /\ output'[p].type = "error"
      <3>1. output \in Seq(Replies)
        BY <1>0, Types
      <3>2. CASE output' = output
        BY <3>1, <3>2
      <3>3. CASE output' = Reply("error", i, 0)
        <4>1. [type |-> "error", id |-> i, on |-> 0] \in Replies
          BY Bounds DEF Replies
        <4> QED
          BY <1>0, <3>3, <4>1, Saying DEF Reply
      <3> QED
        BY <1>16, <3>2, <3>3 DEF PickItem, Refuse
    <2>4. UNCHANGED cache
      BY <1>16 DEF PickItem
    <2>5. /\ \A j \in Ids : tasks'[j].gen = tasks[j].gen
          /\ \A j \in Ids : tasks[j].pc # "none" <=> tasks'[j].pc # "none"
          /\ \A p \in DOMAIN output : output[p].id \in Ids
      <3>1. \A j \in Ids : tasks[j].pc # "none" <=> tasks'[j].pc # "none"
        BY <2>1, <2>2
      <3> QED
        BY <1>0, <2>2, <3>1, Replied
    <2>6. /\ tasks'[i].pc # "done" => cache.gen = tasks[i].gen
          /\ tasks[i].gen \in Ids /\ Given(tasks[i].gen)
      <3>1. tasks[i].gen # 0 /\ Given(tasks[i].gen)
        BY <1>0, <2>1 DEF Lists, RunPcs, Given
      <3> QED
        BY <1>0, <2>2, <3>1, TaskTypes, Bounds DEF Matches
    <2>7. \A g \in Ids : Given(g)' => Given(g)
      BY <1>f, <2>1, <2>2, <2>3, <2>4, <2>5, <2>6 DEF Given, RunPcs, PickedPcs
    <2>8. Shapes'
      BY <1>0, <1>f, <2>1, <2>2, <2>3, <2>4, <2>5, <2>6, Types, Typed
    <2>9. Ordered'
      <3>1. \A k \in DOMAIN input' : input'[k].type # "change" =>
             /\ input'[k].id \in 1 .. lastId' /\ input'[k].gen \in Ids
             /\ input'[k].type = "list" => input'[k].gen = input'[k].id
             /\ cache'.gen < input'[k].id
        BY <1>0, <2>1, <2>2, <2>3, <2>4, <2>5, <2>6, Bounds DEF Ordered
      <3>2. \A k \in DOMAIN input' : input'[k].type # "change" =>
             \A j \in Ids : tasks'[j].pc # "none" => j < input'[k].id
        BY <1>0, <2>1, <2>2, <2>3, <2>4, <2>5, <2>6, Bounds DEF Ordered
      <3>3. \A k, m \in DOMAIN input' :
             input'[k].type # "change" /\ m < k /\ input'[m].type # "change" =>
                input'[m].id < input'[k].id
        BY <1>0, <2>1, <2>2, <2>3, <2>4, <2>5, <2>6, Bounds DEF Ordered
      <3>4. /\ \A j \in Ids : tasks'[j].pc # "none" => j <= lastId'
            /\ cache'.gen <= lastId'
            /\ asked' # None => asked'.id <= lastId'
        BY <1>0, <2>1, <2>2, <2>3, <2>4, <2>5, <2>6, Bounds DEF Ordered
      <3>5. \A p \in DOMAIN output' :
             /\ tasks'[output'[p].id].pc # "none"
             /\ output'[p].type = "list" => output'[p].id <= cache'.gen
        BY <1>0, <2>1, <2>2, <2>3, <2>4, <2>5, <2>6, Bounds DEF Ordered
      <3> QED
        BY <3>1, <3>2, <3>3, <3>4, <3>5 DEF Ordered
    <2>10. Lists'
      <3>1. \A j \in Ids : tasks'[j].pc \in ListPcs => tasks'[j].gen = j
        BY <1>0, <2>1, <2>2, <2>3, <2>4, <2>5, <2>6, Bounds
           DEF Lists, ListPcs, PickedPcs, RunPcs
      <3>2. \A j \in Ids : tasks'[j].pc \in {"ask", "asked", "listed"} => j <= cache'.gen
        BY <1>0, <2>1, <2>2, <2>3, <2>4, <2>5, <2>6, Bounds
           DEF Lists, ListPcs, PickedPcs, RunPcs
      <3>3. \A j \in Ids : tasks'[j].pc \in {"asked", "listed"} => tasks'[j].item.list = j
        BY <1>0, <2>1, <2>2, <2>3, <2>4, <2>5, <2>6, Bounds
           DEF Lists, ListPcs, PickedPcs, RunPcs
      <3>4. \A j \in Ids : tasks'[j].pc \in RunPcs => tasks'[j].gen # 0
        BY <1>0, <2>1, <2>2, <2>3, <2>4, <2>5, <2>6, Bounds
           DEF Lists, ListPcs, PickedPcs, RunPcs
      <3>5. \A j \in Ids : tasks'[j].pc \in PickedPcs => tasks'[j].item.list = tasks'[j].gen
        BY <1>0, <2>1, <2>2, <2>3, <2>4, <2>5, <2>6, Bounds
           DEF Lists, ListPcs, PickedPcs, RunPcs
      <3>6. cache'.items # None => cache'.live /\ cache'.items.list = cache'.gen
        BY <1>0, <2>1, <2>2, <2>3, <2>4, <2>5, <2>6, Bounds
           DEF Lists, ListPcs, PickedPcs, RunPcs
      <3>7. \A g \in Ids : Given(g)' => g <= cache'.gen
        BY <1>0, <2>1, <2>2, <2>3, <2>4, <2>5, <2>6, <2>7, Bounds
           DEF Lists, ListPcs, PickedPcs, RunPcs
      <3> QED
        BY <3>1, <3>2, <3>3, <3>4, <3>5, <3>6, <3>7 DEF Lists
    <2>11. Refreshes'
      <3>1. refreshes' <= retired' /\ retired' <= epoch'
        BY <1>0, <2>1, <2>2, <2>3, <2>4, <2>5, <2>6 DEF Refreshes
      <3>2. \A n \in DOMAIN stream' : stream'[n].epoch <= epoch'
        BY <1>0, <2>1, <2>2, <2>3, <2>4, <2>5, <2>6 DEF Refreshes
      <3>3. \A n \in DOMAIN stream' : stream'[n].type = "answer" =>
             /\ stream'[n].id \in Ids /\ tasks'[stream'[n].id].pc # "none"
             /\ stream'[n].epoch >= retired'
        BY <1>0, <2>1, <2>2, <2>3, <2>4, <2>5, <2>6 DEF Refreshes
      <3>4. \A n \in DOMAIN stream' : stream'[n].type = "refresh" => stream'[n].epoch > retired'
        BY <1>0, <2>1, <2>2, <2>3, <2>4, <2>5, <2>6 DEF Refreshes
      <3>5. \A n, m \in DOMAIN stream' : m < n =>
             /\ stream'[m].epoch <= stream'[n].epoch
             /\ stream'[n].type = "refresh" => stream'[m].epoch < stream'[n].epoch
        BY <1>0, <2>1, <2>2, <2>3, <2>4, <2>5, <2>6 DEF Refreshes
      <3> QED
        BY <3>1, <3>2, <3>3, <3>4, <3>5 DEF Refreshes
    <2>12. Fresh'
      <3>1. cache'.live /\ cache'.items # None => cache'.items.epoch >= retired'
        BY <1>0, <2>1, <2>2, <2>3, <2>4, <2>5, <2>6
           DEF Fresh, Matches, ListPcs, PickedPcs, RunPcs
      <3>2. \A j \in Ids : tasks'[j].pc \in {"listed"} \union PickedPcs
                         /\ Matches(tasks[j].gen)' => tasks'[j].item.epoch >= retired'
        BY <1>0, <2>1, <2>2, <2>3, <2>4, <2>5, <2>6
           DEF Fresh, Matches, ListPcs, PickedPcs, RunPcs
      <3> QED
        BY <3>1, <3>2 DEF Fresh
    <2>13. LensInv'
      <3> SUFFICES ASSUME feature = "lens" PROVE Quiet' /\ OfTheText'
        BY <1>f DEF LensInv
      <3>1. Quiet /\ OfTheText
        BY <1>0 DEF LensInv
      <3>2. Quiet'
        <4>1. asked' # None =>
               /\ timer' = FALSE
               /\ \A m \in DOMAIN input' : input'[m].type = "change" =>
                     \E k \in DOMAIN input' :
                        k > m /\ input'[k].type = "list" /\ input'[k].id = asked'.id
               /\ loop' # Idle => \E k \in DOMAIN input' :
                                    input'[k].type = "list" /\ input'[k].id = asked'.id
          BY <1>0, <2>1, <2>2, <2>3, <2>4, <2>5, <2>6, <3>1
             DEF Quiet, Matches, PickedPcs, RunPcs
        <4>2. shown' # None => /\ timer' = FALSE /\ loop' = Idle
                                /\ \A m \in DOMAIN input' : input'[m].type # "change"
          BY <1>0, <2>1, <2>2, <2>3, <2>4, <2>5, <2>6, <3>1
             DEF Quiet, Matches, PickedPcs, RunPcs
        <4>3. \A k \in DOMAIN input' : input'[k].type = "run" =>
               \A m \in DOMAIN input' : m < k => input'[m].type # "change"
          BY <1>0, <2>1, <2>2, <2>3, <2>4, <2>5, <2>6, <3>1
             DEF Quiet, Matches, PickedPcs, RunPcs
        <4>4. loop' # Idle => \A k \in DOMAIN input' : input'[k].type # "run"
          BY <1>0, <2>1, <2>2, <2>3, <2>4, <2>5, <2>6, <3>1
             DEF Quiet, Matches, PickedPcs, RunPcs
        <4>5. loop' # Idle =>
               \A j \in Ids : tasks'[j].pc \in RunPcs => ~Matches(tasks[j].gen)'
          BY <1>0, <2>1, <2>2, <2>3, <2>4, <2>5, <2>6, <3>1
             DEF Quiet, Matches, PickedPcs, RunPcs
        <4> QED
          BY <4>1, <4>2, <4>3, <4>4, <4>5 DEF Quiet
      <3>3. OfTheText'
        <4>1. \A g \in Ids :
               Matches(g)' /\ (Given(g) \/ (asked # None /\ asked.id = g))' =>
                  (cache'.items # None => cache'.items.snap = doc')
          BY <1>0, <2>1, <2>2, <2>3, <2>4, <2>5, <2>6, <2>7, <3>1
             DEF OfTheText, Matches, PickedPcs, RunPcs
        <4>2. \A g \in Ids :
               Matches(g)' /\ (Given(g) \/ (asked # None /\ asked.id = g))' =>
                  (tasks'[g].pc \in {"asked", "listed"} => tasks'[g].item.snap = doc')
          BY <1>0, <2>1, <2>2, <2>3, <2>4, <2>5, <2>6, <2>7, <3>1
             DEF OfTheText, Matches, PickedPcs, RunPcs
        <4>3. \A j \in Ids : tasks'[j].pc \in PickedPcs /\ Matches(tasks[j].gen)' =>
               tasks'[j].item.snap = doc'
          BY <1>0, <2>1, <2>2, <2>3, <2>4, <2>5, <2>6, <2>7, <3>1
             DEF OfTheText, Matches, PickedPcs, RunPcs
        <4> QED
          BY <4>1, <4>2, <4>3 DEF OfTheText
      <3> QED
        BY <3>2, <3>3
    <2>14. Results'
      BY <1>0, <1>f, <2>1, <2>2, <2>3, <2>4, <2>5, <2>6
         DEF Results, LensOnItsText, CommandFromShownReply, NoCommandAfterRefresh
    <2> QED
      BY <2>8, <2>9, <2>10, <2>11, <2>12, <2>13, <2>14 DEF Inv
  <1>17. ASSUME NEW i \in Ids, AskResolve(i) PROVE Inv'
    <2>1. tasks[i].pc = "resolve" /\ UNCHANGED <<tick, textChanged, timer, sent,
                                                 lastId, asked, shown, running,
                                                 applied, input, loop, refreshes,
                                                 doc, epoch, stream, retired,
                                                 command>>
      BY <1>17 DEF AskResolve, editorVars, serverVars
    <2>2. /\ \A j \in Ids : j # i => tasks'[j] = tasks[j]
          /\ tasks'[i].gen = tasks[i].gen /\ tasks'[i].item = tasks[i].item
          /\ tasks'[i].pc \in {"resolving"}
          /\ tasks' \in [Ids -> Tasks]
      <3>1. tasks \in [Ids -> Tasks]
        BY <1>0, Types
      <3>2. PICK pc \in {"resolving"} : tasks' = [tasks EXCEPT ![i].pc = pc]
        BY <1>17 DEF AskResolve, Refuse, Moved
      <3> QED
        BY <3>1, <3>2 DEF Tasks, Pcs
    <2>3. output' = output /\ output' \in Seq(Replies)
      BY <1>0, <1>17, Types DEF AskResolve
    <2>4. UNCHANGED cache
      BY <1>17 DEF AskResolve
    <2>5. /\ \A j \in Ids : tasks'[j].gen = tasks[j].gen
          /\ \A j \in Ids : tasks[j].pc # "none" <=> tasks'[j].pc # "none"
          /\ \A p \in DOMAIN output : output[p].id \in Ids
      <3>1. \A j \in Ids : tasks[j].pc # "none" <=> tasks'[j].pc # "none"
        BY <2>1, <2>2
      <3> QED
        BY <1>0, <2>2, <3>1, Replied
    <2>6. \A g \in Ids : Given(g)' => Given(g)
      BY <1>f, <2>1, <2>2, <2>3, <2>4, <2>5 DEF Given, RunPcs, PickedPcs
    <2>7. Shapes'
      BY <1>0, <1>f, <2>1, <2>2, <2>3, <2>4, <2>5, Types, Typed
    <2>8. Ordered'
      <3>1. \A k \in DOMAIN input' : input'[k].type # "change" =>
             /\ input'[k].id \in 1 .. lastId' /\ input'[k].gen \in Ids
             /\ input'[k].type = "list" => input'[k].gen = input'[k].id
             /\ cache'.gen < input'[k].id
        BY <1>0, <2>1, <2>2, <2>3, <2>4, <2>5, Bounds DEF Ordered
      <3>2. \A k \in DOMAIN input' : input'[k].type # "change" =>
             \A j \in Ids : tasks'[j].pc # "none" => j < input'[k].id
        BY <1>0, <2>1, <2>2, <2>3, <2>4, <2>5, Bounds DEF Ordered
      <3>3. \A k, m \in DOMAIN input' :
             input'[k].type # "change" /\ m < k /\ input'[m].type # "change" =>
                input'[m].id < input'[k].id
        BY <1>0, <2>1, <2>2, <2>3, <2>4, <2>5, Bounds DEF Ordered
      <3>4. /\ \A j \in Ids : tasks'[j].pc # "none" => j <= lastId'
            /\ cache'.gen <= lastId'
            /\ asked' # None => asked'.id <= lastId'
        BY <1>0, <2>1, <2>2, <2>3, <2>4, <2>5, Bounds DEF Ordered
      <3>5. \A p \in DOMAIN output' :
             /\ tasks'[output'[p].id].pc # "none"
             /\ output'[p].type = "list" => output'[p].id <= cache'.gen
        BY <1>0, <2>1, <2>2, <2>3, <2>4, <2>5, Bounds DEF Ordered
      <3> QED
        BY <3>1, <3>2, <3>3, <3>4, <3>5 DEF Ordered
    <2>9. Lists'
      <3>1. \A j \in Ids : tasks'[j].pc \in ListPcs => tasks'[j].gen = j
        BY <1>0, <2>1, <2>2, <2>3, <2>4, <2>5, Bounds
           DEF Lists, ListPcs, PickedPcs, RunPcs
      <3>2. \A j \in Ids : tasks'[j].pc \in {"ask", "asked", "listed"} => j <= cache'.gen
        BY <1>0, <2>1, <2>2, <2>3, <2>4, <2>5, Bounds
           DEF Lists, ListPcs, PickedPcs, RunPcs
      <3>3. \A j \in Ids : tasks'[j].pc \in {"asked", "listed"} => tasks'[j].item.list = j
        BY <1>0, <2>1, <2>2, <2>3, <2>4, <2>5, Bounds
           DEF Lists, ListPcs, PickedPcs, RunPcs
      <3>4. \A j \in Ids : tasks'[j].pc \in RunPcs => tasks'[j].gen # 0
        BY <1>0, <2>1, <2>2, <2>3, <2>4, <2>5, Bounds
           DEF Lists, ListPcs, PickedPcs, RunPcs
      <3>5. \A j \in Ids : tasks'[j].pc \in PickedPcs => tasks'[j].item.list = tasks'[j].gen
        BY <1>0, <2>1, <2>2, <2>3, <2>4, <2>5, Bounds
           DEF Lists, ListPcs, PickedPcs, RunPcs
      <3>6. cache'.items # None => cache'.live /\ cache'.items.list = cache'.gen
        BY <1>0, <2>1, <2>2, <2>3, <2>4, <2>5, Bounds
           DEF Lists, ListPcs, PickedPcs, RunPcs
      <3>7. \A g \in Ids : Given(g)' => g <= cache'.gen
        BY <1>0, <2>1, <2>2, <2>3, <2>4, <2>5, <2>6, Bounds
           DEF Lists, ListPcs, PickedPcs, RunPcs
      <3> QED
        BY <3>1, <3>2, <3>3, <3>4, <3>5, <3>6, <3>7 DEF Lists
    <2>10. Refreshes'
      <3>1. refreshes' <= retired' /\ retired' <= epoch'
        BY <1>0, <2>1, <2>2, <2>3, <2>4, <2>5 DEF Refreshes
      <3>2. \A n \in DOMAIN stream' : stream'[n].epoch <= epoch'
        BY <1>0, <2>1, <2>2, <2>3, <2>4, <2>5 DEF Refreshes
      <3>3. \A n \in DOMAIN stream' : stream'[n].type = "answer" =>
             /\ stream'[n].id \in Ids /\ tasks'[stream'[n].id].pc # "none"
             /\ stream'[n].epoch >= retired'
        BY <1>0, <2>1, <2>2, <2>3, <2>4, <2>5 DEF Refreshes
      <3>4. \A n \in DOMAIN stream' : stream'[n].type = "refresh" => stream'[n].epoch > retired'
        BY <1>0, <2>1, <2>2, <2>3, <2>4, <2>5 DEF Refreshes
      <3>5. \A n, m \in DOMAIN stream' : m < n =>
             /\ stream'[m].epoch <= stream'[n].epoch
             /\ stream'[n].type = "refresh" => stream'[m].epoch < stream'[n].epoch
        BY <1>0, <2>1, <2>2, <2>3, <2>4, <2>5 DEF Refreshes
      <3> QED
        BY <3>1, <3>2, <3>3, <3>4, <3>5 DEF Refreshes
    <2>11. Fresh'
      <3>1. cache'.live /\ cache'.items # None => cache'.items.epoch >= retired'
        BY <1>0, <2>1, <2>2, <2>3, <2>4, <2>5
           DEF Fresh, Matches, ListPcs, PickedPcs, RunPcs
      <3>2. \A j \in Ids : tasks'[j].pc \in {"listed"} \union PickedPcs
                         /\ Matches(tasks[j].gen)' => tasks'[j].item.epoch >= retired'
        BY <1>0, <2>1, <2>2, <2>3, <2>4, <2>5
           DEF Fresh, Matches, ListPcs, PickedPcs, RunPcs
      <3> QED
        BY <3>1, <3>2 DEF Fresh
    <2>12. LensInv'
      <3> SUFFICES ASSUME feature = "lens" PROVE Quiet' /\ OfTheText'
        BY <1>f DEF LensInv
      <3>1. Quiet /\ OfTheText
        BY <1>0 DEF LensInv
      <3>2. Quiet'
        <4>1. asked' # None =>
               /\ timer' = FALSE
               /\ \A m \in DOMAIN input' : input'[m].type = "change" =>
                     \E k \in DOMAIN input' :
                        k > m /\ input'[k].type = "list" /\ input'[k].id = asked'.id
               /\ loop' # Idle => \E k \in DOMAIN input' :
                                    input'[k].type = "list" /\ input'[k].id = asked'.id
          BY <1>0, <2>1, <2>2, <2>3, <2>4, <2>5, <3>1
             DEF Quiet, Matches, PickedPcs, RunPcs
        <4>2. shown' # None => /\ timer' = FALSE /\ loop' = Idle
                                /\ \A m \in DOMAIN input' : input'[m].type # "change"
          BY <1>0, <2>1, <2>2, <2>3, <2>4, <2>5, <3>1
             DEF Quiet, Matches, PickedPcs, RunPcs
        <4>3. \A k \in DOMAIN input' : input'[k].type = "run" =>
               \A m \in DOMAIN input' : m < k => input'[m].type # "change"
          BY <1>0, <2>1, <2>2, <2>3, <2>4, <2>5, <3>1
             DEF Quiet, Matches, PickedPcs, RunPcs
        <4>4. loop' # Idle => \A k \in DOMAIN input' : input'[k].type # "run"
          BY <1>0, <2>1, <2>2, <2>3, <2>4, <2>5, <3>1
             DEF Quiet, Matches, PickedPcs, RunPcs
        <4>5. loop' # Idle =>
               \A j \in Ids : tasks'[j].pc \in RunPcs => ~Matches(tasks[j].gen)'
          BY <1>0, <2>1, <2>2, <2>3, <2>4, <2>5, <3>1
             DEF Quiet, Matches, PickedPcs, RunPcs
        <4> QED
          BY <4>1, <4>2, <4>3, <4>4, <4>5 DEF Quiet
      <3>3. OfTheText'
        <4>1. \A g \in Ids :
               Matches(g)' /\ (Given(g) \/ (asked # None /\ asked.id = g))' =>
                  (cache'.items # None => cache'.items.snap = doc')
          BY <1>0, <2>1, <2>2, <2>3, <2>4, <2>5, <2>6, <3>1
             DEF OfTheText, Matches, PickedPcs, RunPcs
        <4>2. \A g \in Ids :
               Matches(g)' /\ (Given(g) \/ (asked # None /\ asked.id = g))' =>
                  (tasks'[g].pc \in {"asked", "listed"} => tasks'[g].item.snap = doc')
          BY <1>0, <2>1, <2>2, <2>3, <2>4, <2>5, <2>6, <3>1
             DEF OfTheText, Matches, PickedPcs, RunPcs
        <4>3. \A j \in Ids : tasks'[j].pc \in PickedPcs /\ Matches(tasks[j].gen)' =>
               tasks'[j].item.snap = doc'
          BY <1>0, <2>1, <2>2, <2>3, <2>4, <2>5, <2>6, <3>1
             DEF OfTheText, Matches, PickedPcs, RunPcs
        <4> QED
          BY <4>1, <4>2, <4>3 DEF OfTheText
      <3> QED
        BY <3>2, <3>3
    <2>13. Results'
      BY <1>0, <1>f, <2>1, <2>2, <2>3, <2>4, <2>5
         DEF Results, LensOnItsText, CommandFromShownReply, NoCommandAfterRefresh
    <2> QED
      BY <2>7, <2>8, <2>9, <2>10, <2>11, <2>12, <2>13 DEF Inv
  <1>18. ASSUME NEW i \in Ids, Recheck(i) PROVE Inv'
    <2>1. tasks[i].pc = "check" /\ UNCHANGED <<tick, textChanged, timer, sent,
                                               lastId, asked, shown, running,
                                               applied, input, loop, refreshes, doc,
                                               epoch, stream, retired, command>>
      BY <1>18 DEF Recheck, editorVars, serverVars
    <2>2. /\ \A j \in Ids : j # i => tasks'[j] = tasks[j]
          /\ tasks'[i].gen = tasks[i].gen /\ tasks'[i].item = tasks[i].item
          /\ tasks'[i].pc \in {"send", "done"}
          /\ tasks' \in [Ids -> Tasks]
      <3>1. tasks \in [Ids -> Tasks]
        BY <1>0, Types
      <3>2. PICK pc \in {"send", "done"} : tasks' = [tasks EXCEPT ![i].pc = pc]
        BY <1>18 DEF Recheck, Refuse, Moved
      <3> QED
        BY <3>1, <3>2 DEF Tasks, Pcs
    <2>3. /\ output' \in Seq(Replies)
          /\ \A p \in DOMAIN output' :
                \/ p \in DOMAIN output /\ output'[p] = output[p]
                \/ output'[p].id = i /\ output'[p].type \in {"run", "error"}
      <3>1. output \in Seq(Replies)
        BY <1>0, Types
      <3>2. CASE output' = output
        BY <3>1, <3>2
      <3>3. CASE output' = Reply("error", i, 0)
        <4>1. [type |-> "error", id |-> i, on |-> 0] \in Replies
          BY Bounds DEF Replies
        <4> QED
          BY <1>0, <3>3, <4>1, Saying DEF Reply
      <3>4. CASE output' = Reply("run", i, tasks[i].item.snap)
        <4>1. [type |-> "run", id |-> i, on |-> tasks[i].item.snap] \in Replies
          BY <1>0, Bounds, TaskTypes DEF Replies
        <4> QED
          BY <1>0, <3>4, <4>1, Saying DEF Reply
      <3> QED
        BY <1>18, <3>2, <3>3, <3>4 DEF Recheck, Refuse
    <2>4. UNCHANGED cache
      BY <1>18 DEF Recheck
    <2>5. /\ \A j \in Ids : tasks'[j].gen = tasks[j].gen
          /\ \A j \in Ids : tasks[j].pc # "none" <=> tasks'[j].pc # "none"
          /\ \A p \in DOMAIN output : output[p].id \in Ids
      <3>1. \A j \in Ids : tasks[j].pc # "none" <=> tasks'[j].pc # "none"
        BY <2>1, <2>2
      <3> QED
        BY <1>0, <2>2, <3>1, Replied
    <2>6. \A g \in Ids : Given(g)' => Given(g)
      BY <1>f, <2>1, <2>2, <2>3, <2>4, <2>5 DEF Given, RunPcs, PickedPcs
    <2>7. Shapes'
      BY <1>0, <1>f, <2>1, <2>2, <2>3, <2>4, <2>5, Types, Typed
    <2>8. Ordered'
      <3>1. \A k \in DOMAIN input' : input'[k].type # "change" =>
             /\ input'[k].id \in 1 .. lastId' /\ input'[k].gen \in Ids
             /\ input'[k].type = "list" => input'[k].gen = input'[k].id
             /\ cache'.gen < input'[k].id
        BY <1>0, <2>1, <2>2, <2>3, <2>4, <2>5, Bounds DEF Ordered
      <3>2. \A k \in DOMAIN input' : input'[k].type # "change" =>
             \A j \in Ids : tasks'[j].pc # "none" => j < input'[k].id
        BY <1>0, <2>1, <2>2, <2>3, <2>4, <2>5, Bounds DEF Ordered
      <3>3. \A k, m \in DOMAIN input' :
             input'[k].type # "change" /\ m < k /\ input'[m].type # "change" =>
                input'[m].id < input'[k].id
        BY <1>0, <2>1, <2>2, <2>3, <2>4, <2>5, Bounds DEF Ordered
      <3>4. /\ \A j \in Ids : tasks'[j].pc # "none" => j <= lastId'
            /\ cache'.gen <= lastId'
            /\ asked' # None => asked'.id <= lastId'
        BY <1>0, <2>1, <2>2, <2>3, <2>4, <2>5, Bounds DEF Ordered
      <3>5. \A p \in DOMAIN output' :
             /\ tasks'[output'[p].id].pc # "none"
             /\ output'[p].type = "list" => output'[p].id <= cache'.gen
        BY <1>0, <2>1, <2>2, <2>3, <2>4, <2>5, Bounds DEF Ordered
      <3> QED
        BY <3>1, <3>2, <3>3, <3>4, <3>5 DEF Ordered
    <2>9. Lists'
      <3>1. \A j \in Ids : tasks'[j].pc \in ListPcs => tasks'[j].gen = j
        BY <1>0, <2>1, <2>2, <2>3, <2>4, <2>5, Bounds
           DEF Lists, ListPcs, PickedPcs, RunPcs
      <3>2. \A j \in Ids : tasks'[j].pc \in {"ask", "asked", "listed"} => j <= cache'.gen
        BY <1>0, <2>1, <2>2, <2>3, <2>4, <2>5, Bounds
           DEF Lists, ListPcs, PickedPcs, RunPcs
      <3>3. \A j \in Ids : tasks'[j].pc \in {"asked", "listed"} => tasks'[j].item.list = j
        BY <1>0, <2>1, <2>2, <2>3, <2>4, <2>5, Bounds
           DEF Lists, ListPcs, PickedPcs, RunPcs
      <3>4. \A j \in Ids : tasks'[j].pc \in RunPcs => tasks'[j].gen # 0
        BY <1>0, <2>1, <2>2, <2>3, <2>4, <2>5, Bounds
           DEF Lists, ListPcs, PickedPcs, RunPcs
      <3>5. \A j \in Ids : tasks'[j].pc \in PickedPcs => tasks'[j].item.list = tasks'[j].gen
        BY <1>0, <2>1, <2>2, <2>3, <2>4, <2>5, Bounds
           DEF Lists, ListPcs, PickedPcs, RunPcs
      <3>6. cache'.items # None => cache'.live /\ cache'.items.list = cache'.gen
        BY <1>0, <2>1, <2>2, <2>3, <2>4, <2>5, Bounds
           DEF Lists, ListPcs, PickedPcs, RunPcs
      <3>7. \A g \in Ids : Given(g)' => g <= cache'.gen
        BY <1>0, <2>1, <2>2, <2>3, <2>4, <2>5, <2>6, Bounds
           DEF Lists, ListPcs, PickedPcs, RunPcs
      <3> QED
        BY <3>1, <3>2, <3>3, <3>4, <3>5, <3>6, <3>7 DEF Lists
    <2>10. Refreshes'
      <3>1. refreshes' <= retired' /\ retired' <= epoch'
        BY <1>0, <2>1, <2>2, <2>3, <2>4, <2>5 DEF Refreshes
      <3>2. \A n \in DOMAIN stream' : stream'[n].epoch <= epoch'
        BY <1>0, <2>1, <2>2, <2>3, <2>4, <2>5 DEF Refreshes
      <3>3. \A n \in DOMAIN stream' : stream'[n].type = "answer" =>
             /\ stream'[n].id \in Ids /\ tasks'[stream'[n].id].pc # "none"
             /\ stream'[n].epoch >= retired'
        BY <1>0, <2>1, <2>2, <2>3, <2>4, <2>5 DEF Refreshes
      <3>4. \A n \in DOMAIN stream' : stream'[n].type = "refresh" => stream'[n].epoch > retired'
        BY <1>0, <2>1, <2>2, <2>3, <2>4, <2>5 DEF Refreshes
      <3>5. \A n, m \in DOMAIN stream' : m < n =>
             /\ stream'[m].epoch <= stream'[n].epoch
             /\ stream'[n].type = "refresh" => stream'[m].epoch < stream'[n].epoch
        BY <1>0, <2>1, <2>2, <2>3, <2>4, <2>5 DEF Refreshes
      <3> QED
        BY <3>1, <3>2, <3>3, <3>4, <3>5 DEF Refreshes
    <2>11. Fresh'
      <3>1. cache'.live /\ cache'.items # None => cache'.items.epoch >= retired'
        BY <1>0, <2>1, <2>2, <2>3, <2>4, <2>5
           DEF Fresh, Matches, ListPcs, PickedPcs, RunPcs
      <3>2. \A j \in Ids : tasks'[j].pc \in {"listed"} \union PickedPcs
                         /\ Matches(tasks[j].gen)' => tasks'[j].item.epoch >= retired'
        BY <1>0, <2>1, <2>2, <2>3, <2>4, <2>5
           DEF Fresh, Matches, ListPcs, PickedPcs, RunPcs
      <3> QED
        BY <3>1, <3>2 DEF Fresh
    <2>12. LensInv'
      <3> SUFFICES ASSUME feature = "lens" PROVE Quiet' /\ OfTheText'
        BY <1>f DEF LensInv
      <3>1. Quiet /\ OfTheText
        BY <1>0 DEF LensInv
      <3>2. Quiet'
        <4>1. asked' # None =>
               /\ timer' = FALSE
               /\ \A m \in DOMAIN input' : input'[m].type = "change" =>
                     \E k \in DOMAIN input' :
                        k > m /\ input'[k].type = "list" /\ input'[k].id = asked'.id
               /\ loop' # Idle => \E k \in DOMAIN input' :
                                    input'[k].type = "list" /\ input'[k].id = asked'.id
          BY <1>0, <2>1, <2>2, <2>3, <2>4, <2>5, <3>1
             DEF Quiet, Matches, PickedPcs, RunPcs
        <4>2. shown' # None => /\ timer' = FALSE /\ loop' = Idle
                                /\ \A m \in DOMAIN input' : input'[m].type # "change"
          BY <1>0, <2>1, <2>2, <2>3, <2>4, <2>5, <3>1
             DEF Quiet, Matches, PickedPcs, RunPcs
        <4>3. \A k \in DOMAIN input' : input'[k].type = "run" =>
               \A m \in DOMAIN input' : m < k => input'[m].type # "change"
          BY <1>0, <2>1, <2>2, <2>3, <2>4, <2>5, <3>1
             DEF Quiet, Matches, PickedPcs, RunPcs
        <4>4. loop' # Idle => \A k \in DOMAIN input' : input'[k].type # "run"
          BY <1>0, <2>1, <2>2, <2>3, <2>4, <2>5, <3>1
             DEF Quiet, Matches, PickedPcs, RunPcs
        <4>5. loop' # Idle =>
               \A j \in Ids : tasks'[j].pc \in RunPcs => ~Matches(tasks[j].gen)'
          BY <1>0, <2>1, <2>2, <2>3, <2>4, <2>5, <3>1
             DEF Quiet, Matches, PickedPcs, RunPcs
        <4> QED
          BY <4>1, <4>2, <4>3, <4>4, <4>5 DEF Quiet
      <3>3. OfTheText'
        <4>1. \A g \in Ids :
               Matches(g)' /\ (Given(g) \/ (asked # None /\ asked.id = g))' =>
                  (cache'.items # None => cache'.items.snap = doc')
          BY <1>0, <2>1, <2>2, <2>3, <2>4, <2>5, <2>6, <3>1
             DEF OfTheText, Matches, PickedPcs, RunPcs
        <4>2. \A g \in Ids :
               Matches(g)' /\ (Given(g) \/ (asked # None /\ asked.id = g))' =>
                  (tasks'[g].pc \in {"asked", "listed"} => tasks'[g].item.snap = doc')
          BY <1>0, <2>1, <2>2, <2>3, <2>4, <2>5, <2>6, <3>1
             DEF OfTheText, Matches, PickedPcs, RunPcs
        <4>3. \A j \in Ids : tasks'[j].pc \in PickedPcs /\ Matches(tasks[j].gen)' =>
               tasks'[j].item.snap = doc'
          BY <1>0, <2>1, <2>2, <2>3, <2>4, <2>5, <2>6, <3>1
             DEF OfTheText, Matches, PickedPcs, RunPcs
        <4> QED
          BY <4>1, <4>2, <4>3 DEF OfTheText
      <3> QED
        BY <3>2, <3>3
    <2>13. Results'
      BY <1>0, <1>f, <2>1, <2>2, <2>3, <2>4, <2>5
         DEF Results, LensOnItsText, CommandFromShownReply, NoCommandAfterRefresh
    <2> QED
      BY <2>7, <2>8, <2>9, <2>10, <2>11, <2>12, <2>13 DEF Inv
  <1>19. ASSUME NEW i \in Ids, SendCommand(i) PROVE Inv'
    <2>1. tasks[i].pc = "send" /\ UNCHANGED <<tick, textChanged, timer, sent,
                                              lastId, asked, shown, running,
                                              applied, input, loop, refreshes, doc,
                                              epoch, stream, retired>>
      BY <1>19 DEF SendCommand, editorVars, serverVars
    <2>2. /\ \A j \in Ids : j # i => tasks'[j] = tasks[j]
          /\ tasks'[i].gen = tasks[i].gen /\ tasks'[i].item.list = tasks[i].item.list
          /\ tasks'[i].pc \in {"sent", "done"}
          /\ tasks' \in [Ids -> Tasks]
      <3>1. tasks \in [Ids -> Tasks] /\ doc \in 0 .. MaxTick
        BY <1>0, Types
      <3>2. CASE tasks' = [tasks EXCEPT ![i].pc = "done"]
        BY <3>1, <3>2 DEF Tasks, Pcs
      <3>3. CASE tasks' = [tasks EXCEPT ![i].pc = "sent", ![i].item.snap = doc]
        <4> DEFINE t == [tasks[i] EXCEPT !.pc = "sent", !.item.snap = doc]
        <4>1. tasks[i] \in Tasks /\ "sent" \in Pcs
          BY <3>1 DEF Pcs
        <4>2. t \in Tasks /\ t.pc = "sent" /\ t.gen = tasks[i].gen
              /\ t.item.list = tasks[i].item.list
          BY <3>1, <4>1 DEF Tasks, Items
        <4>3. tasks' = [tasks EXCEPT ![i] = t]
          BY <3>3
        <4> HIDE DEF t
        <4> QED
          BY <3>1, <4>2, <4>3
      <3> QED
        BY <1>19, <3>2, <3>3 DEF SendCommand, Refuse, Moved
    <2>3. /\ output' \in Seq(Replies)
          /\ \A p \in DOMAIN output' :
                \/ p \in DOMAIN output /\ output'[p] = output[p]
                \/ output'[p].id = i /\ output'[p].type = "error"
      <3>1. output \in Seq(Replies)
        BY <1>0, Types
      <3>2. CASE output' = output
        BY <3>1, <3>2
      <3>3. CASE output' = Reply("error", i, 0)
        <4>1. [type |-> "error", id |-> i, on |-> 0] \in Replies
          BY Bounds DEF Replies
        <4> QED
          BY <1>0, <3>3, <4>1, Saying DEF Reply
      <3> QED
        BY <1>19, <3>2, <3>3 DEF SendCommand, Refuse
    <2>4. UNCHANGED cache
      BY <1>19 DEF SendCommand
    <2>5. /\ \A j \in Ids : tasks'[j].gen = tasks[j].gen
          /\ \A j \in Ids : tasks[j].pc # "none" <=> tasks'[j].pc # "none"
          /\ \A p \in DOMAIN output : output[p].id \in Ids
      <3>1. \A j \in Ids : tasks[j].pc # "none" <=> tasks'[j].pc # "none"
        BY <2>1, <2>2
      <3> QED
        BY <1>0, <2>2, <3>1, Replied
    <2>6. \/ command' = command
          \/ /\ Matches(tasks[i].gen)
             /\ command' = [item |-> tasks[i].item, gen |-> tasks[i].gen, doc |-> doc, retired |-> retired]
      BY <1>19 DEF SendCommand
    <2>7. command' \in {None} \union [item : Items, gen : Ids, doc : 0 .. MaxTick, retired : 0 .. MaxRefresh]
      <3>1. tasks[i].gen # 0
        BY <1>0, <2>1 DEF Lists, RunPcs, PickedPcs
      <3>2. tasks[i].gen \in Ids
        BY <1>0, <3>1, TaskTypes, Bounds
      <3> QED
        BY <1>0, <2>6, <3>2, Types, TaskTypes
    <2>8. \A g \in Ids : Given(g)' => Given(g)
      BY <1>f, <2>1, <2>2, <2>3, <2>4, <2>5, <2>6, <2>7 DEF Given, RunPcs, PickedPcs
    <2>9. Shapes'
      BY <1>0, <1>f, <2>1, <2>2, <2>3, <2>4, <2>5, <2>6, <2>7, Types,
         Typed
    <2>10. Ordered'
      <3>1. \A k \in DOMAIN input' : input'[k].type # "change" =>
             /\ input'[k].id \in 1 .. lastId' /\ input'[k].gen \in Ids
             /\ input'[k].type = "list" => input'[k].gen = input'[k].id
             /\ cache'.gen < input'[k].id
        BY <1>0, <2>1, <2>2, <2>3, <2>4, <2>5, <2>6, <2>7, Bounds DEF Ordered
      <3>2. \A k \in DOMAIN input' : input'[k].type # "change" =>
             \A j \in Ids : tasks'[j].pc # "none" => j < input'[k].id
        BY <1>0, <2>1, <2>2, <2>3, <2>4, <2>5, <2>6, <2>7, Bounds DEF Ordered
      <3>3. \A k, m \in DOMAIN input' :
             input'[k].type # "change" /\ m < k /\ input'[m].type # "change" =>
                input'[m].id < input'[k].id
        BY <1>0, <2>1, <2>2, <2>3, <2>4, <2>5, <2>6, <2>7, Bounds DEF Ordered
      <3>4. /\ \A j \in Ids : tasks'[j].pc # "none" => j <= lastId'
            /\ cache'.gen <= lastId'
            /\ asked' # None => asked'.id <= lastId'
        BY <1>0, <2>1, <2>2, <2>3, <2>4, <2>5, <2>6, <2>7, Bounds DEF Ordered
      <3>5. \A p \in DOMAIN output' :
             /\ tasks'[output'[p].id].pc # "none"
             /\ output'[p].type = "list" => output'[p].id <= cache'.gen
        BY <1>0, <2>1, <2>2, <2>3, <2>4, <2>5, <2>6, <2>7, Bounds DEF Ordered
      <3> QED
        BY <3>1, <3>2, <3>3, <3>4, <3>5 DEF Ordered
    <2>11. Lists'
      <3>1. \A j \in Ids : tasks'[j].pc \in ListPcs => tasks'[j].gen = j
        BY <1>0, <2>1, <2>2, <2>3, <2>4, <2>5, <2>6, <2>7, Bounds
           DEF Lists, ListPcs, PickedPcs, RunPcs
      <3>2. \A j \in Ids : tasks'[j].pc \in {"ask", "asked", "listed"} => j <= cache'.gen
        BY <1>0, <2>1, <2>2, <2>3, <2>4, <2>5, <2>6, <2>7, Bounds
           DEF Lists, ListPcs, PickedPcs, RunPcs
      <3>3. \A j \in Ids : tasks'[j].pc \in {"asked", "listed"} => tasks'[j].item.list = j
        BY <1>0, <2>1, <2>2, <2>3, <2>4, <2>5, <2>6, <2>7, Bounds
           DEF Lists, ListPcs, PickedPcs, RunPcs
      <3>4. \A j \in Ids : tasks'[j].pc \in RunPcs => tasks'[j].gen # 0
        BY <1>0, <2>1, <2>2, <2>3, <2>4, <2>5, <2>6, <2>7, Bounds
           DEF Lists, ListPcs, PickedPcs, RunPcs
      <3>5. \A j \in Ids : tasks'[j].pc \in PickedPcs => tasks'[j].item.list = tasks'[j].gen
        BY <1>0, <2>1, <2>2, <2>3, <2>4, <2>5, <2>6, <2>7, Bounds
           DEF Lists, ListPcs, PickedPcs, RunPcs
      <3>6. cache'.items # None => cache'.live /\ cache'.items.list = cache'.gen
        BY <1>0, <2>1, <2>2, <2>3, <2>4, <2>5, <2>6, <2>7, Bounds
           DEF Lists, ListPcs, PickedPcs, RunPcs
      <3>7. \A g \in Ids : Given(g)' => g <= cache'.gen
        BY <1>0, <2>1, <2>2, <2>3, <2>4, <2>5, <2>6, <2>7, <2>8, Bounds
           DEF Lists, ListPcs, PickedPcs, RunPcs
      <3> QED
        BY <3>1, <3>2, <3>3, <3>4, <3>5, <3>6, <3>7 DEF Lists
    <2>12. Refreshes'
      <3>1. refreshes' <= retired' /\ retired' <= epoch'
        BY <1>0, <2>1, <2>2, <2>3, <2>4, <2>5, <2>6, <2>7 DEF Refreshes
      <3>2. \A n \in DOMAIN stream' : stream'[n].epoch <= epoch'
        BY <1>0, <2>1, <2>2, <2>3, <2>4, <2>5, <2>6, <2>7 DEF Refreshes
      <3>3. \A n \in DOMAIN stream' : stream'[n].type = "answer" =>
             /\ stream'[n].id \in Ids /\ tasks'[stream'[n].id].pc # "none"
             /\ stream'[n].epoch >= retired'
        BY <1>0, <2>1, <2>2, <2>3, <2>4, <2>5, <2>6, <2>7 DEF Refreshes
      <3>4. \A n \in DOMAIN stream' : stream'[n].type = "refresh" => stream'[n].epoch > retired'
        BY <1>0, <2>1, <2>2, <2>3, <2>4, <2>5, <2>6, <2>7 DEF Refreshes
      <3>5. \A n, m \in DOMAIN stream' : m < n =>
             /\ stream'[m].epoch <= stream'[n].epoch
             /\ stream'[n].type = "refresh" => stream'[m].epoch < stream'[n].epoch
        BY <1>0, <2>1, <2>2, <2>3, <2>4, <2>5, <2>6, <2>7 DEF Refreshes
      <3> QED
        BY <3>1, <3>2, <3>3, <3>4, <3>5 DEF Refreshes
    <2>13. Fresh'
      <3>1. cache'.live /\ cache'.items # None => cache'.items.epoch >= retired'
        BY <1>0, <2>1, <2>2, <2>3, <2>4, <2>5, <2>6, <2>7
           DEF Fresh, Matches, ListPcs, PickedPcs, RunPcs
      <3>2. \A j \in Ids : tasks'[j].pc \in {"listed"} \union PickedPcs
                         /\ Matches(tasks[j].gen)' => tasks'[j].item.epoch >= retired'
        BY <1>0, <2>1, <2>2, <2>3, <2>4, <2>5, <2>6, <2>7
           DEF Fresh, Matches, ListPcs, PickedPcs, RunPcs
      <3> QED
        BY <3>1, <3>2 DEF Fresh
    <2>14. LensInv'
      <3> SUFFICES ASSUME feature = "lens" PROVE Quiet' /\ OfTheText'
        BY <1>f DEF LensInv
      <3>1. Quiet /\ OfTheText
        BY <1>0 DEF LensInv
      <3>2. Quiet'
        <4>1. asked' # None =>
               /\ timer' = FALSE
               /\ \A m \in DOMAIN input' : input'[m].type = "change" =>
                     \E k \in DOMAIN input' :
                        k > m /\ input'[k].type = "list" /\ input'[k].id = asked'.id
               /\ loop' # Idle => \E k \in DOMAIN input' :
                                    input'[k].type = "list" /\ input'[k].id = asked'.id
          BY <1>0, <2>1, <2>2, <2>3, <2>4, <2>5, <2>6, <2>7, <3>1
             DEF Quiet, Matches, PickedPcs, RunPcs
        <4>2. shown' # None => /\ timer' = FALSE /\ loop' = Idle
                                /\ \A m \in DOMAIN input' : input'[m].type # "change"
          BY <1>0, <2>1, <2>2, <2>3, <2>4, <2>5, <2>6, <2>7, <3>1
             DEF Quiet, Matches, PickedPcs, RunPcs
        <4>3. \A k \in DOMAIN input' : input'[k].type = "run" =>
               \A m \in DOMAIN input' : m < k => input'[m].type # "change"
          BY <1>0, <2>1, <2>2, <2>3, <2>4, <2>5, <2>6, <2>7, <3>1
             DEF Quiet, Matches, PickedPcs, RunPcs
        <4>4. loop' # Idle => \A k \in DOMAIN input' : input'[k].type # "run"
          BY <1>0, <2>1, <2>2, <2>3, <2>4, <2>5, <2>6, <2>7, <3>1
             DEF Quiet, Matches, PickedPcs, RunPcs
        <4>5. loop' # Idle =>
               \A j \in Ids : tasks'[j].pc \in RunPcs => ~Matches(tasks[j].gen)'
          BY <1>0, <2>1, <2>2, <2>3, <2>4, <2>5, <2>6, <2>7, <3>1
             DEF Quiet, Matches, PickedPcs, RunPcs
        <4> QED
          BY <4>1, <4>2, <4>3, <4>4, <4>5 DEF Quiet
      <3>3. OfTheText'
        <4>1. \A g \in Ids :
               Matches(g)' /\ (Given(g) \/ (asked # None /\ asked.id = g))' =>
                  (cache'.items # None => cache'.items.snap = doc')
          BY <1>0, <2>1, <2>2, <2>3, <2>4, <2>5, <2>6, <2>7, <2>8, <3>1
             DEF OfTheText, Matches, PickedPcs, RunPcs
        <4>2. \A g \in Ids :
               Matches(g)' /\ (Given(g) \/ (asked # None /\ asked.id = g))' =>
                  (tasks'[g].pc \in {"asked", "listed"} => tasks'[g].item.snap = doc')
          BY <1>0, <2>1, <2>2, <2>3, <2>4, <2>5, <2>6, <2>7, <2>8, <3>1
             DEF OfTheText, Matches, PickedPcs, RunPcs
        <4>3. \A j \in Ids : tasks'[j].pc \in PickedPcs /\ Matches(tasks[j].gen)' =>
               tasks'[j].item.snap = doc'
          BY <1>0, <2>1, <2>2, <2>3, <2>4, <2>5, <2>6, <2>7, <2>8, <3>1
             DEF OfTheText, Matches, PickedPcs, RunPcs
        <4> QED
          BY <4>1, <4>2, <4>3 DEF OfTheText
      <3> QED
        BY <3>2, <3>3
    <2>15. Results'
      <3>1. CASE command' = command
        BY <1>0, <1>f, <3>1
           DEF Results, LensOnItsText, CommandFromShownReply, NoCommandAfterRefresh
      <3>2. CASE /\ Matches(tasks[i].gen)
                 /\ command' = [item |-> tasks[i].item, gen |-> tasks[i].gen, doc |-> doc,
                                retired |-> retired]
        <4>1. tasks[i].item.list = tasks[i].gen
          BY <1>0, <2>1 DEF Lists, PickedPcs
        <4>2. tasks[i].item.epoch >= retired
          BY <1>0, <2>1, <3>2 DEF Fresh, PickedPcs
        <4>3. feature = "lens" => tasks[i].item.snap = doc
          BY <1>0, <2>1, <3>2 DEF LensInv, OfTheText, PickedPcs
        <4> QED
          BY <1>f, <3>2, <4>1, <4>2, <4>3
             DEF Results, LensOnItsText, CommandFromShownReply, NoCommandAfterRefresh
      <3> QED
        BY <2>6, <3>1, <3>2
    <2> QED
      BY <2>9, <2>10, <2>11, <2>12, <2>13, <2>14, <2>15 DEF Inv
  <1>20. ASSUME NEW i \in Ids, FinishRun(i) PROVE Inv'
    <2>1. tasks[i].pc = "ran" /\ UNCHANGED <<tick, textChanged, timer, sent, lastId,
                                             asked, shown, running, applied, input,
                                             loop, refreshes, doc, epoch, stream,
                                             retired, command>>
      BY <1>20 DEF FinishRun, editorVars, serverVars
    <2>2. /\ \A j \in Ids : j # i => tasks'[j] = tasks[j]
          /\ tasks'[i].gen = tasks[i].gen /\ tasks'[i].item = tasks[i].item
          /\ tasks'[i].pc \in {"done"}
          /\ tasks' \in [Ids -> Tasks]
      <3>1. tasks \in [Ids -> Tasks]
        BY <1>0, Types
      <3>2. PICK pc \in {"done"} : tasks' = [tasks EXCEPT ![i].pc = pc]
        BY <1>20 DEF FinishRun, Refuse, Moved
      <3> QED
        BY <3>1, <3>2 DEF Tasks, Pcs
    <2>3. /\ output' \in Seq(Replies)
          /\ \A p \in DOMAIN output' :
                \/ p \in DOMAIN output /\ output'[p] = output[p]
                \/ output'[p].id = i /\ output'[p].type \in {"run", "error"}
      <3>1. output \in Seq(Replies)
        BY <1>0, Types
      <3>2. CASE output' = output
        BY <3>1, <3>2
      <3>3. CASE output' = Reply("error", i, 0)
        <4>1. [type |-> "error", id |-> i, on |-> 0] \in Replies
          BY Bounds DEF Replies
        <4> QED
          BY <1>0, <3>3, <4>1, Saying DEF Reply
      <3>4. CASE output' = Reply("run", i, tasks[i].item.snap)
        <4>1. [type |-> "run", id |-> i, on |-> tasks[i].item.snap] \in Replies
          BY <1>0, Bounds, TaskTypes DEF Replies
        <4> QED
          BY <1>0, <3>4, <4>1, Saying DEF Reply
      <3> QED
        BY <1>20, <3>2, <3>3, <3>4 DEF FinishRun, Refuse
    <2>4. UNCHANGED cache
      BY <1>20 DEF FinishRun
    <2>5. /\ \A j \in Ids : tasks'[j].gen = tasks[j].gen
          /\ \A j \in Ids : tasks[j].pc # "none" <=> tasks'[j].pc # "none"
          /\ \A p \in DOMAIN output : output[p].id \in Ids
      <3>1. \A j \in Ids : tasks[j].pc # "none" <=> tasks'[j].pc # "none"
        BY <2>1, <2>2
      <3> QED
        BY <1>0, <2>2, <3>1, Replied
    <2>6. \A g \in Ids : Given(g)' => Given(g)
      BY <1>f, <2>1, <2>2, <2>3, <2>4, <2>5 DEF Given, RunPcs, PickedPcs
    <2>7. Shapes'
      BY <1>0, <1>f, <2>1, <2>2, <2>3, <2>4, <2>5, Types, Typed
    <2>8. Ordered'
      <3>1. \A k \in DOMAIN input' : input'[k].type # "change" =>
             /\ input'[k].id \in 1 .. lastId' /\ input'[k].gen \in Ids
             /\ input'[k].type = "list" => input'[k].gen = input'[k].id
             /\ cache'.gen < input'[k].id
        BY <1>0, <2>1, <2>2, <2>3, <2>4, <2>5, Bounds DEF Ordered
      <3>2. \A k \in DOMAIN input' : input'[k].type # "change" =>
             \A j \in Ids : tasks'[j].pc # "none" => j < input'[k].id
        BY <1>0, <2>1, <2>2, <2>3, <2>4, <2>5, Bounds DEF Ordered
      <3>3. \A k, m \in DOMAIN input' :
             input'[k].type # "change" /\ m < k /\ input'[m].type # "change" =>
                input'[m].id < input'[k].id
        BY <1>0, <2>1, <2>2, <2>3, <2>4, <2>5, Bounds DEF Ordered
      <3>4. /\ \A j \in Ids : tasks'[j].pc # "none" => j <= lastId'
            /\ cache'.gen <= lastId'
            /\ asked' # None => asked'.id <= lastId'
        BY <1>0, <2>1, <2>2, <2>3, <2>4, <2>5, Bounds DEF Ordered
      <3>5. \A p \in DOMAIN output' :
             /\ tasks'[output'[p].id].pc # "none"
             /\ output'[p].type = "list" => output'[p].id <= cache'.gen
        BY <1>0, <2>1, <2>2, <2>3, <2>4, <2>5, Bounds DEF Ordered
      <3> QED
        BY <3>1, <3>2, <3>3, <3>4, <3>5 DEF Ordered
    <2>9. Lists'
      <3>1. \A j \in Ids : tasks'[j].pc \in ListPcs => tasks'[j].gen = j
        BY <1>0, <2>1, <2>2, <2>3, <2>4, <2>5, Bounds
           DEF Lists, ListPcs, PickedPcs, RunPcs
      <3>2. \A j \in Ids : tasks'[j].pc \in {"ask", "asked", "listed"} => j <= cache'.gen
        BY <1>0, <2>1, <2>2, <2>3, <2>4, <2>5, Bounds
           DEF Lists, ListPcs, PickedPcs, RunPcs
      <3>3. \A j \in Ids : tasks'[j].pc \in {"asked", "listed"} => tasks'[j].item.list = j
        BY <1>0, <2>1, <2>2, <2>3, <2>4, <2>5, Bounds
           DEF Lists, ListPcs, PickedPcs, RunPcs
      <3>4. \A j \in Ids : tasks'[j].pc \in RunPcs => tasks'[j].gen # 0
        BY <1>0, <2>1, <2>2, <2>3, <2>4, <2>5, Bounds
           DEF Lists, ListPcs, PickedPcs, RunPcs
      <3>5. \A j \in Ids : tasks'[j].pc \in PickedPcs => tasks'[j].item.list = tasks'[j].gen
        BY <1>0, <2>1, <2>2, <2>3, <2>4, <2>5, Bounds
           DEF Lists, ListPcs, PickedPcs, RunPcs
      <3>6. cache'.items # None => cache'.live /\ cache'.items.list = cache'.gen
        BY <1>0, <2>1, <2>2, <2>3, <2>4, <2>5, Bounds
           DEF Lists, ListPcs, PickedPcs, RunPcs
      <3>7. \A g \in Ids : Given(g)' => g <= cache'.gen
        BY <1>0, <2>1, <2>2, <2>3, <2>4, <2>5, <2>6, Bounds
           DEF Lists, ListPcs, PickedPcs, RunPcs
      <3> QED
        BY <3>1, <3>2, <3>3, <3>4, <3>5, <3>6, <3>7 DEF Lists
    <2>10. Refreshes'
      <3>1. refreshes' <= retired' /\ retired' <= epoch'
        BY <1>0, <2>1, <2>2, <2>3, <2>4, <2>5 DEF Refreshes
      <3>2. \A n \in DOMAIN stream' : stream'[n].epoch <= epoch'
        BY <1>0, <2>1, <2>2, <2>3, <2>4, <2>5 DEF Refreshes
      <3>3. \A n \in DOMAIN stream' : stream'[n].type = "answer" =>
             /\ stream'[n].id \in Ids /\ tasks'[stream'[n].id].pc # "none"
             /\ stream'[n].epoch >= retired'
        BY <1>0, <2>1, <2>2, <2>3, <2>4, <2>5 DEF Refreshes
      <3>4. \A n \in DOMAIN stream' : stream'[n].type = "refresh" => stream'[n].epoch > retired'
        BY <1>0, <2>1, <2>2, <2>3, <2>4, <2>5 DEF Refreshes
      <3>5. \A n, m \in DOMAIN stream' : m < n =>
             /\ stream'[m].epoch <= stream'[n].epoch
             /\ stream'[n].type = "refresh" => stream'[m].epoch < stream'[n].epoch
        BY <1>0, <2>1, <2>2, <2>3, <2>4, <2>5 DEF Refreshes
      <3> QED
        BY <3>1, <3>2, <3>3, <3>4, <3>5 DEF Refreshes
    <2>11. Fresh'
      <3>1. cache'.live /\ cache'.items # None => cache'.items.epoch >= retired'
        BY <1>0, <2>1, <2>2, <2>3, <2>4, <2>5
           DEF Fresh, Matches, ListPcs, PickedPcs, RunPcs
      <3>2. \A j \in Ids : tasks'[j].pc \in {"listed"} \union PickedPcs
                         /\ Matches(tasks[j].gen)' => tasks'[j].item.epoch >= retired'
        BY <1>0, <2>1, <2>2, <2>3, <2>4, <2>5
           DEF Fresh, Matches, ListPcs, PickedPcs, RunPcs
      <3> QED
        BY <3>1, <3>2 DEF Fresh
    <2>12. LensInv'
      <3> SUFFICES ASSUME feature = "lens" PROVE Quiet' /\ OfTheText'
        BY <1>f DEF LensInv
      <3>1. Quiet /\ OfTheText
        BY <1>0 DEF LensInv
      <3>2. Quiet'
        <4>1. asked' # None =>
               /\ timer' = FALSE
               /\ \A m \in DOMAIN input' : input'[m].type = "change" =>
                     \E k \in DOMAIN input' :
                        k > m /\ input'[k].type = "list" /\ input'[k].id = asked'.id
               /\ loop' # Idle => \E k \in DOMAIN input' :
                                    input'[k].type = "list" /\ input'[k].id = asked'.id
          BY <1>0, <2>1, <2>2, <2>3, <2>4, <2>5, <3>1
             DEF Quiet, Matches, PickedPcs, RunPcs
        <4>2. shown' # None => /\ timer' = FALSE /\ loop' = Idle
                                /\ \A m \in DOMAIN input' : input'[m].type # "change"
          BY <1>0, <2>1, <2>2, <2>3, <2>4, <2>5, <3>1
             DEF Quiet, Matches, PickedPcs, RunPcs
        <4>3. \A k \in DOMAIN input' : input'[k].type = "run" =>
               \A m \in DOMAIN input' : m < k => input'[m].type # "change"
          BY <1>0, <2>1, <2>2, <2>3, <2>4, <2>5, <3>1
             DEF Quiet, Matches, PickedPcs, RunPcs
        <4>4. loop' # Idle => \A k \in DOMAIN input' : input'[k].type # "run"
          BY <1>0, <2>1, <2>2, <2>3, <2>4, <2>5, <3>1
             DEF Quiet, Matches, PickedPcs, RunPcs
        <4>5. loop' # Idle =>
               \A j \in Ids : tasks'[j].pc \in RunPcs => ~Matches(tasks[j].gen)'
          BY <1>0, <2>1, <2>2, <2>3, <2>4, <2>5, <3>1
             DEF Quiet, Matches, PickedPcs, RunPcs
        <4> QED
          BY <4>1, <4>2, <4>3, <4>4, <4>5 DEF Quiet
      <3>3. OfTheText'
        <4>1. \A g \in Ids :
               Matches(g)' /\ (Given(g) \/ (asked # None /\ asked.id = g))' =>
                  (cache'.items # None => cache'.items.snap = doc')
          BY <1>0, <2>1, <2>2, <2>3, <2>4, <2>5, <2>6, <3>1
             DEF OfTheText, Matches, PickedPcs, RunPcs
        <4>2. \A g \in Ids :
               Matches(g)' /\ (Given(g) \/ (asked # None /\ asked.id = g))' =>
                  (tasks'[g].pc \in {"asked", "listed"} => tasks'[g].item.snap = doc')
          BY <1>0, <2>1, <2>2, <2>3, <2>4, <2>5, <2>6, <3>1
             DEF OfTheText, Matches, PickedPcs, RunPcs
        <4>3. \A j \in Ids : tasks'[j].pc \in PickedPcs /\ Matches(tasks[j].gen)' =>
               tasks'[j].item.snap = doc'
          BY <1>0, <2>1, <2>2, <2>3, <2>4, <2>5, <2>6, <3>1
             DEF OfTheText, Matches, PickedPcs, RunPcs
        <4> QED
          BY <4>1, <4>2, <4>3 DEF OfTheText
      <3> QED
        BY <3>2, <3>3
    <2>13. Results'
      BY <1>0, <1>f, <2>1, <2>2, <2>3, <2>4, <2>5
         DEF Results, LensOnItsText, CommandFromShownReply, NoCommandAfterRefresh
    <2> QED
      BY <2>7, <2>8, <2>9, <2>10, <2>11, <2>12, <2>13 DEF Inv
  <1>21. ASSUME NEW i \in Ids, ServerAnswers(i) PROVE Inv'
    <2>1. /\ tasks[i].pc \in {"asked", "resolving", "sent"}
          /\ stream' = Append(stream, [type |-> "answer", id |-> i, epoch |-> epoch])
          /\ UNCHANGED <<tick, textChanged, timer, sent, lastId, asked, shown,
                         running, applied, input, loop, tasks, cache, refreshes,
                         output, doc, epoch, retired, command>>
      BY <1>21 DEF ServerAnswers, editorVars, daemonVars
    <2>2. /\ stream' \in Seq(Answers)
          /\ \A n \in DOMAIN stream : n \in Nat /\ stream[n].epoch \in 0 .. MaxRefresh
          /\ Len(stream) \in Nat /\ epoch \in Nat /\ retired \in Nat
          /\ \A n \in DOMAIN stream' :
                \/ /\ n \in DOMAIN stream /\ stream'[n] = stream[n]
                   /\ n \in Nat /\ n < Len(stream) + 1
                \/ /\ n = Len(stream) + 1 /\ stream'[n].type = "answer"
                   /\ stream'[n].id = i /\ stream'[n].epoch = epoch
      <3>1. [type |-> "answer", id |-> i, epoch |-> epoch] \in Answers
        BY <1>0, Types, Bounds DEF Answers
      <3> QED
        BY <1>0, <2>1, <3>1, Types, Streaming
    <2>3. \A g \in Ids : Given(g)' => Given(g)
      BY <1>f, <2>1, <2>2 DEF Given, RunPcs, PickedPcs
    <2>4. Shapes'
      BY <1>0, <1>f, <2>1, <2>2, Types, Typed
    <2>5. Ordered'
      <3>1. \A k \in DOMAIN input' : input'[k].type # "change" =>
             /\ input'[k].id \in 1 .. lastId' /\ input'[k].gen \in Ids
             /\ input'[k].type = "list" => input'[k].gen = input'[k].id
             /\ cache'.gen < input'[k].id
        BY <1>0, <1>f, <2>1, <2>2, Bounds DEF Ordered
      <3>2. \A k \in DOMAIN input' : input'[k].type # "change" =>
             \A j \in Ids : tasks'[j].pc # "none" => j < input'[k].id
        BY <1>0, <1>f, <2>1, <2>2, Bounds DEF Ordered
      <3>3. \A k, m \in DOMAIN input' :
             input'[k].type # "change" /\ m < k /\ input'[m].type # "change" =>
                input'[m].id < input'[k].id
        BY <1>0, <1>f, <2>1, <2>2, Bounds DEF Ordered
      <3>4. /\ \A j \in Ids : tasks'[j].pc # "none" => j <= lastId'
            /\ cache'.gen <= lastId'
            /\ asked' # None => asked'.id <= lastId'
        BY <1>0, <1>f, <2>1, <2>2, Bounds DEF Ordered
      <3>5. \A p \in DOMAIN output' :
             /\ tasks'[output'[p].id].pc # "none"
             /\ output'[p].type = "list" => output'[p].id <= cache'.gen
        BY <1>0, <1>f, <2>1, <2>2, Bounds DEF Ordered
      <3> QED
        BY <3>1, <3>2, <3>3, <3>4, <3>5 DEF Ordered
    <2>6. Lists'
      <3>1. \A j \in Ids : tasks'[j].pc \in ListPcs => tasks'[j].gen = j
        BY <1>0, <1>f, <2>1, <2>2, Bounds
           DEF Lists, ListPcs, PickedPcs, RunPcs
      <3>2. \A j \in Ids : tasks'[j].pc \in {"ask", "asked", "listed"} => j <= cache'.gen
        BY <1>0, <1>f, <2>1, <2>2, Bounds
           DEF Lists, ListPcs, PickedPcs, RunPcs
      <3>3. \A j \in Ids : tasks'[j].pc \in {"asked", "listed"} => tasks'[j].item.list = j
        BY <1>0, <1>f, <2>1, <2>2, Bounds
           DEF Lists, ListPcs, PickedPcs, RunPcs
      <3>4. \A j \in Ids : tasks'[j].pc \in RunPcs => tasks'[j].gen # 0
        BY <1>0, <1>f, <2>1, <2>2, Bounds
           DEF Lists, ListPcs, PickedPcs, RunPcs
      <3>5. \A j \in Ids : tasks'[j].pc \in PickedPcs => tasks'[j].item.list = tasks'[j].gen
        BY <1>0, <1>f, <2>1, <2>2, Bounds
           DEF Lists, ListPcs, PickedPcs, RunPcs
      <3>6. cache'.items # None => cache'.live /\ cache'.items.list = cache'.gen
        BY <1>0, <1>f, <2>1, <2>2, Bounds
           DEF Lists, ListPcs, PickedPcs, RunPcs
      <3>7. \A g \in Ids : Given(g)' => g <= cache'.gen
        BY <1>0, <1>f, <2>1, <2>2, <2>3, Bounds
           DEF Lists, ListPcs, PickedPcs, RunPcs
      <3> QED
        BY <3>1, <3>2, <3>3, <3>4, <3>5, <3>6, <3>7 DEF Lists
    <2>7. Refreshes'
      <3>1. refreshes' <= retired' /\ retired' <= epoch'
        BY <1>0, <1>f, <2>1, <2>2, Bounds DEF Refreshes
      <3>2. \A n \in DOMAIN stream' : stream'[n].epoch <= epoch'
        BY <1>0, <1>f, <2>1, <2>2, Bounds DEF Refreshes
      <3>3. \A n \in DOMAIN stream' : stream'[n].type = "answer" =>
             /\ stream'[n].id \in Ids /\ tasks'[stream'[n].id].pc # "none"
             /\ stream'[n].epoch >= retired'
        BY <1>0, <1>f, <2>1, <2>2, Bounds DEF Refreshes
      <3>4. \A n \in DOMAIN stream' : stream'[n].type = "refresh" => stream'[n].epoch > retired'
        BY <1>0, <1>f, <2>1, <2>2, Bounds DEF Refreshes
      <3>5. \A n, m \in DOMAIN stream' : m < n =>
             /\ stream'[m].epoch <= stream'[n].epoch
             /\ stream'[n].type = "refresh" => stream'[m].epoch < stream'[n].epoch
        BY <1>0, <1>f, <2>1, <2>2, Bounds DEF Refreshes
      <3> QED
        BY <3>1, <3>2, <3>3, <3>4, <3>5 DEF Refreshes
    <2>8. Fresh'
      <3>1. cache'.live /\ cache'.items # None => cache'.items.epoch >= retired'
        BY <1>0, <1>f, <2>1, <2>2, Bounds
           DEF Fresh, Matches, ListPcs, PickedPcs, RunPcs
      <3>2. \A j \in Ids : tasks'[j].pc \in {"listed"} \union PickedPcs
                         /\ Matches(tasks[j].gen)' => tasks'[j].item.epoch >= retired'
        BY <1>0, <1>f, <2>1, <2>2, Bounds
           DEF Fresh, Matches, ListPcs, PickedPcs, RunPcs
      <3> QED
        BY <3>1, <3>2 DEF Fresh
    <2>9. LensInv'
      <3> SUFFICES ASSUME feature = "lens" PROVE Quiet' /\ OfTheText'
        BY <1>f DEF LensInv
      <3>1. Quiet /\ OfTheText
        BY <1>0 DEF LensInv
      <3>2. Quiet'
        <4>1. asked' # None =>
               /\ timer' = FALSE
               /\ \A m \in DOMAIN input' : input'[m].type = "change" =>
                     \E k \in DOMAIN input' :
                        k > m /\ input'[k].type = "list" /\ input'[k].id = asked'.id
               /\ loop' # Idle => \E k \in DOMAIN input' :
                                    input'[k].type = "list" /\ input'[k].id = asked'.id
          BY <1>0, <1>f, <2>1, <2>2, <3>1
             DEF Quiet, Matches, PickedPcs, RunPcs
        <4>2. shown' # None => /\ timer' = FALSE /\ loop' = Idle
                                /\ \A m \in DOMAIN input' : input'[m].type # "change"
          BY <1>0, <1>f, <2>1, <2>2, <3>1
             DEF Quiet, Matches, PickedPcs, RunPcs
        <4>3. \A k \in DOMAIN input' : input'[k].type = "run" =>
               \A m \in DOMAIN input' : m < k => input'[m].type # "change"
          BY <1>0, <1>f, <2>1, <2>2, <3>1
             DEF Quiet, Matches, PickedPcs, RunPcs
        <4>4. loop' # Idle => \A k \in DOMAIN input' : input'[k].type # "run"
          BY <1>0, <1>f, <2>1, <2>2, <3>1
             DEF Quiet, Matches, PickedPcs, RunPcs
        <4>5. loop' # Idle =>
               \A j \in Ids : tasks'[j].pc \in RunPcs => ~Matches(tasks[j].gen)'
          BY <1>0, <1>f, <2>1, <2>2, <3>1
             DEF Quiet, Matches, PickedPcs, RunPcs
        <4> QED
          BY <4>1, <4>2, <4>3, <4>4, <4>5 DEF Quiet
      <3>3. OfTheText'
        <4>1. \A g \in Ids :
               Matches(g)' /\ (Given(g) \/ (asked # None /\ asked.id = g))' =>
                  (cache'.items # None => cache'.items.snap = doc')
          BY <1>0, <1>f, <2>1, <2>2, <2>3, <3>1
             DEF OfTheText, Matches, PickedPcs, RunPcs
        <4>2. \A g \in Ids :
               Matches(g)' /\ (Given(g) \/ (asked # None /\ asked.id = g))' =>
                  (tasks'[g].pc \in {"asked", "listed"} => tasks'[g].item.snap = doc')
          BY <1>0, <1>f, <2>1, <2>2, <2>3, <3>1
             DEF OfTheText, Matches, PickedPcs, RunPcs
        <4>3. \A j \in Ids : tasks'[j].pc \in PickedPcs /\ Matches(tasks[j].gen)' =>
               tasks'[j].item.snap = doc'
          BY <1>0, <1>f, <2>1, <2>2, <2>3, <3>1
             DEF OfTheText, Matches, PickedPcs, RunPcs
        <4> QED
          BY <4>1, <4>2, <4>3 DEF OfTheText
      <3> QED
        BY <3>2, <3>3
    <2>10. Results'
      BY <1>0, <1>f, <2>1, <2>2
         DEF Results, LensOnItsText, CommandFromShownReply, NoCommandAfterRefresh
    <2> QED
      BY <2>4, <2>5, <2>6, <2>7, <2>8, <2>9, <2>10 DEF Inv
  <1>22. CASE ServerRefreshes
    <2>1. /\ epoch < MaxRefresh /\ epoch' = epoch + 1
          /\ stream' = Append(stream, [type |-> "refresh", id |-> 0, epoch |-> epoch + 1])
          /\ UNCHANGED <<tick, textChanged, timer, sent, lastId, asked, shown,
                         running, applied, input, loop, tasks, cache, refreshes,
                         output, doc, retired, command>>
      BY <1>22 DEF ServerRefreshes, editorVars, daemonVars
    <2>2. /\ stream' \in Seq(Answers) /\ epoch' \in 0 .. MaxRefresh
          /\ \A n \in DOMAIN stream : n \in Nat /\ stream[n].epoch \in 0 .. MaxRefresh
          /\ Len(stream) \in Nat /\ epoch \in Nat /\ retired \in Nat
          /\ \A n \in DOMAIN stream' :
                \/ /\ n \in DOMAIN stream /\ stream'[n] = stream[n]
                   /\ n \in Nat /\ n < Len(stream) + 1
                \/ /\ n = Len(stream) + 1 /\ stream'[n].type = "refresh"
                   /\ stream'[n].epoch = epoch + 1
      <3>1. epoch \in 0 .. MaxRefresh /\ epoch + 1 \in 0 .. MaxRefresh
        BY <1>0, <2>1, Numbers, Bounds
      <3>2. [type |-> "refresh", id |-> 0, epoch |-> epoch + 1] \in Answers
        BY <3>1, Bounds DEF Answers
      <3>3. retired \in Nat /\ epoch \in Nat
        BY <1>0, Numbers, Bounds
      <3>4. /\ stream' \in Seq(Answers) /\ Len(stream) \in Nat
            /\ \A n \in DOMAIN stream : n \in Nat /\ stream[n].epoch \in 0 .. MaxRefresh
            /\ \A n \in DOMAIN stream' :
                  \/ /\ n \in DOMAIN stream /\ stream'[n] = stream[n]
                     /\ n \in Nat /\ n < Len(stream) + 1
                  \/ /\ n = Len(stream) + 1
                     /\ stream'[n] = [type |-> "refresh", id |-> 0, epoch |-> epoch + 1]
        BY <1>0, <2>1, <3>2, Streaming
      <3> QED
        BY <2>1, <3>1, <3>3, <3>4
    <2>3. \A g \in Ids : Given(g)' => Given(g)
      BY <1>f, <2>1, <2>2 DEF Given, RunPcs, PickedPcs
    <2>4. Shapes'
      BY <1>0, <1>f, <2>1, <2>2, Types, Typed
    <2>5. Ordered'
      <3>1. \A k \in DOMAIN input' : input'[k].type # "change" =>
             /\ input'[k].id \in 1 .. lastId' /\ input'[k].gen \in Ids
             /\ input'[k].type = "list" => input'[k].gen = input'[k].id
             /\ cache'.gen < input'[k].id
        BY <1>0, <1>f, <2>1, <2>2, Bounds DEF Ordered
      <3>2. \A k \in DOMAIN input' : input'[k].type # "change" =>
             \A j \in Ids : tasks'[j].pc # "none" => j < input'[k].id
        BY <1>0, <1>f, <2>1, <2>2, Bounds DEF Ordered
      <3>3. \A k, m \in DOMAIN input' :
             input'[k].type # "change" /\ m < k /\ input'[m].type # "change" =>
                input'[m].id < input'[k].id
        BY <1>0, <1>f, <2>1, <2>2, Bounds DEF Ordered
      <3>4. /\ \A j \in Ids : tasks'[j].pc # "none" => j <= lastId'
            /\ cache'.gen <= lastId'
            /\ asked' # None => asked'.id <= lastId'
        BY <1>0, <1>f, <2>1, <2>2, Bounds DEF Ordered
      <3>5. \A p \in DOMAIN output' :
             /\ tasks'[output'[p].id].pc # "none"
             /\ output'[p].type = "list" => output'[p].id <= cache'.gen
        BY <1>0, <1>f, <2>1, <2>2, Bounds DEF Ordered
      <3> QED
        BY <3>1, <3>2, <3>3, <3>4, <3>5 DEF Ordered
    <2>6. Lists'
      <3>1. \A j \in Ids : tasks'[j].pc \in ListPcs => tasks'[j].gen = j
        BY <1>0, <1>f, <2>1, <2>2, Bounds
           DEF Lists, ListPcs, PickedPcs, RunPcs
      <3>2. \A j \in Ids : tasks'[j].pc \in {"ask", "asked", "listed"} => j <= cache'.gen
        BY <1>0, <1>f, <2>1, <2>2, Bounds
           DEF Lists, ListPcs, PickedPcs, RunPcs
      <3>3. \A j \in Ids : tasks'[j].pc \in {"asked", "listed"} => tasks'[j].item.list = j
        BY <1>0, <1>f, <2>1, <2>2, Bounds
           DEF Lists, ListPcs, PickedPcs, RunPcs
      <3>4. \A j \in Ids : tasks'[j].pc \in RunPcs => tasks'[j].gen # 0
        BY <1>0, <1>f, <2>1, <2>2, Bounds
           DEF Lists, ListPcs, PickedPcs, RunPcs
      <3>5. \A j \in Ids : tasks'[j].pc \in PickedPcs => tasks'[j].item.list = tasks'[j].gen
        BY <1>0, <1>f, <2>1, <2>2, Bounds
           DEF Lists, ListPcs, PickedPcs, RunPcs
      <3>6. cache'.items # None => cache'.live /\ cache'.items.list = cache'.gen
        BY <1>0, <1>f, <2>1, <2>2, Bounds
           DEF Lists, ListPcs, PickedPcs, RunPcs
      <3>7. \A g \in Ids : Given(g)' => g <= cache'.gen
        BY <1>0, <1>f, <2>1, <2>2, <2>3, Bounds
           DEF Lists, ListPcs, PickedPcs, RunPcs
      <3> QED
        BY <3>1, <3>2, <3>3, <3>4, <3>5, <3>6, <3>7 DEF Lists
    <2>7. Refreshes'
      <3>1. refreshes' <= retired' /\ retired' <= epoch'
        BY <1>0, <1>f, <2>1, <2>2, Bounds DEF Refreshes
      <3>2. \A n \in DOMAIN stream' : stream'[n].epoch <= epoch'
        BY <1>0, <1>f, <2>1, <2>2, Bounds DEF Refreshes
      <3>3. \A n \in DOMAIN stream' : stream'[n].type = "answer" =>
             /\ stream'[n].id \in Ids /\ tasks'[stream'[n].id].pc # "none"
             /\ stream'[n].epoch >= retired'
        BY <1>0, <1>f, <2>1, <2>2, Bounds DEF Refreshes
      <3>4. \A n \in DOMAIN stream' : stream'[n].type = "refresh" => stream'[n].epoch > retired'
        BY <1>0, <1>f, <2>1, <2>2, Bounds DEF Refreshes
      <3>5. \A n, m \in DOMAIN stream' : m < n =>
             /\ stream'[m].epoch <= stream'[n].epoch
             /\ stream'[n].type = "refresh" => stream'[m].epoch < stream'[n].epoch
        BY <1>0, <1>f, <2>1, <2>2, Bounds DEF Refreshes
      <3> QED
        BY <3>1, <3>2, <3>3, <3>4, <3>5 DEF Refreshes
    <2>8. Fresh'
      <3>1. cache'.live /\ cache'.items # None => cache'.items.epoch >= retired'
        BY <1>0, <1>f, <2>1, <2>2, Bounds
           DEF Fresh, Matches, ListPcs, PickedPcs, RunPcs
      <3>2. \A j \in Ids : tasks'[j].pc \in {"listed"} \union PickedPcs
                         /\ Matches(tasks[j].gen)' => tasks'[j].item.epoch >= retired'
        BY <1>0, <1>f, <2>1, <2>2, Bounds
           DEF Fresh, Matches, ListPcs, PickedPcs, RunPcs
      <3> QED
        BY <3>1, <3>2 DEF Fresh
    <2>9. LensInv'
      <3> SUFFICES ASSUME feature = "lens" PROVE Quiet' /\ OfTheText'
        BY <1>f DEF LensInv
      <3>1. Quiet /\ OfTheText
        BY <1>0 DEF LensInv
      <3>2. Quiet'
        <4>1. asked' # None =>
               /\ timer' = FALSE
               /\ \A m \in DOMAIN input' : input'[m].type = "change" =>
                     \E k \in DOMAIN input' :
                        k > m /\ input'[k].type = "list" /\ input'[k].id = asked'.id
               /\ loop' # Idle => \E k \in DOMAIN input' :
                                    input'[k].type = "list" /\ input'[k].id = asked'.id
          BY <1>0, <1>f, <2>1, <2>2, <3>1
             DEF Quiet, Matches, PickedPcs, RunPcs
        <4>2. shown' # None => /\ timer' = FALSE /\ loop' = Idle
                                /\ \A m \in DOMAIN input' : input'[m].type # "change"
          BY <1>0, <1>f, <2>1, <2>2, <3>1
             DEF Quiet, Matches, PickedPcs, RunPcs
        <4>3. \A k \in DOMAIN input' : input'[k].type = "run" =>
               \A m \in DOMAIN input' : m < k => input'[m].type # "change"
          BY <1>0, <1>f, <2>1, <2>2, <3>1
             DEF Quiet, Matches, PickedPcs, RunPcs
        <4>4. loop' # Idle => \A k \in DOMAIN input' : input'[k].type # "run"
          BY <1>0, <1>f, <2>1, <2>2, <3>1
             DEF Quiet, Matches, PickedPcs, RunPcs
        <4>5. loop' # Idle =>
               \A j \in Ids : tasks'[j].pc \in RunPcs => ~Matches(tasks[j].gen)'
          BY <1>0, <1>f, <2>1, <2>2, <3>1
             DEF Quiet, Matches, PickedPcs, RunPcs
        <4> QED
          BY <4>1, <4>2, <4>3, <4>4, <4>5 DEF Quiet
      <3>3. OfTheText'
        <4>1. \A g \in Ids :
               Matches(g)' /\ (Given(g) \/ (asked # None /\ asked.id = g))' =>
                  (cache'.items # None => cache'.items.snap = doc')
          BY <1>0, <1>f, <2>1, <2>2, <2>3, <3>1
             DEF OfTheText, Matches, PickedPcs, RunPcs
        <4>2. \A g \in Ids :
               Matches(g)' /\ (Given(g) \/ (asked # None /\ asked.id = g))' =>
                  (tasks'[g].pc \in {"asked", "listed"} => tasks'[g].item.snap = doc')
          BY <1>0, <1>f, <2>1, <2>2, <2>3, <3>1
             DEF OfTheText, Matches, PickedPcs, RunPcs
        <4>3. \A j \in Ids : tasks'[j].pc \in PickedPcs /\ Matches(tasks[j].gen)' =>
               tasks'[j].item.snap = doc'
          BY <1>0, <1>f, <2>1, <2>2, <2>3, <3>1
             DEF OfTheText, Matches, PickedPcs, RunPcs
        <4> QED
          BY <4>1, <4>2, <4>3 DEF OfTheText
      <3> QED
        BY <3>2, <3>3
    <2>10. Results'
      BY <1>0, <1>f, <2>1, <2>2
         DEF Results, LensOnItsText, CommandFromShownReply, NoCommandAfterRefresh
    <2> QED
      BY <2>4, <2>5, <2>6, <2>7, <2>8, <2>9, <2>10 DEF Inv
  <1>23. CASE DispatchAnswer
    <2>1. /\ stream # <<>> /\ stream' = Tail(stream) /\ Head(stream).type = "answer"
          /\ UNCHANGED <<tick, textChanged, timer, sent, lastId, asked, shown,
                         running, applied, input, loop, cache, refreshes, doc,
                         epoch, retired, command>>
      BY <1>23 DEF DispatchAnswer, editorVars
    <2>2. /\ stream' \in Seq(Answers) /\ 1 \in DOMAIN stream /\ stream[1] = Head(stream)
          /\ Head(stream).epoch \in 0 .. MaxRefresh /\ Head(stream).id \in 0 .. MaxId
          /\ \A n \in DOMAIN stream : stream[n].epoch \in 0 .. MaxRefresh
          /\ \A n \in DOMAIN stream' : /\ n \in Nat /\ 1 < n + 1
                                       /\ n + 1 \in DOMAIN stream /\ stream'[n] = stream[n + 1]
      BY <1>0, <2>1, Dispatching
    <2>3. Head(stream).id \in Ids /\ tasks[Head(stream).id].pc # "none"
          /\ Head(stream).epoch >= retired
      BY <1>0, <2>1, <2>2 DEF Refreshes
    <2>4. /\ \A j \in Ids : j # Head(stream).id => tasks'[j] = tasks[j]
          /\ tasks'[Head(stream).id].gen = tasks[Head(stream).id].gen
          /\ tasks'[Head(stream).id].item.list = tasks[Head(stream).id].item.list
          /\ tasks'[Head(stream).id].item.snap = tasks[Head(stream).id].item.snap
          /\ tasks'[Head(stream).id].pc \in {"listed", "check", "ran", "done"}
          /\ tasks'[Head(stream).id].pc = "listed" =>
                /\ tasks[Head(stream).id].pc = "asked"
                /\ tasks'[Head(stream).id].item.epoch = Head(stream).epoch
          /\ tasks'[Head(stream).id].pc = "check" =>
                /\ tasks[Head(stream).id].pc = "resolving"
                /\ tasks'[Head(stream).id].item.epoch = tasks[Head(stream).id].item.epoch
          /\ tasks' \in [Ids -> Tasks]
      <3>0. PICK i \in Ids : i = Head(stream).id
        BY <2>3
      <3>1. tasks \in [Ids -> Tasks] /\ tasks[i].item.epoch \in 0 .. MaxRefresh
            /\ Head(stream).epoch \in 0 .. MaxRefresh
        BY <1>0, <2>2, Types, TaskTypes
      <3>3. CASE tasks' = [tasks EXCEPT ![i].pc = "done"]
        BY <3>0, <3>1, <3>3 DEF Tasks, Items, Pcs
      <3>4. CASE tasks' = [tasks EXCEPT ![i].pc = AfterAnswer(i),
                                        ![i].item.epoch = IF tasks[i].pc = "asked"
                                                            THEN Head(stream).epoch ELSE @]
        <4>1. /\ AfterAnswer(i) \in {"listed", "check", "ran"} /\ AfterAnswer(i) \in Pcs
              /\ AfterAnswer(i) = "listed" => tasks[i].pc = "asked"
              /\ AfterAnswer(i) = "check" => tasks[i].pc = "resolving"
          BY DEF AfterAnswer, Pcs
        <4>2. PICK pc \in Pcs, e \in 0 .. MaxRefresh :
                 /\ pc \in {"listed", "check", "ran"}
                 /\ pc = "listed" => tasks[i].pc = "asked" /\ e = Head(stream).epoch
                 /\ pc = "check" => tasks[i].pc = "resolving" /\ e = tasks[i].item.epoch
                 /\ tasks' = [tasks EXCEPT ![i].pc = pc, ![i].item.epoch = e]
          <5>1. CASE tasks[i].pc = "asked"
            <6>1. tasks' = [tasks EXCEPT ![i].pc = AfterAnswer(i),
                                         ![i].item.epoch = Head(stream).epoch]
              BY <3>4, <5>1
            <6>2. AfterAnswer(i) = "listed"
              BY <5>1 DEF AfterAnswer
            <6> QED
              BY <3>1, <4>1, <5>1, <6>1, <6>2
          <5>2. CASE tasks[i].pc # "asked"
            <6>1. tasks' = [tasks EXCEPT ![i].pc = AfterAnswer(i),
                                         ![i].item.epoch = tasks[i].item.epoch]
              BY <3>1, <3>4, <5>2 DEF Tasks, Items
            <6> QED
              BY <3>1, <4>1, <5>2, <6>1
          <5> QED
            BY <5>1, <5>2
        <4>3. tasks' \in [Ids -> Tasks]
          <5>1. tasks' = [tasks EXCEPT ![i].pc = pc, ![i].item.epoch = e]
            BY <4>2
          <5>2. pc \in Pcs /\ e \in 0 .. MaxRefresh /\ tasks \in [Ids -> Tasks]
            BY <3>1
          <5> DEFINE t == [tasks[i] EXCEPT !.pc = pc, !.item.epoch = e]
          <5>3. tasks[i] \in Tasks
            BY <5>2
          <5>4. t \in Tasks
            BY <5>2, <5>3 DEF Tasks, Items
          <5>5. tasks' = [tasks EXCEPT ![i] = t]
            BY <5>1
          <5> HIDE DEF t
          <5> QED
            BY <5>2, <5>4, <5>5
        <4>4. \A j \in Ids : j # i => tasks'[j] = tasks[j]
          BY <3>1, <4>2
        <4>5. /\ tasks'[i].gen = tasks[i].gen /\ tasks'[i].pc = pc
              /\ tasks'[i].item.list = tasks[i].item.list
              /\ tasks'[i].item.snap = tasks[i].item.snap
              /\ tasks'[i].item.epoch = e
          BY <3>1, <4>2 DEF Tasks, Items
        <4> QED
          BY <3>0, <4>2, <4>3, <4>4, <4>5
      <3>5. \/ tasks' = [tasks EXCEPT ![Head(stream).id].pc = "done"]
            \/ tasks' = [tasks EXCEPT ![Head(stream).id].pc = AfterAnswer(Head(stream).id),
                                      ![Head(stream).id].item.epoch =
                                         IF tasks[Head(stream).id].pc = "asked"
                                           THEN Head(stream).epoch ELSE @]
        BY <1>23 DEF DispatchAnswer, Refuse, Moved
      <3> QED
        BY <3>0, <3>3, <3>4, <3>5
    <2>5. /\ output' \in Seq(Replies)
          /\ \A p \in DOMAIN output' :
                \/ p \in DOMAIN output /\ output'[p] = output[p]
                \/ output'[p].id = Head(stream).id /\ output'[p].type = "error"
      <3>1. output \in Seq(Replies)
        BY <1>0, Types
      <3>2. CASE output' = output
        BY <3>1, <3>2
      <3>3. CASE output' = Reply("error", Head(stream).id, 0)
        <4>1. [type |-> "error", id |-> Head(stream).id, on |-> 0] \in Replies
          BY <2>3, Bounds DEF Replies
        <4> QED
          BY <1>0, <3>3, <4>1, Saying DEF Reply
      <3> QED
        BY <1>23, <3>2, <3>3 DEF DispatchAnswer, Refuse
    <2>6. /\ \A j \in Ids : tasks'[j].gen = tasks[j].gen
          /\ \A j \in Ids : tasks[j].pc # "none" <=> tasks'[j].pc # "none"
          /\ \A p \in DOMAIN output : output[p].id \in Ids
      <3>1. \A j \in Ids : tasks[j].pc # "none" <=> tasks'[j].pc # "none"
        BY <2>3, <2>4
      <3> QED
        BY <1>0, <2>4, <3>1, Replied
    <2>7. \A g \in Ids : Given(g)' => Given(g)
      BY <1>f, <2>1, <2>2, <2>3, <2>4, <2>5, <2>6 DEF Given, RunPcs, PickedPcs
    <2>8. Shapes'
      BY <1>0, <1>f, <2>1, <2>2, <2>3, <2>4, <2>5, <2>6, Types, Typed
    <2>9. Ordered'
      <3>1. \A k \in DOMAIN input' : input'[k].type # "change" =>
             /\ input'[k].id \in 1 .. lastId' /\ input'[k].gen \in Ids
             /\ input'[k].type = "list" => input'[k].gen = input'[k].id
             /\ cache'.gen < input'[k].id
        BY <1>0, <2>1, <2>2, <2>3, <2>4, <2>5, <2>6, Bounds DEF Ordered
      <3>2. \A k \in DOMAIN input' : input'[k].type # "change" =>
             \A j \in Ids : tasks'[j].pc # "none" => j < input'[k].id
        BY <1>0, <2>1, <2>2, <2>3, <2>4, <2>5, <2>6, Bounds DEF Ordered
      <3>3. \A k, m \in DOMAIN input' :
             input'[k].type # "change" /\ m < k /\ input'[m].type # "change" =>
                input'[m].id < input'[k].id
        BY <1>0, <2>1, <2>2, <2>3, <2>4, <2>5, <2>6, Bounds DEF Ordered
      <3>4. /\ \A j \in Ids : tasks'[j].pc # "none" => j <= lastId'
            /\ cache'.gen <= lastId'
            /\ asked' # None => asked'.id <= lastId'
        BY <1>0, <2>1, <2>2, <2>3, <2>4, <2>5, <2>6, Bounds DEF Ordered
      <3>5. \A p \in DOMAIN output' :
             /\ tasks'[output'[p].id].pc # "none"
             /\ output'[p].type = "list" => output'[p].id <= cache'.gen
        BY <1>0, <2>1, <2>2, <2>3, <2>4, <2>5, <2>6, Bounds DEF Ordered
      <3> QED
        BY <3>1, <3>2, <3>3, <3>4, <3>5 DEF Ordered
    <2>10. Lists'
      <3>1. \A j \in Ids : tasks'[j].pc \in ListPcs => tasks'[j].gen = j
        BY <1>0, <2>3, <2>4 DEF Lists, ListPcs
      <3>2. \A j \in Ids : tasks'[j].pc \in {"ask", "asked", "listed"} => j <= cache'.gen
        BY <1>0, <2>1, <2>3, <2>4 DEF Lists
      <3>3. \A j \in Ids : tasks'[j].pc \in {"asked", "listed"} => tasks'[j].item.list = j
        BY <1>0, <2>3, <2>4 DEF Lists
      <3>4. \A j \in Ids : tasks'[j].pc \in RunPcs => tasks'[j].gen # 0
        BY <1>0, <2>3, <2>4 DEF Lists, PickedPcs, RunPcs
      <3>5. \A j \in Ids : tasks'[j].pc \in PickedPcs => tasks'[j].item.list = tasks'[j].gen
        BY <1>0, <2>3, <2>4 DEF Lists, PickedPcs
      <3>6. cache'.items # None => cache'.live /\ cache'.items.list = cache'.gen
        BY <1>0, <2>1, <2>2, <2>3, <2>4, <2>5, <2>6, Bounds
           DEF Lists, ListPcs, PickedPcs, RunPcs
      <3>7. \A g \in Ids : Given(g)' => g <= cache'.gen
        BY <1>0, <2>1, <2>2, <2>3, <2>4, <2>5, <2>6, <2>7, Bounds
           DEF Lists, ListPcs, PickedPcs, RunPcs
      <3> QED
        BY <3>1, <3>2, <3>3, <3>4, <3>5, <3>6, <3>7 DEF Lists
    <2>11. Refreshes'
      <3>1. refreshes' <= retired' /\ retired' <= epoch'
        BY <1>0, <2>1, <2>2, <2>3, <2>4, <2>5, <2>6 DEF Refreshes
      <3>2. \A n \in DOMAIN stream' : stream'[n].epoch <= epoch'
        BY <1>0, <2>1, <2>2, <2>3, <2>4, <2>5, <2>6 DEF Refreshes
      <3>3. \A n \in DOMAIN stream' : stream'[n].type = "answer" =>
             /\ stream'[n].id \in Ids /\ tasks'[stream'[n].id].pc # "none"
             /\ stream'[n].epoch >= retired'
        BY <1>0, <2>1, <2>2, <2>3, <2>4, <2>5, <2>6 DEF Refreshes
      <3>4. \A n \in DOMAIN stream' : stream'[n].type = "refresh" => stream'[n].epoch > retired'
        BY <1>0, <2>1, <2>2, <2>3, <2>4, <2>5, <2>6 DEF Refreshes
      <3>5. \A n, m \in DOMAIN stream' : m < n =>
             /\ stream'[m].epoch <= stream'[n].epoch
             /\ stream'[n].type = "refresh" => stream'[m].epoch < stream'[n].epoch
        BY <1>0, <2>1, <2>2, <2>3, <2>4, <2>5, <2>6 DEF Refreshes
      <3> QED
        BY <3>1, <3>2, <3>3, <3>4, <3>5 DEF Refreshes
    <2>12. Fresh'
      <3>1. cache'.live /\ cache'.items # None => cache'.items.epoch >= retired'
        BY <1>0, <2>1, <2>2, <2>3, <2>4, <2>5, <2>6
           DEF Fresh, Matches, ListPcs, PickedPcs, RunPcs
      <3>2. \A j \in Ids : tasks'[j].pc \in {"listed"} \union PickedPcs
                         /\ Matches(tasks[j].gen)' => tasks'[j].item.epoch >= retired'
        BY <1>0, <2>1, <2>2, <2>3, <2>4, <2>5, <2>6
           DEF Fresh, Matches, ListPcs, PickedPcs, RunPcs
      <3> QED
        BY <3>1, <3>2 DEF Fresh
    <2>13. LensInv'
      <3> SUFFICES ASSUME feature = "lens" PROVE Quiet' /\ OfTheText'
        BY <1>f DEF LensInv
      <3>1. Quiet /\ OfTheText
        BY <1>0 DEF LensInv
      <3>2. Quiet'
        <4>1. asked' # None =>
               /\ timer' = FALSE
               /\ \A m \in DOMAIN input' : input'[m].type = "change" =>
                     \E k \in DOMAIN input' :
                        k > m /\ input'[k].type = "list" /\ input'[k].id = asked'.id
               /\ loop' # Idle => \E k \in DOMAIN input' :
                                    input'[k].type = "list" /\ input'[k].id = asked'.id
          BY <1>0, <2>1, <2>2, <2>3, <2>4, <2>5, <2>6, <3>1
             DEF Quiet, Matches, PickedPcs, RunPcs
        <4>2. shown' # None => /\ timer' = FALSE /\ loop' = Idle
                                /\ \A m \in DOMAIN input' : input'[m].type # "change"
          BY <1>0, <2>1, <2>2, <2>3, <2>4, <2>5, <2>6, <3>1
             DEF Quiet, Matches, PickedPcs, RunPcs
        <4>3. \A k \in DOMAIN input' : input'[k].type = "run" =>
               \A m \in DOMAIN input' : m < k => input'[m].type # "change"
          BY <1>0, <2>1, <2>2, <2>3, <2>4, <2>5, <2>6, <3>1
             DEF Quiet, Matches, PickedPcs, RunPcs
        <4>4. loop' # Idle => \A k \in DOMAIN input' : input'[k].type # "run"
          BY <1>0, <2>1, <2>2, <2>3, <2>4, <2>5, <2>6, <3>1
             DEF Quiet, Matches, PickedPcs, RunPcs
        <4>5. loop' # Idle =>
               \A j \in Ids : tasks'[j].pc \in RunPcs => ~Matches(tasks[j].gen)'
          BY <1>0, <2>1, <2>2, <2>3, <2>4, <2>5, <2>6, <3>1
             DEF Quiet, Matches, PickedPcs, RunPcs
        <4> QED
          BY <4>1, <4>2, <4>3, <4>4, <4>5 DEF Quiet
      <3>3. OfTheText'
        <4>1. \A g \in Ids :
               Matches(g)' /\ (Given(g) \/ (asked # None /\ asked.id = g))' =>
                  (cache'.items # None => cache'.items.snap = doc')
          BY <1>0, <2>1, <2>2, <2>3, <2>4, <2>5, <2>6, <2>7, <3>1
             DEF OfTheText, Matches, PickedPcs, RunPcs
        <4>2. \A g \in Ids :
               Matches(g)' /\ (Given(g) \/ (asked # None /\ asked.id = g))' =>
                  (tasks'[g].pc \in {"asked", "listed"} => tasks'[g].item.snap = doc')
          BY <1>0, <2>1, <2>2, <2>3, <2>4, <2>5, <2>6, <2>7, <3>1
             DEF OfTheText, Matches, PickedPcs, RunPcs
        <4>3. \A j \in Ids : tasks'[j].pc \in PickedPcs /\ Matches(tasks[j].gen)' =>
               tasks'[j].item.snap = doc'
          BY <1>0, <2>1, <2>2, <2>3, <2>4, <2>5, <2>6, <2>7, <3>1
             DEF OfTheText, Matches, PickedPcs, RunPcs
        <4> QED
          BY <4>1, <4>2, <4>3 DEF OfTheText
      <3> QED
        BY <3>2, <3>3
    <2>14. Results'
      BY <1>0, <1>f, <2>1, <2>2, <2>3, <2>4, <2>5, <2>6
         DEF Results, LensOnItsText, CommandFromShownReply, NoCommandAfterRefresh
    <2> QED
      BY <2>8, <2>9, <2>10, <2>11, <2>12, <2>13, <2>14 DEF Inv
  <1>24. CASE DispatchRefresh
    <2>1. /\ stream # <<>> /\ stream' = Tail(stream) /\ Head(stream).type = "refresh"
          /\ retired' = Head(stream).epoch /\ refreshes' = refreshes + 1
          /\ cache' = [cache EXCEPT !.live = FALSE, !.items = None]
          /\ UNCHANGED <<tick, textChanged, timer, sent, lastId, asked, shown,
                         running, applied, input, loop, tasks, output, doc, epoch,
                         command>>
      BY <1>24 DEF DispatchRefresh, Invalidated, editorVars
    <2>2. /\ stream' \in Seq(Answers) /\ 1 \in DOMAIN stream /\ stream[1] = Head(stream)
          /\ Head(stream).epoch \in 0 .. MaxRefresh /\ Head(stream).id \in 0 .. MaxId
          /\ \A n \in DOMAIN stream : stream[n].epoch \in 0 .. MaxRefresh
          /\ \A n \in DOMAIN stream' : /\ n \in Nat /\ 1 < n + 1
                                       /\ n + 1 \in DOMAIN stream /\ stream'[n] = stream[n + 1]
      BY <1>0, <2>1, Dispatching
    <2>3. /\ cache' \in [gen : 0 .. MaxId, live : BOOLEAN, items : {None} \union Items]
          /\ cache'.gen = cache.gen /\ cache'.live = FALSE /\ cache'.items = None
      BY <1>0, <2>1, Types
    <2>4. /\ refreshes \in Nat /\ retired \in Nat /\ epoch \in Nat /\ Head(stream).epoch > retired
          /\ refreshes' <= retired' /\ refreshes' \in 0 .. MaxRefresh
      <3>1. Head(stream).epoch > retired /\ refreshes <= retired
        BY <1>0, <2>1, <2>2 DEF Refreshes
      <3>2. refreshes \in Nat /\ retired \in Nat /\ epoch \in Nat
        BY <1>0, Types, Bounds
      <3> QED
        BY <2>1, <2>2, <3>1, <3>2, Bounds
    <2>5. \A g \in Ids : Given(g)' => Given(g)
      BY <1>f, <2>1, <2>2, <2>3, <2>4 DEF Given, RunPcs, PickedPcs
    <2>6. Shapes'
      BY <1>0, <1>f, <2>1, <2>2, <2>3, <2>4, Types, Typed
    <2>7. Ordered'
      <3>1. \A k \in DOMAIN input' : input'[k].type # "change" =>
             /\ input'[k].id \in 1 .. lastId' /\ input'[k].gen \in Ids
             /\ input'[k].type = "list" => input'[k].gen = input'[k].id
             /\ cache'.gen < input'[k].id
        BY <1>0, <1>f, <2>1, <2>2, <2>3, <2>4, Bounds DEF Ordered
      <3>2. \A k \in DOMAIN input' : input'[k].type # "change" =>
             \A j \in Ids : tasks'[j].pc # "none" => j < input'[k].id
        BY <1>0, <1>f, <2>1, <2>2, <2>3, <2>4, Bounds DEF Ordered
      <3>3. \A k, m \in DOMAIN input' :
             input'[k].type # "change" /\ m < k /\ input'[m].type # "change" =>
                input'[m].id < input'[k].id
        BY <1>0, <1>f, <2>1, <2>2, <2>3, <2>4, Bounds DEF Ordered
      <3>4. /\ \A j \in Ids : tasks'[j].pc # "none" => j <= lastId'
            /\ cache'.gen <= lastId'
            /\ asked' # None => asked'.id <= lastId'
        BY <1>0, <1>f, <2>1, <2>2, <2>3, <2>4, Bounds DEF Ordered
      <3>5. \A p \in DOMAIN output' :
             /\ tasks'[output'[p].id].pc # "none"
             /\ output'[p].type = "list" => output'[p].id <= cache'.gen
        BY <1>0, <1>f, <2>1, <2>2, <2>3, <2>4, Bounds DEF Ordered
      <3> QED
        BY <3>1, <3>2, <3>3, <3>4, <3>5 DEF Ordered
    <2>8. Lists'
      <3>1. \A j \in Ids : tasks'[j].pc \in ListPcs => tasks'[j].gen = j
        BY <1>0, <1>f, <2>1, <2>2, <2>3, <2>4, Bounds
           DEF Lists, ListPcs, PickedPcs, RunPcs
      <3>2. \A j \in Ids : tasks'[j].pc \in {"ask", "asked", "listed"} => j <= cache'.gen
        BY <1>0, <1>f, <2>1, <2>2, <2>3, <2>4, Bounds
           DEF Lists, ListPcs, PickedPcs, RunPcs
      <3>3. \A j \in Ids : tasks'[j].pc \in {"asked", "listed"} => tasks'[j].item.list = j
        BY <1>0, <1>f, <2>1, <2>2, <2>3, <2>4, Bounds
           DEF Lists, ListPcs, PickedPcs, RunPcs
      <3>4. \A j \in Ids : tasks'[j].pc \in RunPcs => tasks'[j].gen # 0
        BY <1>0, <1>f, <2>1, <2>2, <2>3, <2>4, Bounds
           DEF Lists, ListPcs, PickedPcs, RunPcs
      <3>5. \A j \in Ids : tasks'[j].pc \in PickedPcs => tasks'[j].item.list = tasks'[j].gen
        BY <1>0, <1>f, <2>1, <2>2, <2>3, <2>4, Bounds
           DEF Lists, ListPcs, PickedPcs, RunPcs
      <3>6. cache'.items # None => cache'.live /\ cache'.items.list = cache'.gen
        BY <1>0, <1>f, <2>1, <2>2, <2>3, <2>4, Bounds
           DEF Lists, ListPcs, PickedPcs, RunPcs
      <3>7. \A g \in Ids : Given(g)' => g <= cache'.gen
        BY <1>0, <1>f, <2>1, <2>2, <2>3, <2>4, <2>5, Bounds
           DEF Lists, ListPcs, PickedPcs, RunPcs
      <3> QED
        BY <3>1, <3>2, <3>3, <3>4, <3>5, <3>6, <3>7 DEF Lists
    <2>9. Refreshes'
      <3>1. refreshes' <= retired' /\ retired' <= epoch'
        BY <1>0, <1>f, <2>1, <2>2, <2>3, <2>4, Bounds DEF Refreshes
      <3>2. \A n \in DOMAIN stream' : stream'[n].epoch <= epoch'
        BY <1>0, <1>f, <2>1, <2>2, <2>3, <2>4, Bounds DEF Refreshes
      <3>3. \A n \in DOMAIN stream' : stream'[n].type = "answer" =>
             /\ stream'[n].id \in Ids /\ tasks'[stream'[n].id].pc # "none"
             /\ stream'[n].epoch >= retired'
        BY <1>0, <1>f, <2>1, <2>2, <2>3, <2>4, Bounds DEF Refreshes
      <3>4. \A n \in DOMAIN stream' : stream'[n].type = "refresh" => stream'[n].epoch > retired'
        BY <1>0, <1>f, <2>1, <2>2, <2>3, <2>4, Bounds DEF Refreshes
      <3>5. \A n, m \in DOMAIN stream' : m < n =>
             /\ stream'[m].epoch <= stream'[n].epoch
             /\ stream'[n].type = "refresh" => stream'[m].epoch < stream'[n].epoch
        <4>1. \A n, m \in DOMAIN stream' : m < n => m + 1 < n + 1
          BY <2>2
        <4> QED
          BY <1>0, <2>2, <4>1 DEF Refreshes
      <3> QED
        BY <3>1, <3>2, <3>3, <3>4, <3>5 DEF Refreshes
    <2>10. Fresh'
      <3>1. cache'.live /\ cache'.items # None => cache'.items.epoch >= retired'
        BY <1>0, <1>f, <2>1, <2>2, <2>3, <2>4, Bounds
           DEF Fresh, Matches, ListPcs, PickedPcs, RunPcs
      <3>2. \A j \in Ids : tasks'[j].pc \in {"listed"} \union PickedPcs
                         /\ Matches(tasks[j].gen)' => tasks'[j].item.epoch >= retired'
        BY <1>0, <1>f, <2>1, <2>2, <2>3, <2>4, Bounds
           DEF Fresh, Matches, ListPcs, PickedPcs, RunPcs
      <3> QED
        BY <3>1, <3>2 DEF Fresh
    <2>11. LensInv'
      <3> SUFFICES ASSUME feature = "lens" PROVE Quiet' /\ OfTheText'
        BY <1>f DEF LensInv
      <3>1. Quiet /\ OfTheText
        BY <1>0 DEF LensInv
      <3>2. Quiet'
        <4>1. asked' # None =>
               /\ timer' = FALSE
               /\ \A m \in DOMAIN input' : input'[m].type = "change" =>
                     \E k \in DOMAIN input' :
                        k > m /\ input'[k].type = "list" /\ input'[k].id = asked'.id
               /\ loop' # Idle => \E k \in DOMAIN input' :
                                    input'[k].type = "list" /\ input'[k].id = asked'.id
          BY <1>0, <1>f, <2>1, <2>2, <2>3, <2>4, <3>1
             DEF Quiet, Matches, PickedPcs, RunPcs
        <4>2. shown' # None => /\ timer' = FALSE /\ loop' = Idle
                                /\ \A m \in DOMAIN input' : input'[m].type # "change"
          BY <1>0, <1>f, <2>1, <2>2, <2>3, <2>4, <3>1
             DEF Quiet, Matches, PickedPcs, RunPcs
        <4>3. \A k \in DOMAIN input' : input'[k].type = "run" =>
               \A m \in DOMAIN input' : m < k => input'[m].type # "change"
          BY <1>0, <1>f, <2>1, <2>2, <2>3, <2>4, <3>1
             DEF Quiet, Matches, PickedPcs, RunPcs
        <4>4. loop' # Idle => \A k \in DOMAIN input' : input'[k].type # "run"
          BY <1>0, <1>f, <2>1, <2>2, <2>3, <2>4, <3>1
             DEF Quiet, Matches, PickedPcs, RunPcs
        <4>5. loop' # Idle =>
               \A j \in Ids : tasks'[j].pc \in RunPcs => ~Matches(tasks[j].gen)'
          BY <1>0, <1>f, <2>1, <2>2, <2>3, <2>4, <3>1
             DEF Quiet, Matches, PickedPcs, RunPcs
        <4> QED
          BY <4>1, <4>2, <4>3, <4>4, <4>5 DEF Quiet
      <3>3. OfTheText'
        <4>1. \A g \in Ids :
               Matches(g)' /\ (Given(g) \/ (asked # None /\ asked.id = g))' =>
                  (cache'.items # None => cache'.items.snap = doc')
          BY <1>0, <1>f, <2>1, <2>2, <2>3, <2>4, <2>5, <3>1
             DEF OfTheText, Matches, PickedPcs, RunPcs
        <4>2. \A g \in Ids :
               Matches(g)' /\ (Given(g) \/ (asked # None /\ asked.id = g))' =>
                  (tasks'[g].pc \in {"asked", "listed"} => tasks'[g].item.snap = doc')
          BY <1>0, <1>f, <2>1, <2>2, <2>3, <2>4, <2>5, <3>1
             DEF OfTheText, Matches, PickedPcs, RunPcs
        <4>3. \A j \in Ids : tasks'[j].pc \in PickedPcs /\ Matches(tasks[j].gen)' =>
               tasks'[j].item.snap = doc'
          BY <1>0, <1>f, <2>1, <2>2, <2>3, <2>4, <2>5, <3>1
             DEF OfTheText, Matches, PickedPcs, RunPcs
        <4> QED
          BY <4>1, <4>2, <4>3 DEF OfTheText
      <3> QED
        BY <3>2, <3>3
    <2>12. Results'
      BY <1>0, <1>f, <2>1, <2>2, <2>3, <2>4
         DEF Results, LensOnItsText, CommandFromShownReply, NoCommandAfterRefresh
    <2> QED
      BY <2>6, <2>7, <2>8, <2>9, <2>10, <2>11, <2>12 DEF Inv
  <1>25. ASSUME NEW i \in Ids, TimesOut(i) PROVE Inv'
    <2>1. tasks[i].pc # "none" /\ UNCHANGED <<tick, textChanged, timer, sent, lastId,
                                             asked, shown, running, applied, input,
                                             loop, refreshes, doc, epoch, stream,
                                             retired, command>>
      BY <1>25 DEF TimesOut, editorVars, serverVars
    <2>2. /\ \A j \in Ids : j # i => tasks'[j] = tasks[j]
          /\ tasks'[i].gen = tasks[i].gen /\ tasks'[i].item = tasks[i].item
          /\ tasks'[i].pc \in {"check", "done"}
          /\ tasks'[i].pc = "check" => tasks[i].pc = "resolving"
          /\ tasks' \in [Ids -> Tasks]
      <3>1. tasks \in [Ids -> Tasks]
        BY <1>0, Types
      <3>2. PICK pc \in {"check", "done"} : /\ tasks' = [tasks EXCEPT ![i].pc = pc]
                                            /\ pc = "check" => tasks[i].pc = "resolving"
        BY <1>25 DEF TimesOut, KeepsGoing, Refuse, Moved
      <3> QED
        BY <3>1, <3>2 DEF Tasks, Pcs
    <2>3. /\ output' \in Seq(Replies)
          /\ \A p \in DOMAIN output' :
                \/ p \in DOMAIN output /\ output'[p] = output[p]
                \/ output'[p].id = i /\ output'[p].type = "error"
      <3>1. output \in Seq(Replies)
        BY <1>0, Types
      <3>2. CASE output' = output
        BY <3>1, <3>2
      <3>3. CASE output' = Reply("error", i, 0)
        <4>1. [type |-> "error", id |-> i, on |-> 0] \in Replies
          BY Bounds DEF Replies
        <4> QED
          BY <1>0, <3>3, <4>1, Saying DEF Reply
      <3> QED
        BY <1>25, <3>2, <3>3 DEF TimesOut, Refuse
    <2>4. UNCHANGED cache
      BY <1>25 DEF TimesOut
    <2>5. /\ \A j \in Ids : tasks'[j].gen = tasks[j].gen
          /\ \A j \in Ids : tasks[j].pc # "none" <=> tasks'[j].pc # "none"
          /\ \A p \in DOMAIN output : output[p].id \in Ids
      <3>1. \A j \in Ids : tasks[j].pc # "none" <=> tasks'[j].pc # "none"
        BY <2>1, <2>2
      <3> QED
        BY <1>0, <2>2, <3>1, Replied
    <2>6. \A g \in Ids : Given(g)' => Given(g)
      BY <1>f, <2>1, <2>2, <2>3, <2>4, <2>5 DEF Given, RunPcs, PickedPcs
    <2>7. Shapes'
      BY <1>0, <1>f, <2>1, <2>2, <2>3, <2>4, <2>5, Types, Typed
    <2>8. Ordered'
      <3>1. \A k \in DOMAIN input' : input'[k].type # "change" =>
             /\ input'[k].id \in 1 .. lastId' /\ input'[k].gen \in Ids
             /\ input'[k].type = "list" => input'[k].gen = input'[k].id
             /\ cache'.gen < input'[k].id
        BY <1>0, <2>1, <2>2, <2>3, <2>4, <2>5, Bounds DEF Ordered
      <3>2. \A k \in DOMAIN input' : input'[k].type # "change" =>
             \A j \in Ids : tasks'[j].pc # "none" => j < input'[k].id
        BY <1>0, <2>1, <2>2, <2>3, <2>4, <2>5, Bounds DEF Ordered
      <3>3. \A k, m \in DOMAIN input' :
             input'[k].type # "change" /\ m < k /\ input'[m].type # "change" =>
                input'[m].id < input'[k].id
        BY <1>0, <2>1, <2>2, <2>3, <2>4, <2>5, Bounds DEF Ordered
      <3>4. /\ \A j \in Ids : tasks'[j].pc # "none" => j <= lastId'
            /\ cache'.gen <= lastId'
            /\ asked' # None => asked'.id <= lastId'
        BY <1>0, <2>1, <2>2, <2>3, <2>4, <2>5, Bounds DEF Ordered
      <3>5. \A p \in DOMAIN output' :
             /\ tasks'[output'[p].id].pc # "none"
             /\ output'[p].type = "list" => output'[p].id <= cache'.gen
        BY <1>0, <2>1, <2>2, <2>3, <2>4, <2>5, Bounds DEF Ordered
      <3> QED
        BY <3>1, <3>2, <3>3, <3>4, <3>5 DEF Ordered
    <2>9. Lists'
      <3>1. \A j \in Ids : tasks'[j].pc \in ListPcs => tasks'[j].gen = j
        BY <1>0, <2>1, <2>2, <2>3, <2>4, <2>5, Bounds
           DEF Lists, ListPcs, PickedPcs, RunPcs
      <3>2. \A j \in Ids : tasks'[j].pc \in {"ask", "asked", "listed"} => j <= cache'.gen
        BY <1>0, <2>1, <2>2, <2>3, <2>4, <2>5, Bounds
           DEF Lists, ListPcs, PickedPcs, RunPcs
      <3>3. \A j \in Ids : tasks'[j].pc \in {"asked", "listed"} => tasks'[j].item.list = j
        BY <1>0, <2>1, <2>2, <2>3, <2>4, <2>5, Bounds
           DEF Lists, ListPcs, PickedPcs, RunPcs
      <3>4. \A j \in Ids : tasks'[j].pc \in RunPcs => tasks'[j].gen # 0
        BY <1>0, <2>1, <2>2, <2>3, <2>4, <2>5, Bounds
           DEF Lists, ListPcs, PickedPcs, RunPcs
      <3>5. \A j \in Ids : tasks'[j].pc \in PickedPcs => tasks'[j].item.list = tasks'[j].gen
        BY <1>0, <2>1, <2>2, <2>3, <2>4, <2>5, Bounds
           DEF Lists, ListPcs, PickedPcs, RunPcs
      <3>6. cache'.items # None => cache'.live /\ cache'.items.list = cache'.gen
        BY <1>0, <2>1, <2>2, <2>3, <2>4, <2>5, Bounds
           DEF Lists, ListPcs, PickedPcs, RunPcs
      <3>7. \A g \in Ids : Given(g)' => g <= cache'.gen
        BY <1>0, <2>1, <2>2, <2>3, <2>4, <2>5, <2>6, Bounds
           DEF Lists, ListPcs, PickedPcs, RunPcs
      <3> QED
        BY <3>1, <3>2, <3>3, <3>4, <3>5, <3>6, <3>7 DEF Lists
    <2>10. Refreshes'
      <3>1. refreshes' <= retired' /\ retired' <= epoch'
        BY <1>0, <2>1, <2>2, <2>3, <2>4, <2>5 DEF Refreshes
      <3>2. \A n \in DOMAIN stream' : stream'[n].epoch <= epoch'
        BY <1>0, <2>1, <2>2, <2>3, <2>4, <2>5 DEF Refreshes
      <3>3. \A n \in DOMAIN stream' : stream'[n].type = "answer" =>
             /\ stream'[n].id \in Ids /\ tasks'[stream'[n].id].pc # "none"
             /\ stream'[n].epoch >= retired'
        BY <1>0, <2>1, <2>2, <2>3, <2>4, <2>5 DEF Refreshes
      <3>4. \A n \in DOMAIN stream' : stream'[n].type = "refresh" => stream'[n].epoch > retired'
        BY <1>0, <2>1, <2>2, <2>3, <2>4, <2>5 DEF Refreshes
      <3>5. \A n, m \in DOMAIN stream' : m < n =>
             /\ stream'[m].epoch <= stream'[n].epoch
             /\ stream'[n].type = "refresh" => stream'[m].epoch < stream'[n].epoch
        BY <1>0, <2>1, <2>2, <2>3, <2>4, <2>5 DEF Refreshes
      <3> QED
        BY <3>1, <3>2, <3>3, <3>4, <3>5 DEF Refreshes
    <2>11. Fresh'
      <3>1. cache'.live /\ cache'.items # None => cache'.items.epoch >= retired'
        BY <1>0, <2>1, <2>2, <2>3, <2>4, <2>5
           DEF Fresh, Matches, ListPcs, PickedPcs, RunPcs
      <3>2. \A j \in Ids : tasks'[j].pc \in {"listed"} \union PickedPcs
                         /\ Matches(tasks[j].gen)' => tasks'[j].item.epoch >= retired'
        BY <1>0, <2>1, <2>2, <2>3, <2>4, <2>5
           DEF Fresh, Matches, ListPcs, PickedPcs, RunPcs
      <3> QED
        BY <3>1, <3>2 DEF Fresh
    <2>12. LensInv'
      <3> SUFFICES ASSUME feature = "lens" PROVE Quiet' /\ OfTheText'
        BY <1>f DEF LensInv
      <3>1. Quiet /\ OfTheText
        BY <1>0 DEF LensInv
      <3>2. Quiet'
        <4>1. asked' # None =>
               /\ timer' = FALSE
               /\ \A m \in DOMAIN input' : input'[m].type = "change" =>
                     \E k \in DOMAIN input' :
                        k > m /\ input'[k].type = "list" /\ input'[k].id = asked'.id
               /\ loop' # Idle => \E k \in DOMAIN input' :
                                    input'[k].type = "list" /\ input'[k].id = asked'.id
          BY <1>0, <2>1, <2>2, <2>3, <2>4, <2>5, <3>1
             DEF Quiet, Matches, PickedPcs, RunPcs
        <4>2. shown' # None => /\ timer' = FALSE /\ loop' = Idle
                                /\ \A m \in DOMAIN input' : input'[m].type # "change"
          BY <1>0, <2>1, <2>2, <2>3, <2>4, <2>5, <3>1
             DEF Quiet, Matches, PickedPcs, RunPcs
        <4>3. \A k \in DOMAIN input' : input'[k].type = "run" =>
               \A m \in DOMAIN input' : m < k => input'[m].type # "change"
          BY <1>0, <2>1, <2>2, <2>3, <2>4, <2>5, <3>1
             DEF Quiet, Matches, PickedPcs, RunPcs
        <4>4. loop' # Idle => \A k \in DOMAIN input' : input'[k].type # "run"
          BY <1>0, <2>1, <2>2, <2>3, <2>4, <2>5, <3>1
             DEF Quiet, Matches, PickedPcs, RunPcs
        <4>5. loop' # Idle =>
               \A j \in Ids : tasks'[j].pc \in RunPcs => ~Matches(tasks[j].gen)'
          BY <1>0, <2>1, <2>2, <2>3, <2>4, <2>5, <3>1
             DEF Quiet, Matches, PickedPcs, RunPcs
        <4> QED
          BY <4>1, <4>2, <4>3, <4>4, <4>5 DEF Quiet
      <3>3. OfTheText'
        <4>1. \A g \in Ids :
               Matches(g)' /\ (Given(g) \/ (asked # None /\ asked.id = g))' =>
                  (cache'.items # None => cache'.items.snap = doc')
          BY <1>0, <2>1, <2>2, <2>3, <2>4, <2>5, <2>6, <3>1
             DEF OfTheText, Matches, PickedPcs, RunPcs
        <4>2. \A g \in Ids :
               Matches(g)' /\ (Given(g) \/ (asked # None /\ asked.id = g))' =>
                  (tasks'[g].pc \in {"asked", "listed"} => tasks'[g].item.snap = doc')
          BY <1>0, <2>1, <2>2, <2>3, <2>4, <2>5, <2>6, <3>1
             DEF OfTheText, Matches, PickedPcs, RunPcs
        <4>3. \A j \in Ids : tasks'[j].pc \in PickedPcs /\ Matches(tasks[j].gen)' =>
               tasks'[j].item.snap = doc'
          BY <1>0, <2>1, <2>2, <2>3, <2>4, <2>5, <2>6, <3>1
             DEF OfTheText, Matches, PickedPcs, RunPcs
        <4> QED
          BY <4>1, <4>2, <4>3 DEF OfTheText
      <3> QED
        BY <3>2, <3>3
    <2>13. Results'
      BY <1>0, <1>f, <2>1, <2>2, <2>3, <2>4, <2>5
         DEF Results, LensOnItsText, CommandFromShownReply, NoCommandAfterRefresh
    <2> QED
      BY <2>7, <2>8, <2>9, <2>10, <2>11, <2>12, <2>13 DEF Inv
  <1>99. CASE UNCHANGED vars
    <2>1. /\ UNCHANGED <<feature, tick, textChanged, timer, sent, lastId, asked, shown>>
          /\ UNCHANGED <<running, applied, input, loop, tasks, cache, refreshes, output>>
          /\ UNCHANGED <<doc, epoch, stream, retired, command>>
      BY <1>99 DEF vars, editorVars, daemonVars, serverVars
    <2>2. Shapes'
      BY <1>0, <2>1 DEF Shapes
    <2>3. Ordered' /\ Refreshes'
      BY <1>0, <2>1 DEF Ordered, Refreshes
    <2>4. Lists' /\ Fresh'
      BY <1>0, <2>1 DEF Lists, Given, Fresh, Matches
    <2>5. LensInv'
      BY <1>0, <2>1 DEF LensInv, Quiet, OfTheText, Given, Matches
    <2>6. Results'
      BY <1>0, <2>1 DEF Results, LensOnItsText, CommandFromShownReply, NoCommandAfterRefresh
    <2> QED
      BY <2>2, <2>3, <2>4, <2>5, <2>6 DEF Inv
  <1> QED
    BY <1>1, <1>2, <1>3, <1>4, <1>5, <1>6, <1>7, <1>8, <1>9, <1>10, <1>11, <1>12,
       <1>13, <1>14, <1>15, <1>16, <1>17, <1>18, <1>19, <1>20, <1>21, <1>22, <1>23,
       <1>24, <1>25, <1>99 DEF Next, Step

-----------------------------------------------------------------------------
(* The results.                                                            *)

\* The invariant holds for any number of requests, edits and refreshes.
THEOREM Inductive == Spec => []Inv
  BY InvInit, InvStep, PTL DEF Spec

\* The types of the state hold throughout: in particular the ids that the editor
\* draws, its ticks and the epochs of the server's refreshes stay in their ranges.
THEOREM TypeCorrect == Spec => []TypeOK
  <1>1. Inv => TypeOK
    BY DEF Inv, Lists, TypeOK
  <1> QED
    BY <1>1, Inductive, PTL

\* The item that runs is the one of the reply the user was shown: the ids the
\* editor draws only grow, so a generation that execute_code_lens and
\* execute_code_action still find in the cache cannot have been given to a later list.
THEOREM CommandsFromShownReply == Spec => []CommandFromShownReply
  BY Inductive, PTL DEF Inv, Results

\* A lens's command is written only while the server has the text that the lens
\* was computed on, whatever edits the editor sends in between: the loop retires
\* the generation before it forwards a change, and CodeLens() sends the text first.
THEOREM LensesOnTheirText == Spec => []LensOnItsText
  BY Inductive, PTL DEF Inv, Results

\* Once the dispatcher has read workspace/codeLens/refresh, no item computed
\* before it runs, even if its task was between two checks at that moment.
THEOREM NothingAfterRefresh == Spec => []NoCommandAfterRefresh
  BY Inductive, PTL DEF Inv, Results
=============================================================================
