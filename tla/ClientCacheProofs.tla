-------------------------- MODULE ClientCacheProofs --------------------------
(***************************************************************************)
(* Proofs about the client's two caches.                                   *)
(*                                                                         *)
(* CompletionCache, for any number of editor requests: a resolved item is  *)
(* one of the reply that the menu shows.                                   *)
(*                                                                         *)
(* SemanticTokens, for any number of edits of the buffer and of requests:  *)
(* apply_semantic_token_edits refuses a malformed list and otherwise does  *)
(* what the edits mean, so that the cached tokens are those the server     *)
(* gave out, and the buffer gets the tokens of the text it has.            *)
(***************************************************************************)
EXTENDS CompletionCache, SemanticTokens, FiniteSetTheorems, SequenceTheorems, TLAPS

-----------------------------------------------------------------------------
(* Completion: what names a generation.                                    *)

\* Some part of the system takes f for the request that was given generation g:
\* its task, its reply, the cache, the menu, or a resolve that read the cache.
Names(g, f) ==
  \/ cache.gen # 0 /\ cache.gen = g /\ cache.from = f
  \/ menu # NoMenu /\ menu.gen = g /\ menu.from = f
  \/ \E i \in Ids : /\ tasks[i].pc \in {"register", "wait", "settle", "store"}
                    /\ tasks[i].gen = g /\ i = f
  \/ \E i \in Ids : tasks[i].pc = "resolve" /\ tasks[i].gen = g /\ tasks[i].from = f
  \/ \E p \in DOMAIN output : /\ output[p].type = "completion"
                              /\ output[p].gen = g /\ output[p].from = f
  \/ \E p \in DOMAIN output : /\ output[p].type = "resolve"
                              /\ tasks[output[p].id].gen = g /\ output[p].from = f

\* A generation was handed out, and to one request.
GenerationsAgree ==
  /\ \A g, f : Names(g, f) => g \in 1 .. counter /\ f \in Ids
  /\ \A g, f1, f2 : Names(g, f1) /\ Names(g, f2) => f1 = f2

\* The tasks, as Shapes has them, named for the SMT solver.
Tasks == [Ids -> [pc : {"none", "start", "register", "wait", "settle", "store",
                        "pick", "resolve", "done"},
                  gen : 0 .. MaxId, from : 0 .. MaxId]]

\* The error reply of request i.
Failed(i) == [type |-> "error", id |-> i, gen |-> 0, from |-> 0]

\* The requests whose task has not taken its generation yet.
Unstarted == {i \in Ids : tasks[i].pc \in {"none", "start"}}

\* What belongs to a request the editor made.
Requests ==
  /\ \A i \in Ids : i > lastId => tasks[i].pc = "none"
  /\ \A i \in Ids : tasks[i].pc = "pick" => tasks[i].gen # 0
  /\ \A p \in DOMAIN output : /\ tasks[output[p].id].pc = "done"
                              /\ output[p].type = "completion" =>
                                    output[p].from = output[p].id
  /\ counter + Cardinality(Unstarted) <= MaxId

\* While a completion is awaited there is no menu and nothing to resolve, and a
\* resolve that is awaited asked for the generation of the menu.
Awaiting ==
  /\ compId # 0 => menu = NoMenu /\ resolveId = 0 /\ resolved = 0
  /\ resolveId # 0 => tasks[resolveId].pc \in {"pick", "resolve", "done"}
  /\ resolveId # 0 /\ menu # NoMenu => tasks[resolveId].gen = menu.gen

\* The inductive invariant.
Inv == Shapes /\ Requests /\ Awaiting /\ GenerationsAgree /\ ResolvedFromMenu

-----------------------------------------------------------------------------
(* What the operators that the actions share do.                           *)

\* Taking the first reply leaves replies that were there.
LEMMA Taking ==
  ASSUME Shapes, output # <<>>, output' = Tail(output)
  PROVE  /\ Head(output) \in Replies /\ output' \in Seq(Replies)
         /\ 1 \in DOMAIN output /\ output[1] = Head(output)
         /\ \A p \in DOMAIN output' : p + 1 \in DOMAIN output /\ output'[p] = output[p + 1]
  <1>1. output \in Seq(Replies)
    BY DEF Shapes
  <1> HIDE DEF Replies
  <1>2. Head(output) \in Replies /\ output' \in Seq(Replies)
        /\ 1 \in DOMAIN output /\ output[1] = Head(output)
    BY <1>1
  <1>3. Len(output') = Len(output) - 1 /\ Len(output) \in Nat
    BY <1>1
  <1>4. \A p \in DOMAIN output' : p + 1 \in DOMAIN output /\ output'[p] = output[p + 1]
    BY <1>1, <1>3
  <1> QED
    BY <1>2, <1>4

\* A reply is said last.
LEMMA Saying ==
  ASSUME Shapes, NEW r \in Replies, output' = Append(output, r)
  PROVE  /\ output' \in Seq(Replies)
         /\ \A p \in DOMAIN output' :
               (p \in DOMAIN output /\ output'[p] = output[p]) \/ output'[p] = r
  <1>1. output \in Seq(Replies)
    BY DEF Shapes
  <1>2. DOMAIN output = 1 .. Len(output) /\ DOMAIN output' = 1 .. Len(output) + 1
        /\ Len(output) \in Nat
    BY <1>1
  <1>3. output' \in Seq(Replies) /\ \A p \in 1 .. Len(output) : output'[p] = output[p]
    BY <1>1
  <1>4. output'[Len(output) + 1] = r
    BY <1>1
  <1> QED
    BY <1>2, <1>3, <1>4

\* Each generation is taken from a task that had not started.
LEMMA Starting ==
  ASSUME Shapes, Unstarted' \subseteq Unstarted
  PROVE  /\ Cardinality(Unstarted') <= Cardinality(Unstarted)
         /\ Cardinality(Unstarted) \in Nat /\ Cardinality(Unstarted') \in Nat
         /\ \A i \in Unstarted : i \notin Unstarted' =>
               Cardinality(Unstarted') + 1 <= Cardinality(Unstarted)
  <1>1. IsFiniteSet(Ids)
    BY FS_Interval, MaxIdAssumption DEF Ids
  <1>2. IsFiniteSet(Unstarted)
    BY <1>1, FS_Subset DEF Unstarted
  <1>3. Cardinality(Unstarted') <= Cardinality(Unstarted)
    BY <1>2, FS_Subset
  <1>4. Cardinality(Unstarted) \in Nat /\ Cardinality(Unstarted') \in Nat
    BY <1>2, FS_Subset, FS_CardinalityType
  <1>5. ASSUME NEW i \in Unstarted, i \notin Unstarted'
        PROVE  Cardinality(Unstarted') + 1 <= Cardinality(Unstarted)
    <2>1. /\ IsFiniteSet(Unstarted \ {i})
          /\ Cardinality(Unstarted \ {i}) = Cardinality(Unstarted) - 1
      BY <1>2, FS_RemoveElement
    <2>2. Unstarted' \subseteq Unstarted \ {i}
      BY <1>5
    <2>3. Cardinality(Unstarted') <= Cardinality(Unstarted \ {i})
      BY <2>1, <2>2, FS_Subset
    <2> QED
      BY <2>1, <2>3, <1>4
  <1> QED
    BY <1>3, <1>4, <1>5

\* No generation gets a second name in a step that names nothing new.
LEMMA NothingNamed ==
  ASSUME GenerationsAgree, counter' = counter, \A g, f : Names(g, f)' => Names(g, f)
  PROVE  GenerationsAgree'
  BY DEF GenerationsAgree

\* The names that a task's step leaves were there before: what it stores and
\* replies is its own or the cache's.
LEMMA Renaming ==
  ASSUME NEW i \in Ids, menu' = menu,
         \/ cache' = cache
         \/ cache' = [gen |-> tasks[i].gen, from |-> i] /\ tasks[i].pc = "store",
         \A j \in Ids : tasks'[j].gen = tasks[j].gen,
         \A j \in Ids : j # i => /\ tasks'[j].from = tasks[j].from
                                 /\ tasks'[j].pc \in {tasks[j].pc, "done"},
         tasks'[i].pc \in {"register", "wait", "settle", "store"} =>
            tasks[i].pc \in {"register", "wait", "settle", "store"},
         tasks'[i].pc = "resolve" => /\ cache.gen # 0 /\ cache.gen = tasks[i].gen
                                     /\ tasks'[i].from = cache.from,
         \A p \in DOMAIN output : output[p].id \in Ids,
         \A p \in DOMAIN output' :
            \/ p \in DOMAIN output /\ output'[p] = output[p]
            \/ output'[p].type = "error"
            \/ /\ output'[p].type = "completion" /\ tasks[i].pc = "store"
               /\ output'[p].gen = tasks[i].gen /\ output'[p].from = i
            \/ /\ output'[p].type = "resolve" /\ tasks[i].pc = "resolve"
               /\ output'[p].id = i /\ output'[p].from = tasks[i].from
  PROVE  \A g, f : Names(g, f)' => Names(g, f)
  <1> SUFFICES ASSUME NEW g, NEW f, Names(g, f)' PROVE Names(g, f)
    OBVIOUS
  <1>1. CASE cache'.gen # 0 /\ cache'.gen = g /\ cache'.from = f
    BY <1>1 DEF Names
  <1>2. CASE menu' # NoMenu /\ menu'.gen = g /\ menu'.from = f
    BY <1>2 DEF Names
  <1>3. ASSUME NEW j \in Ids, tasks'[j].pc \in {"register", "wait", "settle", "store"},
               tasks'[j].gen = g, j = f
        PROVE  Names(g, f)
    BY <1>3 DEF Names
  <1>4. ASSUME NEW j \in Ids, tasks'[j].pc = "resolve", tasks'[j].gen = g, tasks'[j].from = f
        PROVE  Names(g, f)
    BY <1>4 DEF Names
  <1>5. ASSUME NEW p \in DOMAIN output', output'[p].type = "completion",
               output'[p].gen = g, output'[p].from = f
        PROVE  Names(g, f)
    BY <1>5 DEF Names
  <1>6. ASSUME NEW p \in DOMAIN output', output'[p].type = "resolve",
               tasks'[output'[p].id].gen = g, output'[p].from = f
        PROVE  Names(g, f)
    BY <1>6 DEF Names
  <1> QED
    BY <1>1, <1>2, <1>3, <1>4, <1>5, <1>6 DEF Names

\* Replies are typed.
LEMMA Replying ==
  ASSUME Shapes, NEW p \in DOMAIN output
  PROVE  output[p].id \in Ids /\ output[p].gen \in 0 .. MaxId /\ output[p].from \in 0 .. MaxId
  <1>1. output \in Seq(Replies)
    BY DEF Shapes
  <1> HIDE DEF Replies
  <1>2. output[p] \in Replies
    BY <1>1
  <1> QED
    BY <1>2 DEF Replies

-----------------------------------------------------------------------------
(* The initial states and the steps.                                       *)

\* The initial states satisfy the invariant.
LEMMA InvInit == Init => Inv
  <1> SUFFICES ASSUME Init PROVE Inv
    OBVIOUS
  <1>1. Shapes
    BY MaxIdAssumption DEF Init, Shapes, NoMenu, NoTask, Replies
  <1>2. Requests
    <2>1. Unstarted = 1 .. MaxId
      BY DEF Init, Unstarted, NoTask, Ids
    <2>2. Cardinality(Unstarted) = MaxId
      BY <2>1, FS_Interval, MaxIdAssumption
    <2> QED
      BY <2>2, MaxIdAssumption DEF Init, Requests, NoTask
  <1>3. Awaiting
    BY DEF Init, Awaiting
  <1>4. \A g, f : ~Names(g, f)
    BY DEF Init, Names, NoTask, NoMenu
  <1>5. GenerationsAgree
    BY <1>4 DEF GenerationsAgree
  <1> QED
    BY <1>1, <1>2, <1>3, <1>5 DEF Inv, Init, ResolvedFromMenu

\* The types of the variables, one by one.
LEMMA Types ==
  ASSUME Shapes
  PROVE  /\ lastId \in 0 .. MaxId /\ compId \in 0 .. MaxId /\ resolveId \in 0 .. MaxId
         /\ resolved \in 0 .. MaxId /\ menu.from \in 0 .. MaxId /\ menu.gen \in 0 .. MaxId
         /\ counter \in 0 .. MaxId /\ registered \in 0 .. MaxId
         /\ cache.gen \in 0 .. MaxId /\ cache.from \in 0 .. MaxId
         /\ DOMAIN tasks = Ids
         /\ \A i \in Ids : tasks[i].gen \in 0 .. MaxId /\ tasks[i].from \in 0 .. MaxId
  BY DEF Shapes

\* A step of the daemon's tasks that leaves the editor alone and keeps the
\* generation of each resolve keeps what is awaited.
LEMMA StillAwaiting ==
  ASSUME Shapes, Awaiting, UNCHANGED <<compId, menu, resolveId, resolved>>,
         \A j \in Ids : tasks[j].pc \in {"pick", "resolve", "done"} =>
            tasks'[j].pc \in {"pick", "resolve", "done"} /\ tasks'[j].gen = tasks[j].gen
  PROVE  Awaiting'
  <1>1. compId' = compId /\ menu' = menu /\ resolveId' = resolveId /\ resolved' = resolved
    OBVIOUS
  <1>2. resolveId # 0 => resolveId \in Ids
    <2>1. resolveId \in 0 .. MaxId
      BY Types
    <2> QED
      BY <2>1, MaxIdAssumption DEF Ids
  <1>3. compId' # 0 => menu' = NoMenu /\ resolveId' = 0 /\ resolved' = 0
    BY <1>1 DEF Awaiting
  <1>4. resolveId # 0 => /\ tasks'[resolveId].pc \in {"pick", "resolve", "done"}
                         /\ tasks'[resolveId].gen = tasks[resolveId].gen
    BY <1>2 DEF Awaiting
  <1>5. resolveId' # 0 => tasks'[resolveId'].pc \in {"pick", "resolve", "done"}
    BY <1>1, <1>4
  <1>6. resolveId' # 0 /\ menu' # NoMenu => tasks'[resolveId'].gen = menu'.gen
    BY <1>1, <1>4 DEF Awaiting
  <1> QED
    BY <1>3, <1>5, <1>6 DEF Awaiting

\* A step of the specification preserves the invariant.
LEMMA InvStep == Inv /\ [Next]_vars => Inv'
  <1> SUFFICES ASSUME Inv, [Next]_vars PROVE Inv'
    OBVIOUS
  <1>0. Shapes /\ Requests /\ Awaiting /\ GenerationsAgree /\ ResolvedFromMenu
    BY DEF Inv
  <1> USE DEF Tasks, Failed
  <1>1. CASE RequestCompletion
    <2>1. /\ lastId \in 0 .. MaxId /\ lastId < MaxId
          /\ lastId' = lastId + 1 /\ lastId' \in Ids
          /\ tasks' = [tasks EXCEPT ![lastId'] = [pc |-> "start", gen |-> 0, from |-> 0]]
          /\ UNCHANGED <<menu, counter, registered, cache, output>>
          /\ menu = NoMenu
      BY <1>0, <1>1, Types, MaxIdAssumption DEF RequestCompletion, Request, Ids
    <2>2. /\ tasks'[lastId'] = [pc |-> "start", gen |-> 0, from |-> 0]
          /\ \A i \in Ids : i # lastId' => tasks'[i] = tasks[i]
          /\ tasks[lastId'].pc = "none"
          /\ \A p \in DOMAIN output : output[p].id # lastId'
      <3>1. tasks \in Tasks
        BY <1>0 DEF Shapes
      <3>2. tasks[lastId'].pc = "none"
        BY <1>0, <2>1 DEF Requests
      <3>3. \A p \in DOMAIN output : tasks[output[p].id].pc = "done"
        BY <1>0 DEF Requests
      <3> QED
        BY <2>1, <3>1, <3>2, <3>3
    <2>3. Shapes'
      BY <1>0, <1>1, <2>1, MaxIdAssumption DEF Shapes, RequestCompletion, Ids
    <2>4. Requests'
      <3>1. Unstarted' \subseteq Unstarted
        BY <2>1, <2>2 DEF Unstarted
      <3>2. /\ Cardinality(Unstarted') <= Cardinality(Unstarted)
            /\ Cardinality(Unstarted) \in Nat /\ Cardinality(Unstarted') \in Nat
        BY <1>0, <3>1, Starting
      <3>3. counter' + Cardinality(Unstarted') <= MaxId
        BY <1>0, <2>1, <3>2, Types, MaxIdAssumption DEF Requests
      <3>4. \A i \in Ids : i > lastId' => tasks'[i].pc = "none"
        BY <1>0, <2>1, <2>2 DEF Requests, Ids
      <3>5. \A i \in Ids : tasks'[i].pc = "pick" => tasks'[i].gen # 0
        BY <1>0, <2>1, <2>2 DEF Requests
      <3>6. \A p \in DOMAIN output' : /\ tasks'[output'[p].id].pc = "done"
                                      /\ output'[p].type = "completion" =>
                                            output'[p].from = output'[p].id
        <4>1. \A p \in DOMAIN output : output[p].id \in Ids
          BY <1>0, Replying
        <4> QED
          BY <1>0, <2>1, <2>2, <4>1 DEF Requests
      <3> QED
        BY <3>3, <3>4, <3>5, <3>6 DEF Requests
    <2>5. Awaiting'
      BY <1>0, <1>1, <2>1, <2>2, Types DEF Awaiting, RequestCompletion, Ids
    <2>6. GenerationsAgree'
      <3>1. \A g, f : Names(g, f)' => Names(g, f)
        <4>1. \A p \in DOMAIN output : output[p].id \in Ids
          BY <1>0, Replying
        <4> QED
          BY <2>1, <2>2, <4>1 DEF Names
      <3> QED
        BY <1>0, <2>1, <3>1, NothingNamed
    <2>7. ResolvedFromMenu'
      BY <1>0, <1>1, <2>1 DEF ResolvedFromMenu, RequestCompletion
    <2> QED
      BY <2>3, <2>4, <2>5, <2>6, <2>7 DEF Inv
  <1>2. CASE ResolveItem
    <2>1. /\ lastId \in 0 .. MaxId /\ lastId < MaxId
          /\ lastId' = lastId + 1 /\ lastId' \in Ids
          /\ tasks' = [tasks EXCEPT ![lastId'] = [pc |-> "pick", gen |-> menu.gen, from |-> 0]]
          /\ UNCHANGED <<compId, menu, resolved, counter, registered, cache,
                         output>>
          /\ menu # NoMenu /\ resolved = 0 /\ resolveId = 0
      BY <1>0, <1>2, Types, MaxIdAssumption DEF ResolveItem, Request, Ids
    <2>2. /\ tasks'[lastId'] = [pc |-> "pick", gen |-> menu.gen, from |-> 0]
          /\ \A i \in Ids : i # lastId' => tasks'[i] = tasks[i]
          /\ tasks[lastId'].pc = "none"
          /\ \A p \in DOMAIN output : output[p].id # lastId'
      <3>1. tasks \in Tasks
        BY <1>0 DEF Shapes
      <3>2. tasks[lastId'].pc = "none"
        BY <1>0, <2>1 DEF Requests
      <3>3. \A p \in DOMAIN output : tasks[output[p].id].pc = "done"
        BY <1>0 DEF Requests
      <3> QED
        BY <2>1, <3>1, <3>2, <3>3
    <2>8. menu.gen # 0 /\ menu.gen \in 0 .. MaxId
      <3>1. Names(menu.gen, menu.from)
        BY <2>1 DEF Names
      <3> QED
        BY <1>0, <3>1, Types DEF GenerationsAgree
    <2>3. Shapes'
      BY <1>0, <1>2, <2>1, <2>8, MaxIdAssumption DEF Shapes, ResolveItem, Ids
    <2>4. Requests'
      <3>1. Unstarted' \subseteq Unstarted
        BY <2>1, <2>2 DEF Unstarted
      <3>2. /\ Cardinality(Unstarted') <= Cardinality(Unstarted)
            /\ Cardinality(Unstarted) \in Nat /\ Cardinality(Unstarted') \in Nat
        BY <1>0, <3>1, Starting
      <3>3. counter' + Cardinality(Unstarted') <= MaxId
        BY <1>0, <2>1, <3>2, Types, MaxIdAssumption DEF Requests
      <3>4. \A i \in Ids : i > lastId' => tasks'[i].pc = "none"
        BY <1>0, <2>1, <2>2 DEF Requests, Ids
      <3>5. \A i \in Ids : tasks'[i].pc = "pick" => tasks'[i].gen # 0
        BY <1>0, <2>1, <2>2, <2>8 DEF Requests
      <3>6. \A p \in DOMAIN output' : /\ tasks'[output'[p].id].pc = "done"
                                      /\ output'[p].type = "completion" =>
                                            output'[p].from = output'[p].id
        <4>1. \A p \in DOMAIN output : output[p].id \in Ids
          BY <1>0, Replying
        <4> QED
          BY <1>0, <2>1, <2>2, <4>1 DEF Requests
      <3> QED
        BY <3>3, <3>4, <3>5, <3>6 DEF Requests
    <2>5. Awaiting'
      BY <1>0, <1>2, <2>1, <2>2, Types DEF Awaiting, ResolveItem, Ids
    <2>6. GenerationsAgree'
      <3>1. \A g, f : Names(g, f)' => Names(g, f)
        <4>1. \A p \in DOMAIN output : output[p].id \in Ids
          BY <1>0, Replying
        <4> QED
          BY <2>1, <2>2, <4>1 DEF Names
      <3> QED
        BY <1>0, <2>1, <3>1, NothingNamed
    <2>7. ResolvedFromMenu'
      BY <1>0, <1>2, <2>1 DEF ResolvedFromMenu, ResolveItem
    <2> QED
      BY <2>3, <2>4, <2>5, <2>6, <2>7 DEF Inv
  <1>3. CASE CloseMenu
    <2>1. menu' = NoMenu /\ UNCHANGED <<lastId, compId, resolveId, resolved, tasks,
                                        counter,
                                        registered, cache, output>>
      BY <1>3 DEF CloseMenu
    <2>2. Shapes'
      BY <1>0, <2>1, MaxIdAssumption DEF Shapes, NoMenu
    <2>3. Requests' /\ Awaiting' /\ ResolvedFromMenu'
      BY <1>0, <2>1 DEF Requests, Awaiting, ResolvedFromMenu, Unstarted
    <2>4. GenerationsAgree'
      <3>1. \A g, f : Names(g, f)' => Names(g, f)
        BY <2>1 DEF Names
      <3> QED
        BY <1>0, <2>1, <3>1, NothingNamed
    <2> QED
      BY <2>2, <2>3, <2>4 DEF Inv
  <1>4. CASE OnCompletion
    <2>1. /\ output # <<>> /\ output' = Tail(output) /\ Head(output).type = "completion"
          /\ UNCHANGED <<lastId, resolveId, resolved, tasks, counter, registered,
                         cache>>
      BY <1>4 DEF OnCompletion, Event
    <2>2. /\ Head(output) \in Replies /\ output' \in Seq(Replies)
          /\ 1 \in DOMAIN output /\ output[1] = Head(output)
          /\ \A p \in DOMAIN output' : p + 1 \in DOMAIN output /\ output'[p] = output[p + 1]
      BY <1>0, <2>1, Taking
    <2>3. Requests'
      <3>1. \A p \in DOMAIN output' : /\ tasks'[output'[p].id].pc = "done"
                                      /\ output'[p].type = "completion" =>
                                            output'[p].from = output'[p].id
        BY <1>0, <2>1, <2>2 DEF Requests
      <3> QED
        BY <1>0, <2>1, <3>1 DEF Requests, Unstarted
    <2>4. \/ UNCHANGED <<compId, menu>>
          \/ compId # 0 /\ compId' = 0 /\ menu' = menu
          \/ /\ compId # 0 /\ compId' = 0
             /\ menu' = [from |-> Head(output).from, gen |-> Head(output).gen]
      BY <1>0, <1>4, <2>1, <2>2 DEF OnCompletion, Expected, Requests
    <2>5. Shapes'
      <3>1. Head(output).from \in 0 .. MaxId /\ Head(output).gen \in 0 .. MaxId
        BY <2>2 DEF Replies
      <3>2. compId' \in 0 .. MaxId /\ menu'.from \in 0 .. MaxId /\ menu'.gen \in 0 .. MaxId
        BY <1>0, <2>4, <3>1, Types, MaxIdAssumption
      <3> QED
        BY <1>0, <2>1, <2>2, <3>2 DEF Shapes
    <2>6. Awaiting' /\ ResolvedFromMenu'
      BY <1>0, <2>1, <2>4 DEF Awaiting, ResolvedFromMenu
    <2>7. GenerationsAgree'
      <3>1. \A g, f : Names(g, f)' => Names(g, f)
        BY <2>1, <2>2, <2>4 DEF Names
      <3> QED
        BY <1>0, <2>1, <3>1, NothingNamed
    <2> QED
      BY <2>3, <2>5, <2>6, <2>7 DEF Inv
  <1>5. CASE OnCompletionResolve
    <2>1. /\ output # <<>> /\ output' = Tail(output) /\ Head(output).type = "resolve"
          /\ UNCHANGED <<lastId, compId, menu, tasks, counter, registered, cache>>
      BY <1>5 DEF OnCompletionResolve, Event
    <2>2. /\ Head(output) \in Replies /\ output' \in Seq(Replies)
          /\ 1 \in DOMAIN output /\ output[1] = Head(output)
          /\ \A p \in DOMAIN output' : p + 1 \in DOMAIN output /\ output'[p] = output[p + 1]
      BY <1>0, <2>1, Taking
    <2>3. Requests'
      <3>1. \A p \in DOMAIN output' : /\ tasks'[output'[p].id].pc = "done"
                                      /\ output'[p].type = "completion" =>
                                            output'[p].from = output'[p].id
        BY <1>0, <2>1, <2>2 DEF Requests
      <3> QED
        BY <1>0, <2>1, <3>1 DEF Requests, Unstarted
    <2>4. \/ UNCHANGED <<resolved, resolveId>>
          \/ /\ Head(output).id = resolveId
             /\ resolved' = Head(output).from /\ resolveId' = 0
      BY <1>5 DEF OnCompletionResolve
    <2>5. Head(output).id \in Ids /\ Head(output).from \in 0 .. MaxId
      BY <2>2 DEF Replies
    <2>6. Shapes'
      BY <1>0, <2>1, <2>2, <2>4, <2>5, MaxIdAssumption DEF Shapes
    <2>7. Awaiting'
      BY <1>0, <2>1, <2>4, <2>5 DEF Awaiting, Ids
    <2>8. GenerationsAgree'
      <3>1. \A g, f : Names(g, f)' => Names(g, f)
        BY <2>1, <2>2 DEF Names
      <3> QED
        BY <1>0, <2>1, <3>1, NothingNamed
    <2>9. ResolvedFromMenu'
      <3>1. CASE menu # NoMenu /\ Head(output).id = resolveId /\ resolved' = Head(output).from
        <4>1. tasks[resolveId].gen = menu.gen
          BY <1>0, <2>5, <3>1 DEF Awaiting, Ids
        <4>2. Names(menu.gen, menu.from)
          BY <3>1 DEF Names
        <4>3. Names(menu.gen, Head(output).from)
          BY <2>1, <2>2, <3>1, <4>1 DEF Names
        <4>4. Head(output).from = menu.from
          BY <1>0, <4>2, <4>3 DEF GenerationsAgree
        <4> QED
          BY <2>1, <3>1, <4>4 DEF ResolvedFromMenu
      <3> QED
        BY <1>0, <2>1, <2>4, <3>1 DEF ResolvedFromMenu
    <2> QED
      BY <2>3, <2>6, <2>7, <2>8, <2>9 DEF Inv
  <1>6. CASE OnError
    <2>1. /\ output # <<>> /\ output' = Tail(output) /\ Head(output).type = "error"
          /\ UNCHANGED <<lastId, menu, resolved, tasks, counter, registered, cache>>
      BY <1>6 DEF OnError, Event
    <2>2. /\ Head(output) \in Replies /\ output' \in Seq(Replies)
          /\ 1 \in DOMAIN output /\ output[1] = Head(output)
          /\ \A p \in DOMAIN output' : p + 1 \in DOMAIN output /\ output'[p] = output[p + 1]
      BY <1>0, <2>1, Taking
    <2>3. Requests'
      <3>1. \A p \in DOMAIN output' : /\ tasks'[output'[p].id].pc = "done"
                                      /\ output'[p].type = "completion" =>
                                            output'[p].from = output'[p].id
        BY <1>0, <2>1, <2>2 DEF Requests
      <3> QED
        BY <1>0, <2>1, <3>1 DEF Requests, Unstarted
    <2>4. resolveId' \in {0, resolveId} /\ compId' \in {0, compId}
      BY <1>6 DEF OnError
    <2>5. Shapes'
      <3>1. compId' \in 0 .. MaxId /\ resolveId' \in 0 .. MaxId
        BY <1>0, <2>4, Types, MaxIdAssumption
      <3> QED
        BY <1>0, <2>1, <2>2, <3>1 DEF Shapes
    <2>6. Awaiting' /\ ResolvedFromMenu'
      BY <1>0, <2>1, <2>4 DEF Awaiting, ResolvedFromMenu
    <2>7. GenerationsAgree'
      <3>1. \A g, f : Names(g, f)' => Names(g, f)
        BY <2>1, <2>2 DEF Names
      <3> QED
        BY <1>0, <2>1, <3>1, NothingNamed
    <2> QED
      BY <2>3, <2>5, <2>6, <2>7 DEF Inv
  <1>7. CASE \E i \in Ids : StartCompletion(i)
    <2> PICK i \in Ids : StartCompletion(i)
      BY <1>7
    <2>1. /\ tasks[i].pc = "start" /\ tasks'[i].pc = "register"
          /\ tasks'[i].gen = counter + 1 /\ tasks'[i].from = tasks[i].from
          /\ \A j \in Ids : j # i => tasks'[j] = tasks[j]
          /\ tasks' \in Tasks
          /\ UNCHANGED <<lastId, compId, menu, resolveId, resolved, registered,
                         cache, output>>
      <3>1. tasks \in Tasks
        BY <1>0 DEF Shapes
      <3>2. counter + 1 \in 0 .. MaxId
        <4>1. Unstarted \subseteq Ids /\ i \in Unstarted /\ IsFiniteSet(Ids)
          BY FS_Interval, MaxIdAssumption DEF StartCompletion, Unstarted, Ids
        <4>2. IsFiniteSet(Unstarted)
          BY <4>1, FS_Subset
        <4>3. Cardinality(Unstarted) \in Nat /\ Cardinality(Unstarted) # 0
          BY <4>1, <4>2, FS_CardinalityType, FS_EmptySet
        <4> QED
          BY <1>0, <4>3, Types, MaxIdAssumption DEF Requests
      <3> QED
        BY <3>1, <3>2, Types, <1>0, MaxIdAssumption
           DEF StartCompletion, Moved, editorVars, Ids
    <2>2. output' \in Seq(Replies) /\ output' = output
      BY <1>0, <2>1 DEF Shapes
    <2>3. \A p \in DOMAIN output : output[p].id \in Ids /\ output[p].id # i
      BY <1>0, <2>1, Replying DEF Requests
    <2>4. Shapes'
      <3>1. counter' \in 0 .. MaxId
        <4>1. counter' = counter + 1 /\ counter + 1 = tasks'[i].gen
          BY <2>1 DEF StartCompletion
        <4>2. tasks'[i].gen \in 0 .. MaxId
          BY <2>1
        <4> QED
          BY <4>1, <4>2
      <3> QED
        BY <1>0, <2>1, <2>2, <3>1 DEF Shapes
    <2>5. Unstarted' \subseteq Unstarted
      BY <2>1 DEF Unstarted
    <2>6. Requests'
      <3>1. /\ Cardinality(Unstarted') + 1 <= Cardinality(Unstarted)
            /\ Cardinality(Unstarted) \in Nat /\ Cardinality(Unstarted') \in Nat
            /\ counter' = counter + 1
        <4>1. i \in Unstarted /\ i \notin Unstarted'
          BY <2>1 DEF Unstarted
        <4>2. counter' = counter + 1
          BY DEF StartCompletion
        <4> QED
          BY <1>0, <2>5, <4>1, <4>2, Starting
      <3>2. counter' + Cardinality(Unstarted') <= MaxId
        BY <1>0, <2>1, <3>1, Types, MaxIdAssumption DEF Requests
      <3>3. \A j \in Ids : j > lastId' => tasks'[j].pc = "none"
        BY <1>0, <2>1 DEF Requests
      <3>4. \A j \in Ids : tasks'[j].pc = "pick" => tasks'[j].gen # 0
        BY <1>0, <2>1 DEF Requests
      <3>5. \A p \in DOMAIN output' : /\ tasks'[output'[p].id].pc = "done"
                                      /\ output'[p].type = "completion" =>
                                            output'[p].from = output'[p].id
        <4>1. ASSUME NEW p \in DOMAIN output'
              PROVE  \/ p \in DOMAIN output /\ output'[p] = output[p]
                     \/ /\ output'[p].id = i /\ tasks'[i].pc = "done"
                        /\ output'[p].type = "completion" => output'[p].from = i
          BY <2>1, <2>2
        <4> QED
          BY <1>0, <2>1, <2>3, <4>1 DEF Requests
      <3> QED
        BY <3>2, <3>3, <3>4, <3>5 DEF Requests
    <2>7. Awaiting'
      <3>1. \A j \in Ids : tasks[j].pc \in {"pick", "resolve", "done"} =>
               tasks'[j].pc \in {"pick", "resolve", "done"} /\ tasks'[j].gen = tasks[j].gen
        BY <2>1
      <3>2. UNCHANGED <<compId, menu, resolveId, resolved>>
        BY <2>1
      <3> QED
        BY <1>0, <3>1, <3>2, StillAwaiting
    <2>9. ResolvedFromMenu'
      BY <1>0, <2>1 DEF ResolvedFromMenu
    <2>8. GenerationsAgree'
      <3>1. ASSUME NEW g, NEW f, Names(g, f)'
            PROVE  Names(g, f) \/ (g = counter + 1 /\ f = i)
        <4>1. CASE cache'.gen # 0 /\ cache'.gen = g /\ cache'.from = f
          BY <2>1, <4>1 DEF Names
        <4>2. CASE menu' # NoMenu /\ menu'.gen = g /\ menu'.from = f
          BY <2>1, <4>2 DEF Names
        <4>3. ASSUME NEW j \in Ids, tasks'[j].gen = g, j = f,
                     tasks'[j].pc \in {"register", "wait", "settle", "store"}
              PROVE  Names(g, f) \/ (g = counter + 1 /\ f = i)
          BY <2>1, <4>3 DEF Names
        <4>4. ASSUME NEW j \in Ids, tasks'[j].pc = "resolve", tasks'[j].gen = g,
                     tasks'[j].from = f
              PROVE  Names(g, f)
          BY <2>1, <4>4 DEF Names
        <4>5. ASSUME NEW p \in DOMAIN output', output'[p].type = "completion",
                     output'[p].gen = g, output'[p].from = f
              PROVE  Names(g, f)
          BY <2>2, <4>5 DEF Names
        <4>6. ASSUME NEW p \in DOMAIN output', output'[p].type = "resolve",
                     tasks'[output'[p].id].gen = g, output'[p].from = f
              PROVE  Names(g, f)
          BY <2>1, <2>2, <2>3, <4>6 DEF Names
        <4> QED
          BY <3>1, <4>1, <4>2, <4>3, <4>4, <4>5, <4>6 DEF Names
      <3>2. counter' = counter + 1 /\ counter \in Nat
        BY <1>0, Types DEF StartCompletion
      <3>3. \A f : ~Names(counter + 1, f)
        BY <1>0, <3>2 DEF GenerationsAgree
      <3>4. \A g, f : Names(g, f)' => g \in 1 .. counter' /\ f \in Ids
        BY <1>0, <3>1, <3>2 DEF GenerationsAgree
      <3>5. \A g, f1, f2 : Names(g, f1)' /\ Names(g, f2)' => f1 = f2
        BY <1>0, <3>1, <3>3 DEF GenerationsAgree
      <3> QED
        BY <3>4, <3>5 DEF GenerationsAgree
    <2> QED
      BY <2>4, <2>6, <2>7, <2>8, <2>9 DEF Inv
  <1>8. CASE \E i \in Ids : Register(i)
    <2> PICK i \in Ids : Register(i)
      BY <1>8
    <2>1. /\ tasks[i].pc = "register" /\ tasks'[i].pc \in {"wait", "done"}
          /\ tasks'[i].gen = tasks[i].gen /\ tasks'[i].from = tasks[i].from
          /\ \A j \in Ids : j # i => /\ tasks'[j].gen = tasks[j].gen /\ tasks'[j].from = tasks[j].from
                                     /\ tasks'[j].pc \in {tasks[j].pc, "done"}
                                     /\ tasks[j].pc = "pick" => tasks'[j].pc = "pick"
                                     /\ tasks[j].pc \in {"none", "done", "start", "resolve"} =>
                                           tasks'[j].pc = tasks[j].pc
                                     /\ tasks'[j].pc # tasks[j].pc => tasks[j].pc = "wait"
          /\ tasks' \in Tasks
          /\ UNCHANGED <<lastId, compId, menu, resolveId, resolved, counter, cache,
                         output>>
      <3>1. tasks \in Tasks
        BY <1>0 DEF Shapes
      <3>2. CASE tasks' = Moved(i, "done")
        BY <3>1, <3>2 DEF Register, Moved, editorVars
      <3>3. CASE tasks' # Moved(i, "done")
        <4>1. tasks' = [j \in Ids |->
                 IF j = i THEN [tasks[j] EXCEPT !.pc = "wait"]
                 ELSE IF j = registered /\ tasks[j].pc = "wait"
                        THEN [tasks[j] EXCEPT !.pc = "done"] ELSE tasks[j]]
          BY <3>3 DEF Register
        <4> QED
          BY <3>1, <4>1 DEF Register, editorVars
      <3> QED
        BY <3>1, <3>2, <3>3, Types, <1>0, MaxIdAssumption
           DEF Register, Moved, editorVars, Ids
    <2>2. output' \in Seq(Replies) /\ output' = output
      BY <1>0, <2>1 DEF Shapes
    <2>3. \A p \in DOMAIN output : output[p].id \in Ids /\ output[p].id # i
      BY <1>0, <2>1, Replying DEF Requests
    <2>4. Shapes'
      <3>1. registered' \in 0 .. MaxId
        BY <1>0, Types, MaxIdAssumption DEF Register, Ids
      <3> QED
        BY <1>0, <2>1, <2>2, <3>1 DEF Shapes
    <2>5. Unstarted' \subseteq Unstarted
      BY <2>1 DEF Unstarted
    <2>6. Requests'
      <3>1. /\ Cardinality(Unstarted') <= Cardinality(Unstarted)
            /\ Cardinality(Unstarted) \in Nat /\ Cardinality(Unstarted') \in Nat
        BY <1>0, <2>5, Starting
      <3>2. counter' + Cardinality(Unstarted') <= MaxId
        BY <1>0, <2>1, <3>1, Types, MaxIdAssumption DEF Requests
      <3>3. \A j \in Ids : j > lastId' => tasks'[j].pc = "none"
        BY <1>0, <2>1 DEF Requests
      <3>4. \A j \in Ids : tasks'[j].pc = "pick" => tasks'[j].gen # 0
        BY <1>0, <2>1 DEF Requests
      <3>5. \A p \in DOMAIN output' : /\ tasks'[output'[p].id].pc = "done"
                                      /\ output'[p].type = "completion" =>
                                            output'[p].from = output'[p].id
        <4>1. ASSUME NEW p \in DOMAIN output'
              PROVE  \/ p \in DOMAIN output /\ output'[p] = output[p]
                     \/ /\ output'[p].id = i /\ tasks'[i].pc = "done"
                        /\ output'[p].type = "completion" => output'[p].from = i
          BY <2>1, <2>2
        <4> QED
          BY <1>0, <2>1, <2>3, <4>1 DEF Requests
      <3> QED
        BY <3>2, <3>3, <3>4, <3>5 DEF Requests
    <2>7. Awaiting'
      <3>1. \A j \in Ids : tasks[j].pc \in {"pick", "resolve", "done"} =>
               tasks'[j].pc \in {"pick", "resolve", "done"} /\ tasks'[j].gen = tasks[j].gen
        BY <2>1
      <3>2. UNCHANGED <<compId, menu, resolveId, resolved>>
        BY <2>1
      <3> QED
        BY <1>0, <3>1, <3>2, StillAwaiting
    <2>9. ResolvedFromMenu'
      BY <1>0, <2>1 DEF ResolvedFromMenu
    <2>8. GenerationsAgree'
      <3>0. \A p \in DOMAIN output' :
               \/ p \in DOMAIN output /\ output'[p] = output[p]
               \/ output'[p].type = "error"
               \/ /\ output'[p].type = "completion" /\ tasks[i].pc = "store"
                  /\ output'[p].gen = tasks[i].gen /\ output'[p].from = i
               \/ /\ output'[p].type = "resolve" /\ tasks[i].pc = "resolve"
                  /\ output'[p].id = i /\ output'[p].from = tasks[i].from
        BY <2>1, <2>2
      <3>1. \A g, f : Names(g, f)' => Names(g, f)
        BY <2>1, <2>3, <3>0, Renaming
      <3> QED
        BY <1>0, <2>1, <3>1, NothingNamed
    <2> QED
      BY <2>4, <2>6, <2>7, <2>8, <2>9 DEF Inv
  <1>9. CASE \E i \in Ids : Answered(i)
    <2> PICK i \in Ids : Answered(i)
      BY <1>9
    <2>1. /\ tasks[i].pc = "wait" /\ tasks'[i].pc = "settle"
          /\ tasks'[i].gen = tasks[i].gen /\ tasks'[i].from = tasks[i].from
          /\ \A j \in Ids : j # i => tasks'[j] = tasks[j]
          /\ tasks' \in Tasks
          /\ UNCHANGED <<lastId, compId, menu, resolveId, resolved, counter,
                         registered, cache, output>>
      <3>1. tasks \in Tasks
        BY <1>0 DEF Shapes
      <3> QED
        BY <3>1, Types, <1>0, MaxIdAssumption DEF Answered, Moved, editorVars, Ids
    <2>2. output' \in Seq(Replies) /\ output' = output
      BY <1>0, <2>1 DEF Shapes
    <2>3. \A p \in DOMAIN output : output[p].id \in Ids /\ output[p].id # i
      BY <1>0, <2>1, Replying DEF Requests
    <2>4. Shapes'
      BY <1>0, <2>1, <2>2, MaxIdAssumption DEF Shapes
    <2>5. Unstarted' \subseteq Unstarted
      BY <2>1 DEF Unstarted
    <2>6. Requests'
      <3>1. /\ Cardinality(Unstarted') <= Cardinality(Unstarted)
            /\ Cardinality(Unstarted) \in Nat /\ Cardinality(Unstarted') \in Nat
        BY <1>0, <2>5, Starting
      <3>2. counter' + Cardinality(Unstarted') <= MaxId
        BY <1>0, <2>1, <3>1, Types, MaxIdAssumption DEF Requests
      <3>3. \A j \in Ids : j > lastId' => tasks'[j].pc = "none"
        BY <1>0, <2>1 DEF Requests
      <3>4. \A j \in Ids : tasks'[j].pc = "pick" => tasks'[j].gen # 0
        BY <1>0, <2>1 DEF Requests
      <3>5. \A p \in DOMAIN output' : /\ tasks'[output'[p].id].pc = "done"
                                      /\ output'[p].type = "completion" =>
                                            output'[p].from = output'[p].id
        <4>1. ASSUME NEW p \in DOMAIN output'
              PROVE  \/ p \in DOMAIN output /\ output'[p] = output[p]
                     \/ /\ output'[p].id = i /\ tasks'[i].pc = "done"
                        /\ output'[p].type = "completion" => output'[p].from = i
          BY <2>1, <2>2
        <4> QED
          BY <1>0, <2>1, <2>3, <4>1 DEF Requests
      <3> QED
        BY <3>2, <3>3, <3>4, <3>5 DEF Requests
    <2>7. Awaiting'
      <3>1. \A j \in Ids : tasks[j].pc \in {"pick", "resolve", "done"} =>
               tasks'[j].pc \in {"pick", "resolve", "done"} /\ tasks'[j].gen = tasks[j].gen
        BY <2>1
      <3>2. UNCHANGED <<compId, menu, resolveId, resolved>>
        BY <2>1
      <3> QED
        BY <1>0, <3>1, <3>2, StillAwaiting
    <2>9. ResolvedFromMenu'
      BY <1>0, <2>1 DEF ResolvedFromMenu
    <2>8. GenerationsAgree'
      <3>0. \A p \in DOMAIN output' :
               \/ p \in DOMAIN output /\ output'[p] = output[p]
               \/ output'[p].type = "error"
               \/ /\ output'[p].type = "completion" /\ tasks[i].pc = "store"
                  /\ output'[p].gen = tasks[i].gen /\ output'[p].from = i
               \/ /\ output'[p].type = "resolve" /\ tasks[i].pc = "resolve"
                  /\ output'[p].id = i /\ output'[p].from = tasks[i].from
        BY <2>1, <2>2
      <3>1. \A g, f : Names(g, f)' => Names(g, f)
        BY <2>1, <2>3, <3>0, Renaming
      <3> QED
        BY <1>0, <2>1, <3>1, NothingNamed
    <2> QED
      BY <2>4, <2>6, <2>7, <2>8, <2>9 DEF Inv
  <1>10. CASE \E i \in Ids : Settle(i)
    <2> PICK i \in Ids : Settle(i)
      BY <1>10
    <2>1. /\ tasks[i].pc = "settle" /\ tasks'[i].pc \in {"store", "done"}
          /\ tasks'[i].gen = tasks[i].gen /\ tasks'[i].from = tasks[i].from
          /\ \A j \in Ids : j # i => tasks'[j] = tasks[j]
          /\ tasks' \in Tasks
          /\ UNCHANGED <<lastId, compId, menu, resolveId, resolved, counter, cache>>
      <3>1. tasks \in Tasks
        BY <1>0 DEF Shapes
      <3>2. PICK pc \in {"store", "done"} : tasks' = Moved(i, pc)
        BY DEF Settle
      <3>3. tasks[i].pc = "settle"
            /\ UNCHANGED <<lastId, compId, menu, resolveId, resolved, counter, cache>>
        BY DEF Settle, editorVars
      <3>4. tasks' \in Tasks /\ tasks'[i].pc = pc
            /\ tasks'[i].gen = tasks[i].gen /\ tasks'[i].from = tasks[i].from
            /\ \A j \in Ids : j # i => tasks'[j] = tasks[j]
        BY <3>1, <3>2 DEF Moved
      <3> QED
        BY <3>3, <3>4
    <2>2. /\ output' \in Seq(Replies)
          /\ \A p \in DOMAIN output' :
                \/ p \in DOMAIN output /\ output'[p] = output[p]
                \/ tasks'[i].pc = "done" /\ output'[p] = Failed(i)
      <3>1. Failed(i) \in Replies
        BY MaxIdAssumption DEF Replies
      <3>2. \/ output' = output
            \/ /\ output' = Append(output, Failed(i))
               /\ tasks' = Moved(i, "done")
        BY DEF Settle, Reply
      <3>3. output \in Seq(Replies)
        BY <1>0 DEF Shapes
      <3>4. output' # output => tasks'[i].pc = "done"
        BY <1>0, <3>2 DEF Moved, Shapes
      <3>5. CASE output' # output
        BY <1>0, <3>1, <3>2, <3>4, <3>5, Saying
      <3> QED
        BY <3>3, <3>5
    <2>3. \A p \in DOMAIN output : output[p].id \in Ids /\ output[p].id # i
      BY <1>0, <2>1, Replying DEF Requests
    <2>4. Shapes'
      <3>1. registered' \in 0 .. MaxId
        BY <1>0, Types, MaxIdAssumption DEF Settle
      <3> QED
        BY <1>0, <2>1, <2>2, <3>1 DEF Shapes
    <2>5. Unstarted' \subseteq Unstarted
      BY <2>1 DEF Unstarted
    <2>6. Requests'
      <3>1. /\ Cardinality(Unstarted') <= Cardinality(Unstarted)
            /\ Cardinality(Unstarted) \in Nat /\ Cardinality(Unstarted') \in Nat
        BY <1>0, <2>5, Starting
      <3>2. counter' + Cardinality(Unstarted') <= MaxId
        BY <1>0, <2>1, <3>1, Types, MaxIdAssumption DEF Requests
      <3>3. \A j \in Ids : j > lastId' => tasks'[j].pc = "none"
        BY <1>0, <2>1 DEF Requests
      <3>4. \A j \in Ids : tasks'[j].pc = "pick" => tasks'[j].gen # 0
        BY <1>0, <2>1 DEF Requests
      <3>5. \A p \in DOMAIN output' : /\ tasks'[output'[p].id].pc = "done"
                                      /\ output'[p].type = "completion" =>
                                            output'[p].from = output'[p].id
        <4>1. ASSUME NEW p \in DOMAIN output'
              PROVE  \/ p \in DOMAIN output /\ output'[p] = output[p]
                     \/ /\ output'[p].id = i /\ tasks'[i].pc = "done"
                        /\ output'[p].type = "completion" => output'[p].from = i
          BY <2>1, <2>2
        <4> QED
          BY <1>0, <2>1, <2>3, <4>1 DEF Requests
      <3> QED
        BY <3>2, <3>3, <3>4, <3>5 DEF Requests
    <2>7. Awaiting'
      <3>1. \A j \in Ids : tasks[j].pc \in {"pick", "resolve", "done"} =>
               tasks'[j].pc \in {"pick", "resolve", "done"} /\ tasks'[j].gen = tasks[j].gen
        BY <2>1
      <3>2. UNCHANGED <<compId, menu, resolveId, resolved>>
        BY <2>1
      <3> QED
        BY <1>0, <3>1, <3>2, StillAwaiting
    <2>9. ResolvedFromMenu'
      BY <1>0, <2>1 DEF ResolvedFromMenu
    <2>8. GenerationsAgree'
      <3>0. \A p \in DOMAIN output' :
               \/ p \in DOMAIN output /\ output'[p] = output[p]
               \/ output'[p].type = "error"
               \/ /\ output'[p].type = "completion" /\ tasks[i].pc = "store"
                  /\ output'[p].gen = tasks[i].gen /\ output'[p].from = i
               \/ /\ output'[p].type = "resolve" /\ tasks[i].pc = "resolve"
                  /\ output'[p].id = i /\ output'[p].from = tasks[i].from
        BY <2>1, <2>2
      <3>1. \A g, f : Names(g, f)' => Names(g, f)
        BY <2>1, <2>3, <3>0, Renaming
      <3> QED
        BY <1>0, <2>1, <3>1, NothingNamed
    <2> QED
      BY <2>4, <2>6, <2>7, <2>8, <2>9 DEF Inv
  <1>11. CASE \E i \in Ids : Store(i)
    <2> PICK i \in Ids : Store(i)
      BY <1>11
    <2>1. /\ tasks[i].pc = "store" /\ tasks'[i].pc = "done"
          /\ tasks'[i].gen = tasks[i].gen /\ tasks'[i].from = tasks[i].from
          /\ \A j \in Ids : j # i => tasks'[j] = tasks[j]
          /\ tasks' \in Tasks
          /\ UNCHANGED <<lastId, compId, menu, resolveId, resolved, counter,
                         registered>>
      <3>1. tasks \in Tasks
        BY <1>0 DEF Shapes
      <3> QED
        BY <3>1, Types, <1>0, MaxIdAssumption DEF Store, Moved, editorVars, Ids
    <2>2. /\ output' \in Seq(Replies)
          /\ \A p \in DOMAIN output' :
                \/ p \in DOMAIN output /\ output'[p] = output[p]
                \/ output'[p] = [type |-> "completion", id |-> i, gen |-> tasks[i].gen, from |-> i]
      <3>1. [type |-> "completion", id |-> i, gen |-> tasks[i].gen, from |-> i] \in Replies
        BY <1>0, Types, MaxIdAssumption DEF Replies, Ids
      <3>2. output' = Append(output, [type |-> "completion", id |-> i, gen |-> tasks[i].gen, from |-> i])
        BY DEF Store, Reply
      <3> QED
        BY <1>0, <3>1, <3>2, Saying
    <2>3. \A p \in DOMAIN output : output[p].id \in Ids /\ output[p].id # i
      BY <1>0, <2>1, Replying DEF Requests
    <2>4. Shapes'
      <3>1. cache'.gen \in 0 .. MaxId /\ cache'.from \in 0 .. MaxId
        BY <1>0, Types, MaxIdAssumption DEF Store, Ids
      <3> QED
        BY <1>0, <2>1, <2>2, <3>1 DEF Shapes
    <2>5. Unstarted' \subseteq Unstarted
      BY <2>1 DEF Unstarted
    <2>6. Requests'
      <3>1. /\ Cardinality(Unstarted') <= Cardinality(Unstarted)
            /\ Cardinality(Unstarted) \in Nat /\ Cardinality(Unstarted') \in Nat
        BY <1>0, <2>5, Starting
      <3>2. counter' + Cardinality(Unstarted') <= MaxId
        BY <1>0, <2>1, <3>1, Types, MaxIdAssumption DEF Requests
      <3>3. \A j \in Ids : j > lastId' => tasks'[j].pc = "none"
        BY <1>0, <2>1 DEF Requests
      <3>4. \A j \in Ids : tasks'[j].pc = "pick" => tasks'[j].gen # 0
        BY <1>0, <2>1 DEF Requests
      <3>5. \A p \in DOMAIN output' : /\ tasks'[output'[p].id].pc = "done"
                                      /\ output'[p].type = "completion" =>
                                            output'[p].from = output'[p].id
        <4>1. ASSUME NEW p \in DOMAIN output'
              PROVE  \/ p \in DOMAIN output /\ output'[p] = output[p]
                     \/ /\ output'[p].id = i /\ tasks'[i].pc = "done"
                        /\ output'[p].type = "completion" => output'[p].from = i
          BY <2>1, <2>2
        <4> QED
          BY <1>0, <2>1, <2>3, <4>1 DEF Requests
      <3> QED
        BY <3>2, <3>3, <3>4, <3>5 DEF Requests
    <2>7. Awaiting'
      <3>1. \A j \in Ids : tasks[j].pc \in {"pick", "resolve", "done"} =>
               tasks'[j].pc \in {"pick", "resolve", "done"} /\ tasks'[j].gen = tasks[j].gen
        BY <2>1
      <3>2. UNCHANGED <<compId, menu, resolveId, resolved>>
        BY <2>1
      <3> QED
        BY <1>0, <3>1, <3>2, StillAwaiting
    <2>9. ResolvedFromMenu'
      BY <1>0, <2>1 DEF ResolvedFromMenu
    <2>8. GenerationsAgree'
      <3>1. cache' = cache \/ cache' = [gen |-> tasks[i].gen, from |-> i]
        BY DEF Store
      <3>0. \A p \in DOMAIN output' :
               \/ p \in DOMAIN output /\ output'[p] = output[p]
               \/ output'[p].type = "error"
               \/ /\ output'[p].type = "completion" /\ tasks[i].pc = "store"
                  /\ output'[p].gen = tasks[i].gen /\ output'[p].from = i
               \/ /\ output'[p].type = "resolve" /\ tasks[i].pc = "resolve"
                  /\ output'[p].id = i /\ output'[p].from = tasks[i].from
        BY <2>1, <2>2
      <3>2. \A g, f : Names(g, f)' => Names(g, f)
        BY <2>1, <2>3, <3>0, Renaming, <3>1
      <3> QED
        BY <1>0, <2>1, <3>2, NothingNamed
    <2> QED
      BY <2>4, <2>6, <2>7, <2>8, <2>9 DEF Inv
  <1>12. CASE \E i \in Ids : Pick(i)
    <2> PICK i \in Ids : Pick(i)
      BY <1>12
    <2>1. /\ tasks[i].pc = "pick" /\ tasks'[i].pc \in {"resolve", "done"}
          /\ tasks'[i].gen = tasks[i].gen /\ tasks'[i].from = IF tasks'[i].pc = "resolve" THEN cache.from ELSE tasks[i].from
          /\ \A j \in Ids : j # i => tasks'[j] = tasks[j]
          /\ tasks' \in Tasks
          /\ UNCHANGED <<lastId, compId, menu, resolveId, resolved, counter,
                         registered, cache>>
      <3>1. tasks \in Tasks
        BY <1>0 DEF Shapes
      <3>2. \/ tasks' = Moved(i, "done")
            \/ tasks' = [tasks EXCEPT ![i].pc = "resolve", ![i].from = cache.from]
        BY DEF Pick
      <3>3. cache.from \in 0 .. MaxId
        BY <1>0, Types
      <3>4. CASE tasks' = Moved(i, "done")
        BY <3>1, <3>4 DEF Pick, Moved, editorVars
      <3>5. CASE tasks' = [tasks EXCEPT ![i].pc = "resolve", ![i].from = cache.from]
        BY <3>1, <3>3, <3>5 DEF Pick, editorVars
      <3> QED
        BY <3>1, <3>2, <3>4, <3>5, Types, <1>0, MaxIdAssumption
           DEF Pick, Moved, editorVars, Ids
    <2>2. /\ output' \in Seq(Replies)
          /\ \A p \in DOMAIN output' :
                \/ p \in DOMAIN output /\ output'[p] = output[p]
                \/ tasks'[i].pc = "done" /\ output'[p] = Failed(i)
      <3>1. Failed(i) \in Replies
        BY MaxIdAssumption DEF Replies
      <3>2. \/ output' = output
            \/ /\ output' = Append(output, Failed(i))
               /\ tasks' = Moved(i, "done")
        BY DEF Pick, Reply
      <3>3. output \in Seq(Replies)
        BY <1>0 DEF Shapes
      <3>4. output' # output => tasks'[i].pc = "done"
        BY <1>0, <3>2 DEF Moved, Shapes
      <3>5. CASE output' # output
        BY <1>0, <3>1, <3>2, <3>4, <3>5, Saying
      <3> QED
        BY <3>3, <3>5
    <2>3. \A p \in DOMAIN output : output[p].id \in Ids /\ output[p].id # i
      BY <1>0, <2>1, Replying DEF Requests
    <2>4. Shapes'
      BY <1>0, <2>1, <2>2, MaxIdAssumption DEF Shapes
    <2>5. Unstarted' \subseteq Unstarted
      BY <2>1 DEF Unstarted
    <2>6. Requests'
      <3>1. /\ Cardinality(Unstarted') <= Cardinality(Unstarted)
            /\ Cardinality(Unstarted) \in Nat /\ Cardinality(Unstarted') \in Nat
        BY <1>0, <2>5, Starting
      <3>2. counter' + Cardinality(Unstarted') <= MaxId
        BY <1>0, <2>1, <3>1, Types, MaxIdAssumption DEF Requests
      <3>3. \A j \in Ids : j > lastId' => tasks'[j].pc = "none"
        BY <1>0, <2>1 DEF Requests
      <3>4. \A j \in Ids : tasks'[j].pc = "pick" => tasks'[j].gen # 0
        BY <1>0, <2>1 DEF Requests
      <3>5. \A p \in DOMAIN output' : /\ tasks'[output'[p].id].pc = "done"
                                      /\ output'[p].type = "completion" =>
                                            output'[p].from = output'[p].id
        <4>1. ASSUME NEW p \in DOMAIN output'
              PROVE  \/ p \in DOMAIN output /\ output'[p] = output[p]
                     \/ /\ output'[p].id = i /\ tasks'[i].pc = "done"
                        /\ output'[p].type = "completion" => output'[p].from = i
          BY <2>1, <2>2
        <4> QED
          BY <1>0, <2>1, <2>3, <4>1 DEF Requests
      <3> QED
        BY <3>2, <3>3, <3>4, <3>5 DEF Requests
    <2>7. Awaiting'
      <3>1. \A j \in Ids : tasks[j].pc \in {"pick", "resolve", "done"} =>
               tasks'[j].pc \in {"pick", "resolve", "done"} /\ tasks'[j].gen = tasks[j].gen
        BY <2>1
      <3>2. UNCHANGED <<compId, menu, resolveId, resolved>>
        BY <2>1
      <3> QED
        BY <1>0, <3>1, <3>2, StillAwaiting
    <2>9. ResolvedFromMenu'
      BY <1>0, <2>1 DEF ResolvedFromMenu
    <2>8. GenerationsAgree'
      <3>1. tasks'[i].pc = "resolve" => cache.gen = tasks[i].gen /\ cache.gen # 0
        <4>1. tasks \in Tasks
          BY <1>0 DEF Shapes
        <4> QED
          BY <1>0, <2>1, <4>1 DEF Pick, Moved, Current, Requests
      <3>0. \A p \in DOMAIN output' :
               \/ p \in DOMAIN output /\ output'[p] = output[p]
               \/ output'[p].type = "error"
               \/ /\ output'[p].type = "completion" /\ tasks[i].pc = "store"
                  /\ output'[p].gen = tasks[i].gen /\ output'[p].from = i
               \/ /\ output'[p].type = "resolve" /\ tasks[i].pc = "resolve"
                  /\ output'[p].id = i /\ output'[p].from = tasks[i].from
        BY <2>1, <2>2
      <3>2. \A g, f : Names(g, f)' => Names(g, f)
        BY <2>1, <2>3, <3>0, Renaming, <3>1
      <3> QED
        BY <1>0, <2>1, <3>2, NothingNamed
    <2> QED
      BY <2>4, <2>6, <2>7, <2>8, <2>9 DEF Inv
  <1>13. CASE \E i \in Ids : Resolved(i)
    <2> PICK i \in Ids : Resolved(i)
      BY <1>13
    <2>1. /\ tasks[i].pc = "resolve" /\ tasks'[i].pc = "done"
          /\ tasks'[i].gen = tasks[i].gen /\ tasks'[i].from = tasks[i].from
          /\ \A j \in Ids : j # i => tasks'[j] = tasks[j]
          /\ tasks' \in Tasks
          /\ UNCHANGED <<lastId, compId, menu, resolveId, resolved, counter,
                         registered, cache>>
      <3>1. tasks \in Tasks
        BY <1>0 DEF Shapes
      <3> QED
        BY <3>1, Types, <1>0, MaxIdAssumption DEF Resolved, Moved, editorVars, Ids
    <2>2. /\ output' \in Seq(Replies)
          /\ \A p \in DOMAIN output' :
                \/ p \in DOMAIN output /\ output'[p] = output[p]
                \/ output'[p] = [type |-> "resolve", id |-> i, gen |-> 0, from |-> tasks[i].from]
                \/ output'[p] = Failed(i)
      <3>1. /\ [type |-> "resolve", id |-> i, gen |-> 0, from |-> tasks[i].from] \in Replies
            /\ Failed(i) \in Replies
        BY <1>0, Types, MaxIdAssumption DEF Replies, Ids
      <3>2. \/ output' = Append(output, [type |-> "resolve", id |-> i, gen |-> 0, from |-> tasks[i].from])
            \/ output' = Append(output, Failed(i))
        BY DEF Resolved, Reply
      <3> QED
        BY <1>0, <3>1, <3>2, Saying
    <2>3. \A p \in DOMAIN output : output[p].id \in Ids /\ output[p].id # i
      BY <1>0, <2>1, Replying DEF Requests
    <2>4. Shapes'
      BY <1>0, <2>1, <2>2, MaxIdAssumption DEF Shapes
    <2>5. Unstarted' \subseteq Unstarted
      BY <2>1 DEF Unstarted
    <2>6. Requests'
      <3>1. /\ Cardinality(Unstarted') <= Cardinality(Unstarted)
            /\ Cardinality(Unstarted) \in Nat /\ Cardinality(Unstarted') \in Nat
        BY <1>0, <2>5, Starting
      <3>2. counter' + Cardinality(Unstarted') <= MaxId
        BY <1>0, <2>1, <3>1, Types, MaxIdAssumption DEF Requests
      <3>3. \A j \in Ids : j > lastId' => tasks'[j].pc = "none"
        BY <1>0, <2>1 DEF Requests
      <3>4. \A j \in Ids : tasks'[j].pc = "pick" => tasks'[j].gen # 0
        BY <1>0, <2>1 DEF Requests
      <3>5. \A p \in DOMAIN output' : /\ tasks'[output'[p].id].pc = "done"
                                      /\ output'[p].type = "completion" =>
                                            output'[p].from = output'[p].id
        <4>1. ASSUME NEW p \in DOMAIN output'
              PROVE  \/ p \in DOMAIN output /\ output'[p] = output[p]
                     \/ /\ output'[p].id = i /\ tasks'[i].pc = "done"
                        /\ output'[p].type = "completion" => output'[p].from = i
          BY <2>1, <2>2
        <4> QED
          BY <1>0, <2>1, <2>3, <4>1 DEF Requests
      <3> QED
        BY <3>2, <3>3, <3>4, <3>5 DEF Requests
    <2>7. Awaiting'
      <3>1. \A j \in Ids : tasks[j].pc \in {"pick", "resolve", "done"} =>
               tasks'[j].pc \in {"pick", "resolve", "done"} /\ tasks'[j].gen = tasks[j].gen
        BY <2>1
      <3>2. UNCHANGED <<compId, menu, resolveId, resolved>>
        BY <2>1
      <3> QED
        BY <1>0, <3>1, <3>2, StillAwaiting
    <2>9. ResolvedFromMenu'
      BY <1>0, <2>1 DEF ResolvedFromMenu
    <2>8. GenerationsAgree'
      <3>0. \A p \in DOMAIN output' :
               \/ p \in DOMAIN output /\ output'[p] = output[p]
               \/ output'[p].type = "error"
               \/ /\ output'[p].type = "completion" /\ tasks[i].pc = "store"
                  /\ output'[p].gen = tasks[i].gen /\ output'[p].from = i
               \/ /\ output'[p].type = "resolve" /\ tasks[i].pc = "resolve"
                  /\ output'[p].id = i /\ output'[p].from = tasks[i].from
        BY <2>1, <2>2
      <3>1. \A g, f : Names(g, f)' => Names(g, f)
        BY <2>1, <2>3, <3>0, Renaming
      <3> QED
        BY <1>0, <2>1, <3>1, NothingNamed
    <2> QED
      BY <2>4, <2>6, <2>7, <2>8, <2>9 DEF Inv
  <1>14. CASE UNCHANGED vars
    BY <1>0, <1>14 DEF vars, editorVars, Inv, Shapes, Requests, Unstarted, Awaiting,
                       GenerationsAgree, Names, ResolvedFromMenu
  <1> QED
    BY <1>1, <1>2, <1>3, <1>4, <1>5, <1>6, <1>7, <1>8, <1>9, <1>10, <1>11, <1>12,
       <1>13,
       <1>14 DEF Next

-----------------------------------------------------------------------------
(* The results. *)

\* Inv is an invariant.
THEOREM Inductive == Spec => []Inv
  BY InvInit, InvStep, PTL DEF Spec

\* The editor's state, the daemon's tasks and the replies keep their types, and
\* the generation counter never exceeds the number of requests; while a completion
\* is awaited, nothing of an earlier menu is left.
THEOREM TypeCorrect == Spec => []TypeOK
  <1>1. Inv => TypeOK
    BY DEF Inv, Awaiting, TypeOK
  <1> QED
    BY <1>1, Inductive, PTL

\* What is shown for a menu item was resolved from the very reply the menu shows
\* (LspClient::completion_resolve against ResolveCompletionItem of the editor).
THEOREM ResolvesTheMenu == Spec => []ResolvedFromMenu
  BY Inductive, PTL DEF Inv

-----------------------------------------------------------------------------
(* Induction, and the folds of the model by their equations.               *)

\* A set of numbers has a least one: how what follows is proved by induction.
LEMMA LeastNumber ==
  ASSUME NEW T \in SUBSET Nat, T # {}
  PROVE  \E m \in T : \A k \in T : m <= k
  <1> DEFINE Upto(n) == 0 .. n
             Sets == {Upto(n) : n \in T}
  <1>1. \A n \in Nat : Upto(n) \in FiniteSubsetsOf(Nat)
    <2> TAKE n \in Nat
    <2>1. IsFiniteSet(Upto(n))
      BY FS_Interval
    <2> QED
      BY <2>1 DEF FiniteSubsetsOf
  <1>2. Sets \subseteq FiniteSubsetsOf(Nat) /\ Sets # {}
    <2> HIDE DEF Upto
    <2> QED
      BY <1>1
  <1>3. PICK t \in Sets : \A u \in Sets : ~(<<u, t>> \in StrictSubsetOrdering(Nat))
    BY <1>2, FS_StrictSubsetOrderingWellFounded, WFMin
  <1>4. PICK m \in T : t = Upto(m)
    OBVIOUS
  <1>5. ASSUME NEW k \in T, k < m PROVE FALSE
    <2>1. Upto(k) \subseteq Upto(m) /\ m \in Upto(m) /\ m \notin Upto(k)
          /\ Upto(m) \in SUBSET Nat
      BY <1>5
    <2>2. <<Upto(k), Upto(m)>> \in StrictSubsetOrdering(Nat)
      BY <2>1 DEF StrictSubsetOrdering
    <2> QED
      BY <1>3, <1>4, <2>2
  <1> QED
    BY <1>5

\* Induction for a set of numbers.
LEMMA SetOfAllNumbers ==
  ASSUME NEW T \in SUBSET Nat, 0 \in T, \A m \in T : m + 1 \in T
  PROVE  T = Nat
  <1> SUFFICES ASSUME Nat \ T # {} PROVE FALSE
    OBVIOUS
  <1>1. PICK m \in Nat \ T : \A k \in Nat \ T : m <= k
    <2>1. Nat \ T \in SUBSET Nat
      OBVIOUS
    <2> QED
      BY <2>1, LeastNumber
  <1>2. m # 0 /\ m - 1 \in Nat
    BY <1>1
  <1>3. m - 1 \in T
    BY <1>1, <1>2
  <1> QED
    BY <1>1, <1>2, <1>3

\* The greatest of the numbers up to m is m, if it is among them.
LEMMA MaxOfUpto ==
  ASSUME NEW m \in Nat, NEW S \in SUBSET (1 .. m), m \in S
  PROVE  Max(S) = m
  <1>1. \A x \in S : (\A y \in S : x >= y) <=> x = m
    OBVIOUS
  <1> QED
    BY <1>1 DEF Max

\* Splices one after the other.
Spliced(t, s) == FoldLeft(Splice, t, s)

\* r has the results of the splices of s, up to n, one after the other.
Splicing(r, t, s, n) == r[0] = t /\ \A k \in 1 .. n : r[k] = Splice(r[k - 1], s[k])

\* The fold of the splices is the last of the results of one splice after the
\* other.
LEMMA FoldOfSplices ==
  ASSUME NEW t, NEW s, NEW n \in Nat, DOMAIN s = 1 .. n
  PROVE  \E r : Splicing(r, t, s, n) /\ Spliced(t, s) = r[n]
  <1> DEFINE Step(h, k) == [S \in SUBSET (1 .. k) |->
                              IF S = {} THEN t ELSE Splice(h[S \ {Max(S)}], s[Max(S)])]
             Good == {m \in Nat : \E h : h = Step(h, m)}
  <1>1. ASSUME NEW m \in Nat, NEW S \in SUBSET (1 .. m), m \in S PROVE Max(S) = m
    BY <1>1, MaxOfUpto
  <1>2. Good = Nat
    <2>1. 0 \in Good
      <3>1. Step(<<>>, 0) = Step(Step(<<>>, 0), 0)
        OBVIOUS
      <3> QED
        BY <3>1
    <2>2. ASSUME NEW k \in Good PROVE k + 1 \in Good
      <3>0. k \in Nat /\ k + 1 \in Nat
        OBVIOUS
      <3>1. PICK f : f = Step(f, k)
        OBVIOUS
      <3> DEFINE m == k + 1
                 g == [S \in SUBSET (1 .. m) |->
                         IF m \in S THEN Splice(f[S \ {m}], s[m]) ELSE f[S]]
      <3>2. ASSUME NEW S \in SUBSET (1 .. m)
            PROVE  g[S] = IF S = {} THEN t ELSE Splice(g[S \ {Max(S)}], s[Max(S)])
        <4>1. S \ {Max(S)} \in SUBSET (1 .. m) /\ m \in Nat
          BY <3>0
        <4>2. CASE m \in S
          <5>1. Max(S) = m
            BY <1>1, <4>1, <4>2
          <5>2. g[S \ {m}] = f[S \ {m}]
            BY <4>1
          <5> QED
            BY <4>2, <5>1, <5>2
        <4>3. CASE m \notin S
          <5>1. S \in SUBSET (1 .. k)
            BY <4>3
          <5>2. f[S] = IF S = {} THEN t ELSE Splice(f[S \ {Max(S)}], s[Max(S)])
            BY <3>1, <5>1
          <5>3. g[S \ {Max(S)}] = f[S \ {Max(S)}]
            BY <4>1, <4>3
          <5> QED
            BY <4>3, <5>2, <5>3
        <4> QED
          BY <4>2, <4>3
      <3>3. g = Step(g, m)
        BY <3>2
      <3>4. \E h : h = Step(h, k + 1)
        BY <3>3
      <3> HIDE DEF Step
      <3> QED
        BY <3>0, <3>4
    <2> HIDE DEF Good
    <2>3. Good \in SUBSET Nat
      BY DEF Good
    <2> QED
      BY <2>1, <2>2, <2>3, SetOfAllNumbers
  <1> DEFINE F == CHOOSE f : f = Step(f, n)
  <1>3. F = Step(F, n)
    <2>1. n \in Good
      BY <1>2
    <2> HIDE DEF Step
    <2> QED
      BY <2>1
  <1>4. FoldLeft(Splice, t, s) = F[1 .. n]
    BY DEF FoldLeft, MapThenFoldSet
  <1> HIDE DEF F
  <1> DEFINE r == [k \in 0 .. n |-> F[1 .. k]]
  <1>5. r[0] = t
    BY <1>3
  <1>6. ASSUME NEW k \in 1 .. n PROVE r[k] = Splice(r[k - 1], s[k])
    <2>1. 1 .. k \in SUBSET (1 .. n) /\ k \in 1 .. k
      OBVIOUS
    <2>2. Max(1 .. k) = k
      BY <1>1, <2>1
    <2>3. (1 .. k) \ {k} = 1 .. k - 1
      OBVIOUS
    <2>5. k \in 0 .. n /\ k - 1 \in 0 .. n
      OBVIOUS
    <2>6. 1 .. k # {}
      BY <2>1
    <2>4. F[1 .. k] = Splice(F[(1 .. k) \ {Max(1 .. k)}], s[Max(1 .. k)])
      BY <1>3, <2>1, <2>6
    <2> QED
      BY <2>2, <2>3, <2>4, <2>5
  <1>7. Spliced(t, s) = r[n]
    BY <1>4 DEF Spliced
  <1> HIDE DEF r
  <1> QED
    BY <1>5, <1>6, <1>7 DEF Splicing

\* A sequence of sequences, flattened one after the other.
LEMMA FlatteningByParts ==
  ASSUME NEW X, NEW s \in Seq(Seq(X))
  PROVE  \E g \in [0 .. Len(s) -> Seq(X)] :
           /\ g[0] = <<>>
           /\ \A i \in 1 .. Len(s) : g[i] = g[i - 1] \o s[i]
           /\ FlattenSeq(s) = g[Len(s)]
  <1> DEFINE n == Len(s)
             Step(h, k) == [i \in 1 .. k |-> IF i = 1 THEN s[i] ELSE h[i - 1] \o s[i]]
             Good == {m \in Nat : \E h : h = Step(h, m)}
  <1>1. n \in Nat /\ \A i \in 1 .. n : s[i] \in Seq(X)
    OBVIOUS
  <1>2. Good = Nat
    <2>1. 0 \in Good
      <3>1. Step(<<>>, 0) = Step(Step(<<>>, 0), 0)
        OBVIOUS
      <3> QED
        BY <3>1
    <2>2. ASSUME NEW k \in Good PROVE k + 1 \in Good
      <3>1. k \in Nat /\ k + 1 \in Nat
        OBVIOUS
      <3>2. PICK f : f = Step(f, k)
        OBVIOUS
      <3> DEFINE g == [i \in 1 .. k + 1 |->
                         IF i = 1 THEN s[i] ELSE IF i = k + 1 THEN f[k] \o s[i] ELSE f[i]]
      <3>3. ASSUME NEW i \in 1 .. k + 1
            PROVE  g[i] = IF i = 1 THEN s[i] ELSE g[i - 1] \o s[i]
        <4>1. CASE i = 1
          BY <3>1, <4>1
        <4>2. CASE i # 1
          <5>1. i - 1 \in 1 .. k
            BY <3>1, <4>2
          <5>2. f[i - 1] = IF i - 1 = 1 THEN s[i - 1] ELSE f[i - 1 - 1] \o s[i - 1]
            BY <3>2, <5>1
          <5>3. g[i - 1] = f[i - 1]
            BY <3>1, <5>1, <5>2
          <5>4. CASE i = k + 1
            <6>1. g[i] = f[k] \o s[i]
              BY <4>2, <5>4
            <6>2. i - 1 = k
              BY <3>1, <5>4
            <6> HIDE DEF g
            <6> QED
              BY <4>2, <5>3, <6>1, <6>2
          <5>5. CASE i # k + 1
            <6>1. i \in 1 .. k
              BY <3>1, <5>5
            <6>2. f[i] = f[i - 1] \o s[i]
              BY <3>2, <4>2, <6>1
            <6>3. g[i] = f[i]
              BY <4>2, <5>5
            <6> HIDE DEF g
            <6> QED
              BY <4>2, <5>3, <6>2, <6>3
          <5> QED
            BY <5>4, <5>5
        <4> QED
          BY <4>1, <4>2
      <3>4. \E h : h = Step(h, k + 1)
        <4>1. g = Step(g, k + 1)
          BY <3>3
        <4> HIDE DEF g, Step
        <4> QED
          BY <4>1
      <3> HIDE DEF Step
      <3> QED
        BY <3>1, <3>4
    <2> HIDE DEF Good
    <2>3. Good \in SUBSET Nat
      BY DEF Good
    <2> QED
      BY <2>1, <2>2, <2>3, SetOfAllNumbers
  <1> DEFINE F == CHOOSE f : f = Step(f, n)
             g == [i \in 0 .. n |-> IF i = 0 THEN <<>> ELSE F[i]]
  <1>3. F = Step(F, n)
    <2>1. n \in Good
      BY <1>1, <1>2
    <2> HIDE DEF Step, n
    <2> QED
      BY <2>1
  <1>4. FlattenSeq(s) = IF n = 0 THEN s ELSE F[n]
    BY DEF FlattenSeq
  <1> HIDE DEF F, Good
  <1>5. g[0] = <<>>
    BY <1>1
  <1>6. ASSUME NEW i \in 1 .. n PROVE g[i] = g[i - 1] \o s[i]
    <2>1. F[i] = IF i = 1 THEN s[i] ELSE F[i - 1] \o s[i]
      BY <1>3
    <2>2. g[i] = F[i] /\ g[i - 1] = IF i = 1 THEN <<>> ELSE F[i - 1]
      BY <1>1
    <2>3. <<>> \o s[i] = s[i]
      BY <1>1, ConcatEmptySeq
    <2> QED
      BY <2>1, <2>2, <2>3
  <1>7. FlattenSeq(s) = g[n]
    <2>1. n = 0 => s = <<>>
      OBVIOUS
    <2> QED
      BY <1>1, <1>4, <2>1
  <1>8. \A i \in 0 .. n : g[i] \in Seq(X)
    <2> DEFINE Typed == {i \in Nat : i <= n => g[i] \in Seq(X)}
    <2>1. 0 \in Typed
      BY <1>5
    <2>2. ASSUME NEW i \in Typed PROVE i + 1 \in Typed
      <3>1. i \in Nat /\ i + 1 \in Nat
        OBVIOUS
      <3> SUFFICES ASSUME NEW j \in 1 .. n, j = i + 1 PROVE g[j] \in Seq(X)
        BY <1>1, <3>1
      <3> HIDE DEF g, n
      <3>2. g[j - 1] \in Seq(X)
        BY <1>1, <3>1
      <3>3. g[j] = g[j - 1] \o s[j] /\ s[j] \in Seq(X)
        BY <1>1, <1>6
      <3> QED
        BY <3>2, <3>3, ConcatProperties
    <2> HIDE DEF Typed
    <2>3. Typed = Nat
      <3>1. Typed \in SUBSET Nat
        BY DEF Typed
      <3> QED
        BY <2>1, <2>2, <3>1, SetOfAllNumbers
    <2> HIDE DEF g
    <2> QED
      BY <1>1, <2>3 DEF Typed
  <1>9. g \in [0 .. n -> Seq(X)]
    BY <1>8
  <1> HIDE DEF g
  <1> QED
    BY <1>5, <1>6, <1>7, <1>9

-----------------------------------------------------------------------------
(* The order in which the edits are applied.                               *)

\* Any list of edits can be brought into the order, by insertion.
LEMMA Sorting ==
  ASSUME NEW edits, NEW n \in Nat, \A i \in 1 .. n : edits[i].start \in Nat
  PROVE  \E p \in Bijection(1 .. n, 1 .. n) :
           \A i, j \in 1 .. n : i < j => Before(edits, p[i], p[j])
  <1> DEFINE Sorted(p, m) == \A i, j \in 1 .. m : i < j => Before(edits, p[i], p[j])
             Good == {m \in Nat : m <= n =>
                         \E p \in Bijection(1 .. m, 1 .. m) : Sorted(p, m)}
  <1>1. \A i, j \in 1 .. n : i # j => Before(edits, i, j) \/ Before(edits, j, i)
    BY DEF Before
  <1>2. \A i, j, k \in 1 .. n :
          Before(edits, i, j) /\ Before(edits, j, k) => Before(edits, i, k)
    BY DEF Before
  <1>3. 0 \in Good
    <2>1. [i \in 1 .. 0 |-> i] \in Bijection(1 .. 0, 1 .. 0)
      BY DEF Bijection, Injection, Surjection, IsInjective
    <2>2. Sorted([i \in 1 .. 0 |-> i], 0)
      OBVIOUS
    <2> QED
      BY <2>1, <2>2
  <1>4. ASSUME NEW m \in Good PROVE m + 1 \in Good
    <2>1. m \in Nat /\ m + 1 \in Nat
      OBVIOUS
    <2> SUFFICES ASSUME m + 1 <= n
                 PROVE  \E q \in Bijection(1 .. m + 1, 1 .. m + 1) : Sorted(q, m + 1)
      BY <2>1
    <2>2. PICK p \in Bijection(1 .. m, 1 .. m) : Sorted(p, m)
      BY <2>1
    <2>3. /\ \A i \in 1 .. m : p[i] \in 1 .. m /\ p[i] \in 1 .. n
          /\ \A i, j \in 1 .. m : p[i] = p[j] => i = j
          /\ \A k \in 1 .. m : \E i \in 1 .. m : p[i] = k
      <3>1. /\ p \in [1 .. m -> 1 .. m]
            /\ \A i, j \in 1 .. m : p[i] = p[j] => i = j
            /\ \A k \in 1 .. m : \E i \in 1 .. m : p[i] = k
        BY DEF Bijection, Injection, Surjection, IsInjective
      <3>2. \A i \in 1 .. m : p[i] \in 1 .. m
        BY <3>1
      <3>3. \A i \in 1 .. m : p[i] \in 1 .. n
        BY <2>1, <3>2
      <3> QED
        BY <3>1, <3>2, <3>3
    <2> DEFINE Places == {c \in 0 .. m : \A i \in c + 1 .. m : Before(edits, m + 1, p[i])}
    <2>4. PICK c \in Places : \A d \in Places : c <= d
      <3>1. m \in Places /\ Places \in SUBSET Nat
        BY <2>1
      <3> HIDE DEF Places
      <3> QED
        BY <3>1, LeastNumber
    <2>5. \A i \in 1 .. c : Before(edits, p[i], m + 1)
      <3> SUFFICES ASSUME NEW i \in 1 .. c PROVE Before(edits, p[i], m + 1)
        OBVIOUS
      <3>1. c \in 1 .. m /\ i \in 1 .. m /\ m + 1 \in 1 .. n /\ c - 1 \in 0 .. m
        BY <2>1
      <3>2. c - 1 \notin Places
        BY <2>4, <3>1
      <3>3. PICK k \in (c - 1) + 1 .. m : ~ Before(edits, m + 1, p[k])
        BY <3>1, <3>2
      <3>4. k = c
        BY <2>1, <2>4, <3>1, <3>3
      <3>5. p[c] \in 1 .. n /\ p[i] \in 1 .. n /\ p[c] # m + 1
        <4>1. p[c] \in 1 .. m /\ p[i] \in 1 .. m
          BY <2>3, <3>1
        <4> QED
          BY <2>1, <4>1
      <3>6. Before(edits, p[c], m + 1)
        BY <1>1, <3>1, <3>3, <3>4, <3>5
      <3>7. i # c => Before(edits, p[i], p[c])
        BY <2>2, <3>1
      <3> QED
        BY <1>2, <3>1, <3>5, <3>6, <3>7
    <2>6. \A i \in c + 1 .. m : Before(edits, m + 1, p[i])
      OBVIOUS
    <2>7. c \in 0 .. m
      OBVIOUS
    <2> HIDE DEF Places
    <2> DEFINE q == [i \in 1 .. m + 1 |-> IF i <= c THEN p[i]
                                          ELSE IF i = c + 1 THEN m + 1 ELSE p[i - 1]]
    <2>8. q \in Bijection(1 .. m + 1, 1 .. m + 1)
      <3>0. ASSUME NEW i \in 1 .. m + 1
            PROVE  \/ \E k \in 1 .. m : /\ q[i] = p[k] /\ p[k] \in 1 .. m
                                        /\ ((i <= c /\ k = i) \/ (i > c + 1 /\ k = i - 1))
                   \/ i = c + 1 /\ q[i] = m + 1
        <4>1. CASE i <= c
          <5>1. i \in 1 .. m /\ q[i] = p[i]
            BY <2>1, <2>7, <4>1
          <5> HIDE DEF q
          <5>2. p[i] \in 1 .. m
            BY <2>3, <5>1
          <5> QED
            BY <4>1, <5>1, <5>2
        <4>2. CASE i = c + 1
          BY <2>1, <2>7, <4>2
        <4>3. CASE i > c + 1
          <5>1. i - 1 \in 1 .. m /\ q[i] = p[i - 1]
            BY <2>1, <2>7, <4>3
          <5> HIDE DEF q
          <5> QED
            BY <2>3, <4>3, <5>1
        <4> QED
          BY <2>7, <4>1, <4>2, <4>3
      <3>1. \A i \in 1 .. m + 1 : q[i] \in 1 .. m + 1
        <4> HIDE DEF q
        <4> QED
          BY <2>1, <3>0
      <3>2. ASSUME NEW i \in 1 .. m + 1, NEW j \in 1 .. m + 1, q[i] = q[j] PROVE i = j
        <4> HIDE DEF q
        <4>3. m + 1 \notin 1 .. m
          BY <2>1
        <4>4. CASE i = c + 1 /\ q[i] = m + 1
          BY <3>0, <3>2, <4>3, <4>4
        <4>5. CASE \E k \in 1 .. m : /\ q[i] = p[k] /\ p[k] \in 1 .. m
                                     /\ ((i <= c /\ k = i) \/ (i > c + 1 /\ k = i - 1))
          <5>1. PICK k \in 1 .. m : /\ q[i] = p[k] /\ p[k] \in 1 .. m
                                    /\ ((i <= c /\ k = i) \/ (i > c + 1 /\ k = i - 1))
            BY <4>5
          <5>2. PICK l \in 1 .. m : /\ q[j] = p[l]
                                    /\ ((j <= c /\ l = j) \/ (j > c + 1 /\ l = j - 1))
            BY <3>0, <3>2, <4>3, <5>1
          <5>3. p[k] = p[l]
            BY <3>2, <5>1, <5>2
          <5>4. k = l
            BY <2>3, <5>3
          <5> QED
            BY <2>1, <2>7, <5>1, <5>2, <5>4
        <4> QED
          BY <3>0, <4>4, <4>5
      <3>3. ASSUME NEW k \in 1 .. m + 1 PROVE \E i \in 1 .. m + 1 : q[i] = k
        <4>1. CASE k = m + 1
          <5>1. q[c + 1] = k /\ c + 1 \in 1 .. m + 1
            BY <2>1, <2>7, <4>1
          <5> QED
            BY <5>1
        <4>2. CASE k # m + 1
          <5>0. k \in 1 .. m
            BY <2>1, <4>2
          <5>1. PICK i \in 1 .. m : p[i] = k
            BY <2>3, <5>0
          <5>2. CASE i <= c
            <6>1. q[i] = k /\ i \in 1 .. m + 1
              BY <2>1, <2>7, <5>1, <5>2
            <6> QED
              BY <6>1
          <5>3. CASE i > c
            <6>1. q[i + 1] = k /\ i + 1 \in 1 .. m + 1
              BY <2>1, <2>7, <5>1, <5>3
            <6> QED
              BY <6>1
          <5> QED
            BY <2>7, <5>2, <5>3
        <4> QED
          BY <4>1, <4>2
      <3> HIDE DEF q
      <3>4. q \in [1 .. m + 1 -> 1 .. m + 1]
        BY <3>1 DEF q
      <3> QED
        BY <3>2, <3>3, <3>4 DEF Bijection, Injection, Surjection, IsInjective
    <2>9. Sorted(q, m + 1)
      <3> SUFFICES ASSUME NEW i \in 1 .. m + 1, NEW j \in 1 .. m + 1, i < j
                   PROVE  Before(edits, q[i], q[j])
        OBVIOUS
      <3>1. CASE j <= c
        BY <2>1, <2>2, <2>7, <3>1
      <3>2. CASE j = c + 1
        BY <2>1, <2>5, <2>7, <3>2
      <3>3. CASE j > c + 1
        <4>1. j - 1 \in c + 1 .. m /\ j - 1 \in 1 .. m /\ q[j] = p[j - 1]
          BY <2>1, <2>7, <3>3
        <4>2. CASE i <= c
          <5>1. i \in 1 .. m /\ i < j - 1 /\ q[i] = p[i]
            BY <2>1, <2>7, <3>3, <4>2
          <5> QED
            BY <2>2, <4>1, <5>1
        <4>3. CASE i = c + 1
          <5>1. q[i] = m + 1
            BY <2>7, <4>3
          <5> QED
            BY <2>6, <4>1, <5>1
        <4>4. CASE i > c + 1
          <5>1. i - 1 \in 1 .. m /\ i - 1 < j - 1 /\ q[i] = p[i - 1]
            BY <2>1, <2>7, <3>3, <4>4
          <5> QED
            BY <2>2, <4>1, <5>1
        <4> QED
          BY <2>7, <4>2, <4>3, <4>4
      <3> QED
        BY <2>7, <3>1, <3>2, <3>3
    <2> HIDE DEF q, Sorted
    <2> QED
      BY <2>8, <2>9
  <1> HIDE DEF Good
  <1>5. Good = Nat
    <2>1. Good \in SUBSET Nat
      BY DEF Good
    <2> QED
      BY <1>3, <1>4, <2>1, SetOfAllNumbers
  <1>6. n \in Good
    BY <1>5
  <1> QED
    BY <1>6 DEF Good

\* Edits as a server may send them, well-placed or not, over tokens of X.
EditsOf(X) == [start : Nat, delete : Nat, data : Seq(X)]

\* Each edit covers whole tokens that are there.
InPlace(tokens, edits) ==
  \A i \in DOMAIN edits : /\ edits[i].start % Width = 0 /\ edits[i].delete % Width = 0
                          /\ To(edits[i]) <= Len(tokens)

\* No two edits begin at one place or overlap.
Apart(edits) ==
  \A i, j \in DOMAIN edits :
    i # j => /\ From(edits[i]) # From(edits[j])
             /\ From(edits[i]) < From(edits[j]) => To(edits[i]) <= From(edits[j])

\* Where an edit begins and ends, in tokens.
LEMMA Ends ==
  ASSUME NEW X, NEW e \in EditsOf(X)
  PROVE  /\ From(e) \in Nat /\ To(e) \in Nat /\ From(e) <= To(e) /\ e.data \in Seq(X)
         /\ e.start \in Nat /\ e.delete \in Nat
         /\ \A d \in EditsOf(X) :
              /\ d.start >= e.start => From(d) >= From(e)
              /\ From(d) > From(e) => d.start > e.start
  BY DEF EditsOf, From, To, Width

\* The order in which the edits are applied is a sorted one.
LEMMA Descent ==
  ASSUME NEW X, NEW edits \in Seq(EditsOf(X))
  PROVE  \E p \in Bijection(1 .. Len(edits), 1 .. Len(edits)) :
           /\ \A i, j \in 1 .. Len(edits) : i < j => Before(edits, p[i], p[j])
           /\ Descending(edits) = [i \in 1 .. Len(edits) |-> edits[p[i]]]
  <1> DEFINE n == Len(edits)
             Sorts(p) == \A i, j \in 1 .. n : i < j => Before(edits, p[i], p[j])
             order == CHOOSE p \in Bijection(1 .. n, 1 .. n) : Sorts(p)
  <1>1. n \in Nat /\ DOMAIN edits = 1 .. n
    OBVIOUS
  <1>2. \A i \in 1 .. n : edits[i].start \in Nat
    BY Ends, <1>1
  <1>3. \E p \in Bijection(1 .. n, 1 .. n) : Sorts(p)
    BY <1>1, <1>2, Sorting
  <1>4. order \in Bijection(1 .. n, 1 .. n) /\ Sorts(order)
    <2> HIDE DEF Sorts
    <2> QED
      BY <1>3
  <1>5. Descending(edits) = [i \in 1 .. n |-> edits[order[i]]]
    BY <1>1 DEF Descending
  <1> HIDE DEF order, n
  <1>6. PICK p \in Bijection(1 .. n, 1 .. n) : p = order
    BY <1>4
  <1> QED
    BY <1>4, <1>5, <1>6 DEF n

\* d has the edits, from the last to the first.
GoesDown(d, edits) ==
  /\ DOMAIN d = 1 .. Len(edits)
  /\ \A i \in DOMAIN d : \E j \in DOMAIN edits : d[i] = edits[j]
  /\ \A j \in DOMAIN edits : \E i \in DOMAIN d : d[i] = edits[j]
  /\ \A i, j \in DOMAIN d : i < j => d[i].start >= d[j].start
  /\ Apart(edits) => \A i, j \in DOMAIN d :
       i < j => From(d[j]) < From(d[i]) /\ To(d[j]) <= From(d[i])

\* What the list in the order of application is like.
LEMMA DescentOfEdits ==
  ASSUME NEW X, NEW edits \in Seq(EditsOf(X))
  PROVE  /\ Descending(edits) \in Seq(EditsOf(X))
         /\ GoesDown(Descending(edits), edits)
  <1>0. PICK d : d = Descending(edits)
    OBVIOUS
  <1> DEFINE n == Len(edits)
  <1>1. n \in Nat /\ DOMAIN edits = 1 .. n /\ \A i \in 1 .. n : edits[i] \in EditsOf(X)
    OBVIOUS
  <1>2. PICK p \in Bijection(1 .. n, 1 .. n) :
           /\ \A i, j \in 1 .. n : i < j => Before(edits, p[i], p[j])
           /\ d = [i \in 1 .. n |-> edits[p[i]]]
    BY <1>0, Descent
  <1>3. /\ p \in [1 .. n -> 1 .. n]
        /\ \A i, j \in 1 .. n : p[i] = p[j] => i = j
        /\ \A k \in 1 .. n : \E i \in 1 .. n : p[i] = k
    BY DEF Bijection, Injection, Surjection, IsInjective
  <1>4. DOMAIN d = 1 .. n /\ \A i \in 1 .. n : d[i] = edits[p[i]] /\ p[i] \in 1 .. n
    BY <1>2, <1>3
  <1>5. \A i \in DOMAIN d : \E j \in DOMAIN edits : d[i] = edits[j]
    BY <1>1, <1>4
  <1>6. \A j \in DOMAIN edits : \E i \in DOMAIN d : d[i] = edits[j]
    BY <1>1, <1>3, <1>4
  <1>7. d \in [1 .. n -> EditsOf(X)]
    BY <1>1, <1>2, <1>4
  <1>8. d \in Seq(EditsOf(X)) /\ Len(d) = n
    BY <1>1, <1>7
  <1>9. \A i, j \in DOMAIN d : i < j => d[i].start >= d[j].start
    <2> SUFFICES ASSUME NEW i \in 1 .. n, NEW j \in 1 .. n, i < j
                 PROVE  d[i].start >= d[j].start
      BY <1>4
    <2>1. d[i].start \in Nat /\ d[j].start \in Nat
      BY <1>1, <1>4, Ends
    <2>2. Before(edits, p[i], p[j])
      BY <1>2
    <2> QED
      BY <1>4, <2>1, <2>2 DEF Before
  <1>10. ASSUME Apart(edits), NEW i \in DOMAIN d, NEW j \in DOMAIN d, i < j
         PROVE  From(d[j]) < From(d[i]) /\ To(d[j]) <= From(d[i])
    <2>1. p[i] \in DOMAIN edits /\ p[j] \in DOMAIN edits /\ p[i] # p[j]
      BY <1>1, <1>3, <1>4, <1>10
    <2>2. /\ From(d[i]) # From(d[j])
          /\ From(d[j]) < From(d[i]) => To(d[j]) <= From(d[i])
      BY <1>4, <1>10, <2>1 DEF Apart
    <2>3. d[i] \in EditsOf(X) /\ d[j] \in EditsOf(X) /\ d[i].start >= d[j].start
      BY <1>7, <1>9, <1>10
    <2>4. From(d[i]) \in Nat /\ From(d[j]) \in Nat /\ From(d[i]) >= From(d[j])
      BY <2>3, Ends
    <2> QED
      BY <2>2, <2>4
  <1> QED
    BY <1>0, <1>4, <1>5, <1>6, <1>8, <1>9, <1>10 DEF GoesDown

-----------------------------------------------------------------------------
(* Which lists are refused.                                                *)

\* A list with an edit that is out of place, or with two that overlap, is
\* refused as a whole (the bail! exits of apply_semantic_token_edits).
THEOREM MalformedIsRefused ==
  ASSUME NEW X, NEW tokens \in Seq(X), NEW edits \in Seq(EditsOf(X)),
         \/ ~ InPlace(tokens, edits)
         \/ \E i, j \in DOMAIN edits : /\ From(edits[i]) < From(edits[j])
                                       /\ From(edits[j]) < To(edits[i])
  PROVE  ApplyEdits(tokens, edits) = None
  <1> DEFINE d == Descending(edits)
             Fits(i) == /\ d[i].start % Width = 0 /\ d[i].delete % Width = 0
                        /\ To(d[i]) <= Len(tokens)
                        /\ i > 1 => To(d[i]) <= From(d[i - 1])
  <1>0. ApplyEdits(tokens, edits) = IF \A i \in DOMAIN d : Fits(i)
                                    THEN FoldLeft(Splice, tokens, d) ELSE None
    BY DEF ApplyEdits
  <1>1. /\ DOMAIN d = 1 .. Len(edits) /\ d \in Seq(EditsOf(X))
        /\ \A j \in DOMAIN edits : \E i \in DOMAIN d : d[i] = edits[j]
        /\ \A i, j \in DOMAIN d : i < j => d[i].start >= d[j].start
    BY DescentOfEdits DEF GoesDown
  <1> HIDE DEF d
  <1>13. DOMAIN d \subseteq Nat \ {0} /\ \A k \in DOMAIN d : 1 .. k \subseteq DOMAIN d
    <2>1. Len(edits) \in Nat
      OBVIOUS
    <2> QED
      BY <1>1, <2>1
  <1>2. \A i \in DOMAIN d : d[i] \in EditsOf(X)
    BY <1>1
  <1> SUFFICES ASSUME \A i \in DOMAIN d : Fits(i) PROVE FALSE
    BY <1>0
  <1>3. InPlace(tokens, edits)
    <2> SUFFICES ASSUME NEW j \in DOMAIN edits
                 PROVE  /\ edits[j].start % Width = 0 /\ edits[j].delete % Width = 0
                        /\ To(edits[j]) <= Len(tokens)
      BY DEF InPlace
    <2>1. PICK i \in DOMAIN d : d[i] = edits[j]
      BY <1>1
    <2> QED
      BY <2>1
  <1>4. PICK i \in DOMAIN edits, j \in DOMAIN edits :
           From(edits[i]) < From(edits[j]) /\ From(edits[j]) < To(edits[i])
    BY <1>3
  <1>5. PICK k \in DOMAIN d, l \in DOMAIN d : d[k] = edits[i] /\ d[l] = edits[j]
    BY <1>1
  <1>6. /\ From(d[k]) \in Nat /\ From(d[l]) \in Nat /\ To(d[k]) \in Nat
        /\ From(d[k]) < From(d[l]) /\ From(d[l]) < To(d[k])
        /\ d[k].start \in Nat /\ d[l].start \in Nat
    BY <1>2, <1>4, <1>5, Ends
  <1>7. d[l].start > d[k].start
    BY <1>2, <1>6, Ends
  <1>8. l < k /\ k \in Nat /\ l \in Nat
    <2>1. k \in Nat /\ l \in Nat /\ k # l
      BY <1>6, <1>13
    <2>2. k < l => d[k].start >= d[l].start
      BY <1>1
    <2> QED
      BY <1>6, <1>7, <2>1, <2>2
  <1>9. To(d[k]) <= From(d[k - 1])
    BY <1>1, <1>8
  <1>10. k - 1 \in DOMAIN d /\ (l = k - 1 \/ l < k - 1)
    <2>1. k - 1 \in 1 .. k
      BY <1>8, <1>13
    <2> QED
      BY <1>8, <1>13, <2>1
  <1>11. d[l].start >= d[k - 1].start /\ From(d[k - 1]) \in Nat
    <2>1. d[k - 1] \in EditsOf(X)
      BY <1>2, <1>10
    <2>2. From(d[k - 1]) \in Nat /\ d[k - 1].start \in Nat
      BY <2>1, Ends
    <2>3. l < k - 1 => d[l].start >= d[k - 1].start
      BY <1>1, <1>10
    <2> QED
      BY <1>6, <1>10, <2>2, <2>3
  <1>12. From(d[l]) >= From(d[k - 1])
    BY <1>2, <1>10, <1>11, Ends
  <1> QED
    BY <1>6, <1>9, <1>11, <1>12

\* Any other list is applied from its last edit to its first.
LEMMA WellPlacedIsApplied ==
  ASSUME NEW X, NEW tokens \in Seq(X), NEW edits \in Seq(EditsOf(X)),
         InPlace(tokens, edits), Apart(edits)
  PROVE  ApplyEdits(tokens, edits) = Spliced(tokens, Descending(edits))
  <1> DEFINE d == Descending(edits)
             Fits(i) == /\ d[i].start % Width = 0 /\ d[i].delete % Width = 0
                        /\ To(d[i]) <= Len(tokens)
                        /\ i > 1 => To(d[i]) <= From(d[i - 1])
  <1>0. ApplyEdits(tokens, edits) = IF \A i \in DOMAIN d : Fits(i)
                                    THEN Spliced(tokens, d) ELSE None
    BY DEF ApplyEdits, Spliced
  <1>1. /\ DOMAIN d = 1 .. Len(edits)
        /\ \A i \in DOMAIN d : \E j \in DOMAIN edits : d[i] = edits[j]
        /\ \A i, j \in DOMAIN d : i < j => To(d[j]) <= From(d[i])
    BY DescentOfEdits DEF GoesDown
  <1> HIDE DEF d
  <1>2. ASSUME NEW i \in DOMAIN d PROVE Fits(i)
    <2>1. PICK j \in DOMAIN edits : d[i] = edits[j]
      BY <1>1
    <2>2. i > 1 => To(d[i]) <= From(d[i - 1])
      <3> SUFFICES ASSUME i > 1 PROVE To(d[i]) <= From(d[i - 1])
        OBVIOUS
      <3>1. i - 1 \in DOMAIN d /\ i - 1 < i
        BY <1>1
      <3> QED
        BY <1>1, <3>1
    <2> QED
      BY <2>1, <2>2 DEF InPlace
  <1> HIDE DEF Fits
  <1> QED
    BY <1>0, <1>2 DEF d

-----------------------------------------------------------------------------
(* What the edits mean, position by position.                              *)

\* Before a position goes the data of the edit that begins there, if one does.
LEMMA InsertedAt ==
  ASSUME NEW X, NEW edits \in Seq(EditsOf(X)), Apart(edits), NEW p \in Nat
  PROVE  /\ Inserted(edits, p) \in Seq(X)
         /\ \A i \in DOMAIN edits : From(edits[i]) = p => Inserted(edits, p) = edits[i].data
         /\ (\A i \in DOMAIN edits : From(edits[i]) # p) => Inserted(edits, p) = <<>>
  <1> DEFINE n == Len(edits)
             s == [i \in DOMAIN edits |-> IF From(edits[i]) = p THEN edits[i].data ELSE <<>>]
  <1>1. n \in Nat /\ DOMAIN edits = 1 .. n
    OBVIOUS
  <1>2. \A i \in 1 .. n : edits[i].data \in Seq(X)
    BY <1>1, Ends
  <1>3. s \in Seq(Seq(X)) /\ Len(s) = n
    <2>1. s \in [1 .. n -> Seq(X)]
      BY <1>1, <1>2
    <2> HIDE DEF s
    <2> QED
      BY <1>1, <2>1
  <1>4. PICK g \in [0 .. n -> Seq(X)] :
           /\ g[0] = <<>>
           /\ \A i \in 1 .. n : g[i] = g[i - 1] \o s[i]
           /\ Inserted(edits, p) = g[n]
    <2> HIDE DEF n
    <2>1. Inserted(edits, p) = FlattenSeq(s)
      BY DEF Inserted
    <2> HIDE DEF s
    <2>2. \E g \in [0 .. Len(s) -> Seq(X)] :
             /\ g[0] = <<>>
             /\ \A i \in 1 .. Len(s) : g[i] = g[i - 1] \o s[i]
             /\ FlattenSeq(s) = g[Len(s)]
      BY <1>3, FlatteningByParts
    <2> QED
      BY <1>3, <2>1, <2>2
  <1>5. \A i \in 1 .. n : s[i] = IF From(edits[i]) = p THEN edits[i].data ELSE <<>>
    BY <1>1
  <1> HIDE DEF s, n
  <1>6. Inserted(edits, p) \in Seq(X)
    BY <1>1, <1>4
  <1>7. ASSUME NEW i \in 1 .. n, From(edits[i]) = p
        PROVE  Inserted(edits, p) = edits[i].data
    <2> DEFINE Good == {k \in Nat : k <= n => g[k] = IF k < i THEN <<>> ELSE edits[i].data}
    <2>1. 0 \in Good
      BY <1>1, <1>4
    <2>2. ASSUME NEW k \in Good PROVE k + 1 \in Good
      <3> SUFFICES ASSUME NEW j \in 1 .. n, j = k + 1
                   PROVE  g[j] = IF j < i THEN <<>> ELSE edits[i].data
        BY <1>1
      <3>1. g[j - 1] = IF j - 1 < i THEN <<>> ELSE edits[i].data
        BY <1>1
      <3>2. s[j] = IF j = i THEN edits[i].data ELSE <<>>
        BY <1>1, <1>5, <1>7 DEF Apart
      <3>3. g[j] = g[j - 1] \o s[j]
        BY <1>4
      <3>4. /\ <<>> \o <<>> = <<>>
            /\ <<>> \o edits[i].data = edits[i].data
            /\ edits[i].data \o <<>> = edits[i].data
        BY <1>2, ConcatEmptySeq
      <3>5. j < i \/ j = i \/ j > i
        BY <1>1
      <3> HIDE DEF Good
      <3> QED
        <4>1. i \in Nat /\ j \in Nat
          BY <1>1
        <4>2. CASE j < i
          <5>1. j - 1 < i /\ j # i
            BY <4>1, <4>2
          <5> QED
            BY <3>1, <3>2, <3>3, <3>4, <4>2, <5>1
        <4>3. CASE j = i
          <5>1. j - 1 < i /\ ~ j < i
            BY <4>1, <4>3
          <5> QED
            BY <3>1, <3>2, <3>3, <3>4, <4>3, <5>1
        <4>4. CASE j > i
          <5>1. ~ j - 1 < i /\ ~ j < i /\ j # i
            BY <4>1, <4>4
          <5> QED
            BY <3>1, <3>2, <3>3, <3>4, <5>1
        <4> QED
          BY <3>5, <4>2, <4>3, <4>4
    <2> HIDE DEF Good
    <2>3. Good = Nat
      <3>1. Good \in SUBSET Nat
        BY DEF Good
      <3> QED
        BY <2>1, <2>2, <3>1, SetOfAllNumbers
    <2>4. n \in Good /\ ~ n < i
      BY <1>1, <2>3
    <2>5. g[n] = edits[i].data
      BY <2>4, <1>1 DEF Good
    <2> QED
      BY <1>4, <2>5
  <1>8. ASSUME \A i \in 1 .. n : From(edits[i]) # p
        PROVE  Inserted(edits, p) = <<>>
    <2> DEFINE Good == {k \in Nat : k <= n => g[k] = <<>>}
    <2>1. 0 \in Good
      BY <1>1, <1>4
    <2>2. ASSUME NEW k \in Good PROVE k + 1 \in Good
      <3> SUFFICES ASSUME NEW j \in 1 .. n, j = k + 1
                   PROVE  g[j] = <<>>
        BY <1>1
      <3>1. g[j - 1] = <<>>
        BY <1>1
      <3>2. s[j] = <<>>
        BY <1>5, <1>8
      <3>3. g[j] = g[j - 1] \o s[j]
        BY <1>4
      <3> HIDE DEF Good
      <3> QED
        BY <3>1, <3>2, <3>3
    <2> HIDE DEF Good
    <2>3. Good = Nat
      <3>1. Good \in SUBSET Nat
        BY DEF Good
      <3> QED
        BY <2>1, <2>2, <3>1, SetOfAllNumbers
    <2>4. n \in Good
      BY <1>1, <2>3
    <2>5. g[n] = <<>>
      BY <2>4, <1>1 DEF Good
    <2> QED
      BY <1>4, <2>5
  <1> QED
    BY <1>1, <1>6, <1>7, <1>8

\* What stands at a position goes into the sequence X has elements of.
LEMMA Placed ==
  ASSUME NEW X, NEW tokens \in Seq(X), NEW edits \in Seq(EditsOf(X)), Apart(edits),
         NEW p \in 1 .. Len(tokens) + 1
  PROVE  Place(tokens, edits, p) \in Seq(X)
  <1>1. p \in Nat /\ p - 1 \in Nat /\ Len(tokens) \in Nat
    OBVIOUS
  <1>2. p <= Len(tokens) => tokens[p] \in X
    BY <1>1
  <1>3. Inserted(edits, p - 1) \in Seq(X)
    BY <1>1, InsertedAt
  <1>4. (IF p > Len(tokens) \/ Gone(edits, p - 1) THEN <<>> ELSE <<tokens[p]>>) \in Seq(X)
    BY <1>1, <1>2
  <1> QED
    BY <1>3, <1>4, ConcatProperties DEF Place

\* The edited tokens come about position by position.
LEMMA EditedByParts ==
  ASSUME NEW X, NEW tokens \in Seq(X), NEW edits \in Seq(EditsOf(X)), Apart(edits)
  PROVE  \E g \in [0 .. Len(tokens) + 1 -> Seq(X)] :
           /\ g[0] = <<>>
           /\ \A p \in 1 .. Len(tokens) + 1 : g[p] = g[p - 1] \o Place(tokens, edits, p)
           /\ Edited(tokens, edits) = g[Len(tokens) + 1]
  <1> DEFINE n == Len(tokens) + 1
             s == [p \in 1 .. n |-> Place(tokens, edits, p)]
  <1>1. n \in Nat
    OBVIOUS
  <1>2. s \in [1 .. n -> Seq(X)]
    BY Placed
  <1>3. s \in Seq(Seq(X)) /\ Len(s) = n
    <2> HIDE DEF s, n
    <2> QED
      BY <1>1, <1>2
  <1>4. Edited(tokens, edits) = FlattenSeq(s)
    BY DEF Edited
  <1>5. \A p \in 1 .. n : s[p] = Place(tokens, edits, p)
    OBVIOUS
  <1> HIDE DEF s, n
  <1>6. \E g \in [0 .. Len(s) -> Seq(X)] :
           /\ g[0] = <<>>
           /\ \A i \in 1 .. Len(s) : g[i] = g[i - 1] \o s[i]
           /\ FlattenSeq(s) = g[Len(s)]
    BY <1>3, FlatteningByParts
  <1>7. \E g \in [0 .. n -> Seq(X)] :
           /\ g[0] = <<>>
           /\ \A p \in 1 .. n : g[p] = g[p - 1] \o Place(tokens, edits, p)
           /\ Edited(tokens, edits) = g[n]
    BY <1>3, <1>4, <1>5, <1>6
  <1> QED
    BY <1>7 DEF n

\* Names for two operators whose axioms would only distract the provers.
Cat(u, v) == u \o v
Cut(s, j, k) == SubSeq(s, j, k)

\* Concatenation of sequences over X.
LEMMA Regrouped ==
  ASSUME NEW X
  PROVE  /\ \A u, v \in Seq(X) : Cat(u, v) \in Seq(X)
         /\ \A u, v, w \in Seq(X) : Cat(Cat(u, v), w) = Cat(u, Cat(v, w))
         /\ \A u \in Seq(X) : Cat(u, <<>>) = u /\ Cat(<<>>, u) = u
  <1>1. \A u, v, w \in Seq(X) : Cat(Cat(u, v), w) = Cat(u, Cat(v, w))
    BY ConcatAssociative, SMTT(30) DEF Cat
  <1>2. \A u, v \in Seq(X) : Cat(u, v) \in Seq(X)
    BY ConcatProperties DEF Cat
  <1>3. \A u \in Seq(X) : Cat(u, <<>>) = u /\ Cat(<<>>, u) = u
    BY ConcatEmptySeq DEF Cat
  <1> QED
    BY <1>1, <1>2, <1>3

\* Growth of the edited tokens, position by position.
Grows(g, X, tokens, edits) ==
  /\ g \in [0 .. Len(tokens) + 1 -> Seq(X)] /\ g[0] = <<>>
  /\ \A p \in 1 .. Len(tokens) + 1 : g[p] = g[p - 1] \o Place(tokens, edits, p)

\* Up to the first edit the tokens stay.
LEMMA BeforeTheFirst ==
  ASSUME NEW X, NEW tokens \in Seq(X), NEW edits \in Seq(EditsOf(X)), Apart(edits),
         NEW g, Grows(g, X, tokens, edits), NEW q \in 0 .. Len(tokens),
         \A i \in DOMAIN edits : From(edits[i]) >= q
  PROVE  g[q] = Cut(tokens, 1, q)
  <1> DEFINE Good == {p \in Nat : p <= q => g[p] = SubSeq(tokens, 1, p)}
  <1>1. q \in Nat /\ Len(tokens) \in Nat
    OBVIOUS
  <1>2. 0 \in Good
    <2>1. g[0] = <<>>
      BY DEF Grows
    <2>2. SubSeq(tokens, 1, 0) = <<>>
      BY SubSeqEmpty
    <2> QED
      BY <2>1, <2>2
  <1>3. ASSUME NEW k \in Good PROVE k + 1 \in Good
    <2> SUFFICES ASSUME NEW p \in 1 .. q, p = k + 1
                 PROVE  g[p] = SubSeq(tokens, 1, p)
      BY <1>1
    <2>1. g[p - 1] = SubSeq(tokens, 1, p - 1)
      BY <1>1
    <2> HIDE DEF Good
    <2>2. p \in 1 .. Len(tokens) /\ p \in 1 .. Len(tokens) + 1 /\ p - 1 \in Nat
      BY <1>1
    <2>3. \A i \in DOMAIN edits : From(edits[i]) \in Nat
      BY Ends
    <2>4. \A i \in DOMAIN edits : From(edits[i]) # p - 1 /\ ~ From(edits[i]) <= p - 1
      BY <1>1, <2>2, <2>3
    <2>5. Inserted(edits, p - 1) = <<>>
      BY <2>2, <2>4, InsertedAt
    <2>6. Place(tokens, edits, p) = <<>> \o <<tokens[p]>>
      <3>1. ~ Gone(edits, p - 1)
        BY <2>4 DEF Gone
      <3>2. ~ p > Len(tokens)
        BY <1>1, <2>2
      <3> QED
        BY <2>5, <3>1, <3>2 DEF Place
    <2>7. tokens[p] \in X
      BY <2>2
    <2>8. <<>> \o <<tokens[p]>> = <<tokens[p]>>
      BY <2>7, ConcatEmptySeq
    <2>9. g[p] = SubSeq(tokens, 1, p - 1) \o <<tokens[p]>>
      BY <2>1, <2>2, <2>6, <2>8 DEF Grows
    <2>10. 1 \in 1 .. Len(tokens) /\ p \in 1 .. Len(tokens)
      BY <1>1, <2>2
    <2> QED
      BY <2>9, <2>10, SubSeqRecursiveSecond
  <1> HIDE DEF Good
  <1>4. Good = Nat
    <2>1. Good \in SUBSET Nat
      BY DEF Good
    <2> QED
      BY <1>2, <1>3, <2>1, SetOfAllNumbers
  <1>5. q \in Good
    BY <1>1, <1>4
  <1> QED
    BY <1>1, <1>5 DEF Good, Cut

\* Between the edit e and q the tokens stay, or e deletes them.
Clear(edits, e, q) ==
  /\ To(edits[e]) <= q
  /\ \A i \in DOMAIN edits :
       i # e /\ From(edits[i]) < q => To(edits[i]) <= From(edits[e])

\* From one edit to the next, the data of the first and the tokens after it.
LEMMA FromEditToEdit ==
  ASSUME NEW X, NEW tokens \in Seq(X), NEW edits \in Seq(EditsOf(X)), Apart(edits),
         NEW g, Grows(g, X, tokens, edits), NEW q \in 0 .. Len(tokens),
         NEW e \in DOMAIN edits, Clear(edits, e, q)
  PROVE  From(edits[e]) < q =>
            g[q] = Cat(Cat(g[From(edits[e])], edits[e].data),
                       Cut(tokens, To(edits[e]) + 1, q))
  <1> DEFINE a == From(edits[e])
             b == To(edits[e])
             data == edits[e].data
             Said(p) == g[p] = (g[a] \o data) \o SubSeq(tokens, b + 1, p)
             Good == {p \in Nat : p \in a + 1 .. q => Said(p)}
  <1>1. /\ q \in Nat /\ Len(tokens) \in Nat /\ q <= Len(tokens)
        /\ a \in Nat /\ b \in Nat /\ a <= b /\ b <= q /\ data \in Seq(X)
        /\ \A i \in DOMAIN edits : /\ From(edits[i]) \in Nat /\ To(edits[i]) \in Nat
                                   /\ From(edits[i]) <= To(edits[i])
    BY Ends DEF Clear
  <1>2. g[a] \in Seq(X) /\ g[a] \o data \in Seq(X)
    <2>1. a \in 0 .. Len(tokens) + 1
      BY <1>1
    <2>2. g[a] \in Seq(X)
      BY <2>1 DEF Grows
    <2> QED
      BY <1>1, <2>2, ConcatProperties
  <1>3. \A i \in DOMAIN edits : i # e => /\ From(edits[i]) # a
                                         /\ From(edits[i]) < q => To(edits[i]) <= a
    BY DEF Apart, Clear
  <1> HIDE DEF a, b, data
  <1>4. ASSUME NEW p \in Nat, p \in a + 1 .. q
        PROVE  /\ p - 1 \in Nat /\ p >= a + 1 /\ p <= q /\ ~ p > Len(tokens)
               /\ p \in 1 .. Len(tokens) + 1 /\ p \in 1 .. Len(tokens) /\ tokens[p] \in X
    <2>1. p \in 1 .. Len(tokens)
      BY <1>1, <1>4
    <2> QED
      BY <1>1, <1>4, <2>1
  <1> HIDE DEF Said
  <1>5. ASSUME NEW p \in Nat, p \in a + 1 .. q, p = a + 1 PROVE Said(p)
    <2>0. /\ p - 1 \in Nat /\ p >= a + 1 /\ p <= q /\ ~ p > Len(tokens)
          /\ p \in 1 .. Len(tokens) + 1 /\ p \in 1 .. Len(tokens) /\ tokens[p] \in X
      BY <1>4, <1>5
    <2>1. p - 1 = a
      BY <1>1, <1>5
    <2>2. Inserted(edits, p - 1) = data
      <3>1. From(edits[e]) = p - 1
        BY <2>1 DEF a
      <3> QED
        BY <2>0, <3>1, InsertedAt DEF data
    <2>3. Gone(edits, p - 1) <=> a < b
      <3>1. ASSUME NEW i \in DOMAIN edits, i # e
            PROVE  ~ (From(edits[i]) <= a /\ a < To(edits[i]))
        <4>1. From(edits[i]) \in Nat /\ To(edits[i]) \in Nat /\ a < q
          BY <1>1, <2>0, <2>1
        <4>2. From(edits[i]) < q => To(edits[i]) <= a
          BY <1>3, <3>1
        <4> QED
          BY <1>1, <4>1, <4>2
      <3>2. (From(edits[e]) <= p - 1 /\ p - 1 < To(edits[e])) <=> a < b
        BY <1>1, <2>1 DEF a, b
      <3> QED
        BY <2>1, <3>1, <3>2 DEF Gone
    <2>4. g[p] = g[a] \o (data \o (IF a < b THEN <<>> ELSE <<tokens[p]>>))
      <3>1. Place(tokens, edits, p) = data \o (IF a < b THEN <<>> ELSE <<tokens[p]>>)
        BY <2>0, <2>2, <2>3 DEF Place
      <3> QED
        BY <2>0, <2>1, <3>1 DEF Grows
    <2>5. (IF a < b THEN <<>> ELSE <<tokens[p]>>) = SubSeq(tokens, b + 1, p)
      <3>1. CASE a < b
        <4>0. b + 1 \in Int /\ p \in Int /\ p < b + 1
          BY <1>1, <2>0, <2>1, <3>1
        <4>1. SubSeq(tokens, b + 1, p) = <<>>
          BY <4>0, SubSeqEmpty
        <4> QED
          BY <3>1, <4>1
      <3>2. CASE ~ a < b
        <4>0. a = b
          BY <1>1, <3>2
        <4>1. b + 1 = p
          BY <1>1, <2>0, <2>1, <4>0
        <4>2. SubSeq(tokens, p, p) = <<tokens[p]>> \o SubSeq(tokens, p + 1, p)
          <5>1. p \in 1 .. Len(tokens) /\ p \in p .. Len(tokens)
            BY <1>1, <2>0
          <5> QED
            BY <5>1, SubSeqRecursiveFirst
        <4>3. SubSeq(tokens, p + 1, p) = <<>>
          <5>1. p + 1 \in Int /\ p \in Int /\ p < p + 1
            OBVIOUS
          <5> QED
            BY <5>1, SubSeqEmpty
        <4>4. <<tokens[p]>> \o <<>> = <<tokens[p]>>
          BY <2>0, ConcatEmptySeq
        <4> QED
          BY <3>2, <4>1, <4>2, <4>3, <4>4
      <3> QED
        BY <3>1, <3>2
    <2>6. SubSeq(tokens, b + 1, p) \in Seq(X)
      <3>1. <<>> \in Seq(X) /\ <<tokens[p]>> \in Seq(X)
        BY <2>0
      <3> QED
        BY <2>5, <3>1
    <2>7. g[p] = g[a] \o (data \o SubSeq(tokens, b + 1, p))
      BY <2>4, <2>5
    <2>8. (g[a] \o data) \o SubSeq(tokens, b + 1, p)
            = g[a] \o (data \o SubSeq(tokens, b + 1, p))
      <3>1. data \in Seq(X) /\ g[a] \in Seq(X)
        BY <1>1, <1>2
      <3>2. PICK u, v, w : u = g[a] /\ v = data /\ w = SubSeq(tokens, b + 1, p)
        OBVIOUS
      <3>3. u \in Seq(X) /\ v \in Seq(X) /\ w \in Seq(X)
        BY <2>6, <3>1, <3>2
      <3>4. Cat(Cat(u, v), w) = Cat(u, Cat(v, w))
        BY <3>3, Regrouped
      <3> QED
        BY <3>2, <3>4 DEF Cat
    <2> QED
      BY <2>7, <2>8 DEF Said
  <1>6. ASSUME NEW p \in Nat, p \in a + 1 .. q, p > a + 1, Said(p - 1) PROVE Said(p)
    <2>0. /\ p - 1 \in Nat /\ p >= a + 1 /\ p <= q /\ ~ p > Len(tokens)
          /\ p \in 1 .. Len(tokens) + 1 /\ p \in 1 .. Len(tokens) /\ tokens[p] \in X
      BY <1>4, <1>6
    <2>1. a < p - 1 /\ p - 1 < q
      BY <1>1, <1>6, <2>0
    <2>9. ASSUME NEW i \in DOMAIN edits, i # e
          PROVE  From(edits[i]) # p - 1 /\ ~ (From(edits[i]) <= p - 1 /\ p - 1 < To(edits[i]))
      <3>1. /\ From(edits[i]) \in Nat /\ To(edits[i]) \in Nat
            /\ From(edits[i]) <= To(edits[i])
            /\ From(edits[i]) < q => To(edits[i]) <= a
        BY <1>1, <1>3, <2>9
      <3> QED
        BY <1>1, <2>0, <2>1, <3>1
    <2>2. Inserted(edits, p - 1) = <<>>
      <3>2. From(edits[e]) # p - 1
        BY <1>1, <2>1 DEF a
      <3>3. \A i \in DOMAIN edits : From(edits[i]) # p - 1
        BY <2>9, <3>2
      <3> QED
        BY <2>0, <3>3, InsertedAt
    <2>3. Gone(edits, p - 1) <=> p - 1 < b
      <3>2. (From(edits[e]) <= p - 1 /\ p - 1 < To(edits[e])) <=> p - 1 < b
        BY <1>1, <2>1 DEF a, b
      <3> QED
        BY <2>9, <3>2 DEF Gone
    <2>4. g[p] = g[p - 1] \o (<<>> \o (IF p - 1 < b THEN <<>> ELSE <<tokens[p]>>))
      <3>1. Place(tokens, edits, p)
              = <<>> \o (IF p - 1 < b THEN <<>> ELSE <<tokens[p]>>)
        BY <2>0, <2>2, <2>3 DEF Place
      <3> QED
        BY <2>0, <3>1 DEF Grows
    <2>5. g[p - 1] = (g[a] \o data) \o SubSeq(tokens, b + 1, p - 1)
      BY <1>6 DEF Said
    <2>6. SubSeq(tokens, b + 1, p - 1) \in Seq(X)
      <3>1. \A i \in b + 1 .. p - 1 : tokens[i] \in X
        <4>1. b + 1 .. p - 1 \subseteq 1 .. Len(tokens)
          BY <1>1, <2>0
        <4> QED
          BY <4>1
      <3>2. b + 1 \in Int /\ p - 1 \in Int
        BY <1>1, <2>0
      <3> QED
        BY <3>1, <3>2, SubSeqProperties
    <2>7. CASE p - 1 < b
      <3>1. SubSeq(tokens, b + 1, p - 1) = <<>> /\ SubSeq(tokens, b + 1, p) = <<>>
        <4>1. b + 1 \in Int /\ p \in Int /\ p - 1 \in Int /\ p < b + 1 /\ p - 1 < b + 1
          BY <1>1, <2>0, <2>7
        <4> QED
          BY <4>1, SubSeqEmpty
      <3>2. g[p] = g[p - 1] \o (<<>> \o <<>>)
        BY <2>4, <2>7
      <3>3. g[p - 1] = g[a] \o data
        BY <1>2, <2>5, <3>1, ConcatEmptySeq
      <3>4. <<>> \o <<>> = <<>> /\ (g[a] \o data) \o <<>> = g[a] \o data
        BY <1>2, ConcatEmptySeq
      <3> QED
        BY <3>1, <3>2, <3>3, <3>4 DEF Said
    <2>8. CASE ~ p - 1 < b
      <3>1. <<tokens[p]>> \in Seq(X) /\ <<>> \o <<tokens[p]>> = <<tokens[p]>>
        BY <2>0, ConcatEmptySeq
      <3>2. g[p] = g[p - 1] \o <<tokens[p]>>
        BY <2>4, <2>8, <3>1
      <3>3. SubSeq(tokens, b + 1, p) = SubSeq(tokens, b + 1, p - 1) \o <<tokens[p]>>
        <4>1. b + 1 \in 1 .. Len(tokens) /\ p \in b + 1 .. Len(tokens)
          BY <1>1, <2>0, <2>8
        <4> QED
          BY <4>1, SubSeqRecursiveSecond
      <3>4. ((g[a] \o data) \o SubSeq(tokens, b + 1, p - 1)) \o <<tokens[p]>>
              = (g[a] \o data) \o (SubSeq(tokens, b + 1, p - 1) \o <<tokens[p]>>)
        <4>1. <<tokens[p]>> \in Seq(X) /\ g[a] \o data \in Seq(X)
          BY <1>2, <3>1
        <4>2. PICK u, v, w : /\ u = g[a] \o data /\ w = <<tokens[p]>>
                             /\ v = SubSeq(tokens, b + 1, p - 1)
          OBVIOUS
        <4>3. u \in Seq(X) /\ v \in Seq(X) /\ w \in Seq(X)
          BY <2>6, <4>1, <4>2
        <4>4. Cat(Cat(u, v), w) = Cat(u, Cat(v, w))
          BY <4>3, Regrouped
        <4> QED
          BY <4>2, <4>4 DEF Cat
      <3> QED
        BY <2>5, <3>2, <3>3, <3>4 DEF Said
    <2> QED
      BY <2>7, <2>8
  <1>7. Good = Nat
    <2>1. Good \in SUBSET Nat
      OBVIOUS
    <2>2. 0 \in Good
      BY <1>1
    <2>3. ASSUME NEW k \in Good PROVE k + 1 \in Good
      <3> SUFFICES ASSUME NEW p \in Nat, p = k + 1, p \in a + 1 .. q PROVE Said(p)
        OBVIOUS
      <3>1. k \in Nat /\ k = p - 1 /\ (k \in a + 1 .. q => Said(k))
        OBVIOUS
      <3>2. p = a + 1 \/ (p > a + 1 /\ k \in a + 1 .. q)
        BY <1>1, <3>1
      <3> HIDE DEF Good
      <3> QED
        BY <1>5, <1>6, <3>1, <3>2
    <2> HIDE DEF Good
    <2> QED
      BY <2>1, <2>2, <2>3, SetOfAllNumbers
  <1>8. ASSUME NEW p \in a + 1 .. q PROVE Said(p)
    <2>1. p \in Nat
      BY <1>1
    <2> QED
      BY <1>7, <2>1
  <1>9. a < q => Said(q)
    <2>1. a < q => q \in a + 1 .. q
      BY <1>1
    <2> QED
      BY <1>8, <2>1
  <1> QED
    BY <1>9 DEF a, b, data, Said, Cat, Cut

-----------------------------------------------------------------------------
(* Applying the edits from the last to the first does what they mean.      *)

\* A part of a sequence, element by element.
LEMMA Part ==
  ASSUME NEW X, NEW s \in Seq(X), NEW j \in 1 .. Len(s) + 1, NEW k \in 0 .. Len(s)
  PROVE  /\ SubSeq(s, j, k) \in Seq(X)
         /\ Len(SubSeq(s, j, k)) = IF j <= k THEN k - j + 1 ELSE 0
         /\ \A i \in 1 .. k - j + 1 : SubSeq(s, j, k)[i] = s[j + i - 1]
  <1>1. j \in Int /\ k \in Int /\ j .. k \subseteq 1 .. Len(s)
    OBVIOUS
  <1>2. \A i \in j .. k : s[i] \in X
    BY <1>1
  <1> QED
    BY <1>1, <1>2, SubSeqProperties

\* Behind an edit, tokens that are still as they were.
LEMMA StillThere ==
  ASSUME NEW X, NEW tokens \in Seq(X), NEW Y \in Seq(X), NEW f \in 0 .. Len(tokens),
         NEW a \in Nat, NEW b \in Nat, a <= b, b <= f,
         NEW u, u = Cat(Cut(tokens, 1, f), Y)
  PROVE  /\ Cut(u, 1, a) = Cut(tokens, 1, a)
         /\ Cut(u, b + 1, Len(u)) = Cat(Cut(tokens, b + 1, f), Y)
  <1> DEFINE n == Len(tokens)
             y == Len(Y)
             h == SubSeq(tokens, 1, f)
             z == SubSeq(tokens, b + 1, f)
  <1>1. n \in Nat /\ y \in Nat /\ f \in Nat /\ f <= n
    OBVIOUS
  <1>2. h \in Seq(X) /\ Len(h) = f /\ \A i \in 1 .. f : h[i] = tokens[i]
    <2>1. 1 \in 1 .. Len(tokens) + 1 /\ f \in 0 .. Len(tokens)
      BY <1>1
    <2>2. /\ h \in Seq(X) /\ Len(h) = IF 1 <= f THEN f - 1 + 1 ELSE 0
          /\ \A i \in 1 .. f - 1 + 1 : h[i] = tokens[1 + i - 1]
      BY <2>1, Part
    <2> QED
      BY <1>1, <2>2
  <1>3. z \in Seq(X) /\ Len(z) = f - b /\ \A i \in 1 .. f - b : z[i] = tokens[b + i]
    <2>1. b + 1 \in 1 .. Len(tokens) + 1 /\ f \in 0 .. Len(tokens)
      BY <1>1
    <2>2. /\ z \in Seq(X) /\ Len(z) = IF b + 1 <= f THEN f - (b + 1) + 1 ELSE 0
          /\ \A i \in 1 .. f - (b + 1) + 1 : z[i] = tokens[b + 1 + i - 1]
      BY <2>1, Part
    <2> QED
      BY <1>1, <2>2
  <1>4. /\ u \in Seq(X) /\ Len(u) = f + y
        /\ \A i \in 1 .. f + y : u[i] = IF i <= f THEN h[i] ELSE Y[i - f]
    <2>1. u = h \o Y
      BY DEF Cat, Cut
    <2> HIDE DEF h
    <2>2. /\ h \o Y \in Seq(X) /\ Len(h \o Y) = Len(h) + Len(Y)
          /\ \A i \in 1 .. Len(h) + Len(Y) :
               (h \o Y)[i] = IF i <= Len(h) THEN h[i] ELSE Y[i - Len(h)]
      BY <1>2, ConcatProperties
    <2>3. Len(h) = f
      BY <1>2
    <2> QED
      BY <2>1, <2>2, <2>3
  <1>5. /\ z \o Y \in Seq(X) /\ Len(z \o Y) = f - b + y
        /\ \A i \in 1 .. f - b + y : (z \o Y)[i] = IF i <= f - b THEN z[i] ELSE Y[i - (f - b)]
    <2> HIDE DEF z
    <2>1. /\ z \o Y \in Seq(X) /\ Len(z \o Y) = Len(z) + Len(Y)
          /\ \A i \in 1 .. Len(z) + Len(Y) :
               (z \o Y)[i] = IF i <= Len(z) THEN z[i] ELSE Y[i - Len(z)]
      BY <1>3, ConcatProperties
    <2>2. Len(z) = f - b
      BY <1>3
    <2> QED
      BY <2>1, <2>2
  <1> HIDE DEF h, z
  <1>6. SubSeq(u, 1, a) = SubSeq(tokens, 1, a)
    <2> DEFINE v == SubSeq(u, 1, a)
               w == SubSeq(tokens, 1, a)
    <2>1. /\ v \in Seq(X) /\ Len(v) = a /\ \A i \in 1 .. a : v[i] = u[i]
      <3>1. 1 \in 1 .. Len(u) + 1 /\ a \in 0 .. Len(u)
        BY <1>1, <1>4
      <3>2. /\ v \in Seq(X) /\ Len(v) = IF 1 <= a THEN a - 1 + 1 ELSE 0
            /\ \A i \in 1 .. a - 1 + 1 : v[i] = u[1 + i - 1]
        BY <1>4, <3>1, Part
      <3> QED
        BY <3>2
    <2>2. /\ w \in Seq(X) /\ Len(w) = a /\ \A i \in 1 .. a : w[i] = tokens[i]
      <3>1. 1 \in 1 .. Len(tokens) + 1 /\ a \in 0 .. Len(tokens)
        BY <1>1
      <3>2. /\ w \in Seq(X) /\ Len(w) = IF 1 <= a THEN a - 1 + 1 ELSE 0
            /\ \A i \in 1 .. a - 1 + 1 : w[i] = tokens[1 + i - 1]
        BY <3>1, Part
      <3> QED
        BY <3>2
    <2>3. \A i \in 1 .. a : i \in 1 .. f + y /\ i <= f /\ i \in 1 .. f
      BY <1>1
    <2>4. \A i \in 1 .. a : v[i] = w[i]
      BY <1>2, <1>4, <2>1, <2>2, <2>3
    <2> HIDE DEF v, w
    <2>5. v = w
      BY <2>1, <2>2, <2>4, SeqEqual
    <2> QED
      BY <2>5 DEF v, w
  <1>7. SubSeq(u, b + 1, Len(u)) = z \o Y
    <2> DEFINE v == SubSeq(u, b + 1, Len(u))
               w == z \o Y
    <2>1. /\ v \in Seq(X) /\ Len(v) = f + y - b
          /\ \A i \in 1 .. f + y - b : v[i] = u[b + i]
      <3>1. b + 1 \in 1 .. Len(u) + 1 /\ Len(u) \in 0 .. Len(u)
        BY <1>1, <1>4
      <3>2. /\ v \in Seq(X) /\ Len(v) = IF b + 1 <= Len(u) THEN Len(u) - (b + 1) + 1 ELSE 0
            /\ \A i \in 1 .. Len(u) - (b + 1) + 1 : v[i] = u[b + 1 + i - 1]
        BY <1>4, <3>1, Part
      <3> QED
        BY <1>1, <1>4, <3>2
    <2>2. ASSUME NEW i \in 1 .. f + y - b PROVE v[i] = w[i]
      <3>1. i \in Nat /\ i >= 1 /\ i \in 1 .. f - b + y /\ b + i \in 1 .. f + y
        BY <1>1
      <3>2. v[i] = IF b + i <= f THEN h[b + i] ELSE Y[(b + i) - f]
        BY <1>4, <2>1, <3>1
      <3>3. w[i] = IF i <= f - b THEN z[i] ELSE Y[i - (f - b)]
        BY <1>5, <3>1
      <3>4. (b + i <= f) <=> (i <= f - b)
        BY <1>1, <3>1
      <3>5. (b + i) - f = i - (f - b)
        BY <1>1, <3>1
      <3>6. CASE i <= f - b
        <4>1. b + i \in 1 .. f /\ i \in 1 .. f - b
          BY <1>1, <3>1, <3>6
        <4> QED
          BY <1>2, <1>3, <3>2, <3>3, <3>4, <3>6, <4>1
      <3>7. CASE ~ i <= f - b
        <4>1. v[i] = Y[(b + i) - f] /\ w[i] = Y[i - (f - b)]
          BY <3>2, <3>3, <3>4, <3>7
        <4> QED
          BY <3>5, <4>1
      <3> QED
        BY <3>6, <3>7
    <2>3. w \in Seq(X) /\ Len(w) = f + y - b
      BY <1>1, <1>5
    <2> HIDE DEF v, w
    <2>4. v = w
      BY <2>1, <2>2, <2>3, SeqEqual
    <2> QED
      BY <2>4 DEF v, w
  <1> QED
    BY <1>6, <1>7 DEF z, Cat, Cut

\* An edit in what is left as it was, and what it makes of the rest.
LEMMA SpliceOfRest ==
  ASSUME NEW X, NEW tokens \in Seq(X), NEW Y \in Seq(X), NEW q \in 0 .. Len(tokens),
         NEW e \in EditsOf(X), To(e) <= q
  PROVE  /\ Cut(tokens, 1, From(e)) \in Seq(X) /\ Cut(tokens, To(e) + 1, q) \in Seq(X)
         /\ Splice(Cat(Cut(tokens, 1, q), Y), e)
              = Cat(Cat(Cut(tokens, 1, From(e)), e.data), Cat(Cut(tokens, To(e) + 1, q), Y))
  <1>1. PICK a, b, n, u : /\ a = From(e) /\ b = To(e) /\ n = Len(tokens)
                          /\ u = Cat(Cut(tokens, 1, q), Y)
    OBVIOUS
  <1>2. /\ n \in Nat /\ q \in Nat /\ q <= n /\ a \in Nat /\ b \in Nat
        /\ a <= b /\ b <= q
    BY <1>1, Ends
  <1>3. /\ Cut(u, 1, a) = Cut(tokens, 1, a)
        /\ Cut(u, b + 1, Len(u)) = Cat(Cut(tokens, b + 1, q), Y)
    BY <1>1, <1>2, StillThere
  <1>4. Cut(tokens, 1, a) \in Seq(X)
    <2>1. 1 \in 1 .. Len(tokens) + 1 /\ a \in 0 .. Len(tokens)
      BY <1>1, <1>2
    <2> QED
      BY <2>1, Part DEF Cut
  <1>5. Cut(tokens, b + 1, q) \in Seq(X)
    <2>1. b + 1 \in 1 .. Len(tokens) + 1
      BY <1>1, <1>2
    <2> QED
      BY <2>1, Part DEF Cut
  <1>6. Splice(u, e) = Cat(Cat(Cut(u, 1, a), e.data), Cut(u, b + 1, Len(u)))
    BY <1>1 DEF Splice, Cat, Cut
  <1> QED
    BY <1>1, <1>3, <1>4, <1>5, <1>6

\* What is edited from here on, and what was edited before, go together.
LEMMA NextSplice ==
  ASSUME NEW X, NEW tokens \in Seq(X), NEW edits \in Seq(EditsOf(X)), Apart(edits),
         NEW g, Grows(g, X, tokens, edits), NEW q \in 0 .. Len(tokens),
         NEW e \in DOMAIN edits, Clear(edits, e, q), From(edits[e]) < q,
         NEW Y \in Seq(X), g[Len(tokens) + 1] = Cat(g[q], Y)
  PROVE  \E Z \in Seq(X) :
            /\ Splice(Cat(Cut(tokens, 1, q), Y), edits[e])
                 = Cat(Cut(tokens, 1, From(edits[e])), Z)
            /\ g[Len(tokens) + 1] = Cat(g[From(edits[e])], Z)
  <1>1. PICK f \in EditsOf(X), n \in Nat :
           /\ f = edits[e] /\ n = Len(tokens) /\ q \in 0 .. n
    OBVIOUS
  <1>2. To(f) <= q /\ From(f) < q
    BY <1>1 DEF Clear
  <1>3. From(f) \in Nat /\ To(f) \in Nat /\ From(f) <= To(f) /\ f.data \in Seq(X)
    BY Ends
  <1>4. PICK h \in Seq(X), z \in Seq(X) :
           /\ h = Cut(tokens, 1, From(f)) /\ z = Cut(tokens, To(f) + 1, q)
           /\ Splice(Cat(Cut(tokens, 1, q), Y), f) = Cat(Cat(h, f.data), Cat(z, Y))
    BY <1>2, SpliceOfRest
  <1>5. PICK G \in Seq(X) : G = g[From(f)]
    <2>1. From(f) \in 0 .. Len(tokens) + 1
      BY <1>1, <1>2, <1>3
    <2> QED
      BY <2>1 DEF Grows
  <1>6. g[q] = Cat(Cat(G, f.data), z)
    <2>1. g[q] = Cat(Cat(g[From(edits[e])], edits[e].data), Cut(tokens, To(edits[e]) + 1, q))
      BY FromEditToEdit
    <2> QED
      BY <1>1, <1>4, <1>5, <2>1
  <1>7. PICK Z : Z = Cat(f.data, Cat(z, Y))
    OBVIOUS
  <1>8. /\ Z \in Seq(X) /\ Cat(Cat(h, f.data), Cat(z, Y)) = Cat(h, Z)
        /\ Cat(Cat(Cat(G, f.data), z), Y) = Cat(G, Z)
    <2>1. /\ \A u, v \in Seq(X) : Cat(u, v) \in Seq(X)
          /\ \A u, v, w \in Seq(X) : Cat(Cat(u, v), w) = Cat(u, Cat(v, w))
      BY Regrouped
    <2>2. PICK D \in Seq(X), R \in Seq(X), S \in Seq(X) :
             D = f.data /\ R = Cat(z, Y) /\ S = Cat(G, D)
      BY <1>3, <2>1
    <2>3. Z \in Seq(X) /\ Z = Cat(D, R)
      BY <1>7, <2>1, <2>2
    <2>4. Cat(Cat(h, D), R) = Cat(h, Cat(D, R))
      BY <2>1
    <2>5. Cat(Cat(S, z), Y) = Cat(S, R)
      BY <2>1, <2>2
    <2>6. Cat(Cat(G, D), R) = Cat(G, Cat(D, R))
      BY <2>1
    <2> QED
      BY <2>2, <2>3, <2>4, <2>5, <2>6
  <1>9. g[n + 1] = Cat(G, Z)
    BY <1>1, <1>6, <1>8
  <1> QED
    BY <1>1, <1>4, <1>5, <1>8, <1>9

\* The edit e ends by q, and all others are before it.
LastOf(edits, e, q) ==
  /\ To(edits[e]) <= q
  /\ \A i \in DOMAIN edits :
       i # e => From(edits[i]) < From(edits[e]) /\ To(edits[i]) <= From(edits[e])

\* The last edit, which is applied first.
LEMMA FirstSplice ==
  ASSUME NEW X, NEW tokens \in Seq(X), NEW edits \in Seq(EditsOf(X)), Apart(edits),
         NEW g, Grows(g, X, tokens, edits),
         NEW e \in DOMAIN edits, LastOf(edits, e, Len(tokens))
  PROVE  \E Z \in Seq(X) :
            /\ Splice(tokens, edits[e]) = Cat(Cut(tokens, 1, From(edits[e])), Z)
            /\ g[Len(tokens) + 1] = Cat(g[From(edits[e])], Z)
  <1> DEFINE a == From(edits[e])
             b == To(edits[e])
             data == edits[e].data
             n == Len(tokens)
  <1>1. /\ n \in Nat /\ a \in Nat /\ b \in Nat /\ a <= b /\ b <= n /\ data \in Seq(X)
        /\ n + 1 \in Nat /\ n + 1 \in 1 .. n + 1 /\ (n + 1) - 1 = n /\ n + 1 > n
        /\ n \in 0 .. n + 1 /\ n \in 0 .. n
    BY Ends DEF LastOf
  <1>2. \A i \in DOMAIN edits : From(edits[i]) \in Nat
    BY Ends
  <1>3. g[n] \in Seq(X) /\ g[n + 1] = g[n] \o (Inserted(edits, n) \o <<>>)
    BY <1>1 DEF Grows, Place
  <1>4. Inserted(edits, n) \in Seq(X)
    BY <1>1, InsertedAt
  <1>5. g[n + 1] = g[n] \o Inserted(edits, n)
    BY <1>3, <1>4, ConcatEmptySeq
  <1>6. CASE a < n
    <2>1. \A i \in DOMAIN edits : From(edits[i]) # n
      BY <1>1, <1>2, <1>6 DEF LastOf
    <2>2. Inserted(edits, n) = <<>>
      BY <1>1, <2>1, InsertedAt
    <2>3. g[n + 1] = g[n] \o <<>>
      BY <1>5, <2>2
    <2>4. Cat(Cut(tokens, 1, n), <<>>) = tokens
      BY SubSeqFull, ConcatEmptySeq DEF Cat, Cut
    <2>5. <<>> \in Seq(X)
      OBVIOUS
    <2>6. PICK Y \in Seq(X) : Y = <<>>
      BY <2>5
    <2>7. g[Len(tokens) + 1] = Cat(g[n], Y)
      BY <2>3, <2>6 DEF Cat
    <2>8. n \in 0 .. Len(tokens) /\ From(edits[e]) < n /\ Clear(edits, e, n)
      BY <1>1, <1>6 DEF Clear, LastOf
    <2>9. \E Z \in Seq(X) :
             /\ Splice(Cat(Cut(tokens, 1, n), Y), edits[e])
                  = Cat(Cut(tokens, 1, From(edits[e])), Z)
             /\ g[Len(tokens) + 1] = Cat(g[From(edits[e])], Z)
      <3> HIDE DEF a, b, data, n
      <3> QED
        BY <2>7, <2>8, NextSplice
    <2> QED
      BY <2>4, <2>6, <2>9
  <1>7. CASE ~ a < n
    <2>1. a = n /\ b = n
      BY <1>1, <1>7
    <2>2. Inserted(edits, n) = data
      BY <1>1, <2>1, InsertedAt
    <2>3. SubSeq(tokens, b + 1, Len(tokens)) = <<>>
      <3>1. b + 1 \in Int /\ Len(tokens) \in Int /\ Len(tokens) < b + 1
        BY <1>1, <2>1
      <3> QED
        BY <3>1, SubSeqEmpty
    <2>4. SubSeq(tokens, 1, a) = tokens
      BY <2>1, SubSeqFull
    <2>5. tokens \o data \in Seq(X)
      BY <1>1, ConcatProperties
    <2>6. (tokens \o data) \o <<>> = tokens \o data
      BY <2>5, ConcatEmptySeq
    <2>7. Splice(tokens, edits[e]) = SubSeq(tokens, 1, a) \o data
      BY <2>3, <2>4, <2>6 DEF Splice
    <2>8. g[n + 1] = g[a] \o data
      BY <1>5, <2>1, <2>2
    <2> QED
      BY <1>1, <2>7, <2>8 DEF Cat, Cut
  <1> QED
    BY <1>6, <1>7

\* However many edits a delta has, and in whatever order they came: those that
\* cover whole tokens which are there, and do not meet, all take place, each of
\* them where it says, counted in the tokens before any of them
\* (apply_semantic_token_edits, src/src/simplecc/lsp/client.rs).
THEOREM EditsTakePlace ==
  ASSUME NEW X, NEW tokens \in Seq(X), NEW edits \in Seq(EditsOf(X)),
         InPlace(tokens, edits), Apart(edits)
  PROVE  ApplyEdits(tokens, edits) = Edited(tokens, edits)
  <1>0. PICK n, m, d : n = Len(tokens) /\ m = Len(edits) /\ d = Descending(edits)
    OBVIOUS
  <1>1. n \in Nat /\ m \in Nat /\ DOMAIN edits = 1 .. m
    BY <1>0
  <1>2. PICK g : Grows(g, X, tokens, edits) /\ Edited(tokens, edits) = g[n + 1]
    BY <1>0, EditedByParts DEF Grows
  <1>3. /\ DOMAIN d = 1 .. m
        /\ \A i \in 1 .. m : \E j \in 1 .. m : d[i] = edits[j]
        /\ \A j \in 1 .. m : \E i \in 1 .. m : d[i] = edits[j]
        /\ \A i, j \in 1 .. m : i < j => From(d[j]) < From(d[i]) /\ To(d[j]) <= From(d[i])
    <2>1. GoesDown(Descending(edits), edits)
      BY DescentOfEdits
    <2>2. GoesDown(d, edits)
      BY <1>0, <2>1
    <2>3. DOMAIN d = 1 .. m
      BY <1>0, <2>2 DEF GoesDown
    <2> QED
      BY <1>1, <2>2, <2>3 DEF GoesDown
  <1>4. ApplyEdits(tokens, edits) = Spliced(tokens, d)
    BY <1>0, WellPlacedIsApplied
  <1>5. PICK r : /\ r[0] = tokens
                 /\ \A k \in 1 .. m : r[k] = Splice(r[k - 1], d[k])
                 /\ Spliced(tokens, d) = r[m]
    <2>1. DOMAIN d = 1 .. m
      BY <1>3
    <2>2. \E r : Splicing(r, tokens, d, m) /\ Spliced(tokens, d) = r[m]
      BY <1>1, <2>1, FoldOfSplices
    <2> QED
      BY <2>2 DEF Splicing
  <1>6. \A i \in 1 .. m : /\ From(edits[i]) \in Nat /\ To(edits[i]) \in Nat
                          /\ From(edits[i]) <= To(edits[i]) /\ To(edits[i]) <= n
    <2> SUFFICES ASSUME NEW i \in 1 .. m
                 PROVE  /\ From(edits[i]) \in Nat /\ To(edits[i]) \in Nat
                        /\ From(edits[i]) <= To(edits[i]) /\ To(edits[i]) <= n
      OBVIOUS
    <2>1. edits[i] \in EditsOf(X)
      BY <1>0
    <2> QED
      BY <1>0, <1>1, <2>1, Ends DEF InPlace
  <1>7. \A i \in 1 .. m : /\ From(d[i]) \in Nat /\ To(d[i]) \in Nat
                          /\ From(d[i]) <= To(d[i]) /\ To(d[i]) <= n
    BY <1>3, <1>6
  <1> DEFINE Done(k) == \E Y \in Seq(X) : /\ r[k] = Cat(Cut(tokens, 1, From(d[k])), Y)
                                          /\ g[n + 1] = Cat(g[From(d[k])], Y)
  \* The edits other than the one applied now, seen from it.
  <1>8. ASSUME NEW k \in 1 .. m, NEW e \in 1 .. m, d[k] = edits[e],
               NEW i \in 1 .. m, i # e
        PROVE  \E l \in 1 .. m : l # k /\ d[l] = edits[i]
    <2>1. PICK l \in 1 .. m : d[l] = edits[i]
      BY <1>3
    <2>2. From(edits[i]) # From(edits[e])
      BY <1>1, <1>8 DEF Apart
    <2> QED
      BY <1>8, <2>1, <2>2
  <1>9. ASSUME 1 \in 1 .. m PROVE Done(1)
    <2>1. PICK e \in 1 .. m : d[1] = edits[e]
      BY <1>3, <1>9
    <2>2. ASSUME NEW i \in 1 .. m, i # e
          PROVE  From(edits[i]) < From(edits[e]) /\ To(edits[i]) <= From(edits[e])
      <3>1. PICK l \in 1 .. m : l # 1 /\ d[l] = edits[i]
        BY <1>8, <1>9, <2>1, <2>2
      <3>2. 1 < l
        BY <3>1
      <3> QED
        BY <1>3, <1>9, <2>1, <3>1, <3>2
    <2>3. LastOf(edits, e, Len(tokens)) /\ e \in DOMAIN edits
      BY <1>0, <1>1, <1>6, <2>2 DEF LastOf
    <2>4. \E Z \in Seq(X) :
             /\ Splice(tokens, edits[e]) = Cat(Cut(tokens, 1, From(edits[e])), Z)
             /\ g[n + 1] = Cat(g[From(edits[e])], Z)
      <3>2. \E Z \in Seq(X) :
               /\ Splice(tokens, edits[e]) = Cat(Cut(tokens, 1, From(edits[e])), Z)
               /\ g[Len(tokens) + 1] = Cat(g[From(edits[e])], Z)
        BY <1>2, <2>3, FirstSplice
      <3> QED
        BY <1>0, <3>2
    <2>5. r[1] = Splice(tokens, d[1])
      <3>1. r[1] = Splice(r[1 - 1], d[1])
        BY <1>5, <1>9
      <3> QED
        BY <1>5, <3>1
    <2> QED
      BY <2>1, <2>4, <2>5
  <1>10. ASSUME NEW j \in 1 .. m, NEW k \in 1 .. m, j = k + 1, Done(k) PROVE Done(j)
    <2>0. PICK q : q = From(d[k])
      OBVIOUS
    <2>1. PICK e \in 1 .. m : d[j] = edits[e]
      BY <1>3
    <2>2. PICK Y \in Seq(X) : /\ r[k] = Cat(Cut(tokens, 1, q), Y)
                              /\ g[n + 1] = Cat(g[q], Y)
      BY <1>10, <2>0
    <2> HIDE DEF Done
    <2>3. From(edits[e]) < q /\ To(edits[e]) <= q /\ q \in 0 .. Len(tokens)
      <3>1. k < j
        BY <1>10
      <3>2. From(d[j]) < From(d[k]) /\ To(d[j]) <= From(d[k])
        BY <1>3, <3>1
      <3>3. q \in Nat /\ q <= n
        BY <1>1, <1>7, <2>0
      <3> QED
        BY <1>0, <2>0, <2>1, <3>2, <3>3
    <2>4. ASSUME NEW i \in 1 .. m, i # e, From(edits[i]) < q
          PROVE  To(edits[i]) <= From(edits[e])
      <3>1. PICK l \in 1 .. m : l # j /\ d[l] = edits[i]
        BY <1>8, <2>1, <2>4
      <3>2. CASE l < j
        <4>1. l = k \/ l < k
          BY <1>10, <3>2
        <4>2. From(d[l]) \in Nat /\ From(d[k]) \in Nat
          BY <1>7
        <4>3. l = k \/ From(d[k]) < From(d[l])
          BY <1>3, <4>1
        <4>4. From(d[l]) < From(d[k])
          BY <2>0, <2>4, <3>1
        <4> QED
          BY <4>2, <4>3, <4>4
      <3>3. CASE ~ l < j
        <4>1. j < l
          BY <3>1, <3>3
        <4> QED
          BY <1>3, <2>1, <3>1, <4>1
      <3> QED
        BY <3>2, <3>3
    <2>5. \E Z \in Seq(X) :
             /\ Splice(Cat(Cut(tokens, 1, q), Y), edits[e])
                  = Cat(Cut(tokens, 1, From(edits[e])), Z)
             /\ g[n + 1] = Cat(g[From(edits[e])], Z)
      <3>1. /\ Clear(edits, e, q) /\ From(edits[e]) < q /\ q \in 0 .. Len(tokens)
            /\ e \in DOMAIN edits /\ g[Len(tokens) + 1] = Cat(g[q], Y)
        BY <1>0, <1>1, <2>2, <2>3, <2>4 DEF Clear
      <3>2. \E Z \in Seq(X) :
               /\ Splice(Cat(Cut(tokens, 1, q), Y), edits[e])
                    = Cat(Cut(tokens, 1, From(edits[e])), Z)
               /\ g[Len(tokens) + 1] = Cat(g[From(edits[e])], Z)
        BY <1>2, <3>1, NextSplice
      <3> QED
        BY <1>0, <3>2
    <2>6. r[j] = Splice(r[k], d[j])
      <3>1. j - 1 = k
        BY <1>10
      <3> QED
        BY <1>5, <3>1
    <2> QED
      BY <2>1, <2>2, <2>5, <2>6 DEF Done
  <1>11. CASE m = 0
    <2>1. /\ n \in 0 .. n /\ n + 1 \in 1 .. n + 1 /\ (n + 1) - 1 = n /\ n + 1 > n
      BY <1>1
    <2>2. \A i \in DOMAIN edits : From(edits[i]) >= n
      BY <1>1, <1>11
    <2>3. g[n] = Cut(tokens, 1, n)
      BY <1>0, <1>2, <2>1, <2>2, BeforeTheFirst
    <2>4. Inserted(edits, n) = <<>>
      <3>1. \A i \in DOMAIN edits : From(edits[i]) # n
        BY <1>1, <1>11
      <3> QED
        BY <1>1, <3>1, InsertedAt
    <2>5. g[n + 1] = g[n] \o (<<>> \o <<>>)
      <3>1. Place(tokens, edits, n + 1) = <<>> \o <<>>
        BY <1>0, <2>1, <2>4 DEF Place
      <3> QED
        BY <1>0, <1>2, <2>1, <3>1 DEF Grows
    <2>6. <<>> \o <<>> = <<>> /\ tokens \o <<>> = tokens /\ Cut(tokens, 1, n) = tokens
      BY <1>0, ConcatEmptySeq, SubSeqFull DEF Cut
    <2>7. r[m] = tokens
      BY <1>5, <1>11
    <2> QED
      BY <1>2, <1>4, <1>5, <2>3, <2>5, <2>6, <2>7
  <1>12. CASE m # 0
    <2> DEFINE Good == {k \in Nat : k + 1 \in 1 .. m => Done(k + 1)}
    <2>1. 1 \in 1 .. m /\ m \in 1 .. m /\ m - 1 \in Nat
      BY <1>1, <1>12
    <2> HIDE DEF Done
    <2>2. 0 \in Good
      BY <1>9
    <2>3. ASSUME NEW k \in Good PROVE k + 1 \in Good
      <3> SUFFICES ASSUME NEW i \in 1 .. m, NEW j, i = k + 1, j = i + 1, j \in 1 .. m
                   PROVE  Done(j)
        BY <1>1
      <3>1. Done(i)
        OBVIOUS
      <3> HIDE DEF Good
      <3> QED
        BY <1>10, <3>1
    <2> HIDE DEF Good
    <2>4. Good = Nat
      <3>1. Good \in SUBSET Nat
        BY DEF Good
      <3> QED
        BY <2>2, <2>3, <3>1, SetOfAllNumbers
    <2>5. Done(m)
      <3>1. m - 1 \in Good /\ (m - 1) + 1 = m
        BY <1>1, <2>1, <2>4
      <3>2. (m - 1) + 1 \in 1 .. m => Done((m - 1) + 1)
        BY <3>1 DEF Good
      <3> QED
        BY <2>1, <3>1, <3>2
    <2>0. PICK q : q = From(d[m])
      OBVIOUS
    <2>6. PICK Y \in Seq(X) : /\ r[m] = Cat(Cut(tokens, 1, q), Y)
                              /\ g[n + 1] = Cat(g[q], Y)
      BY <2>0, <2>5 DEF Done
    <2>7. q \in 0 .. Len(tokens)
      BY <1>0, <1>1, <1>7, <2>0, <2>1
    <2>8. \A i \in DOMAIN edits : From(edits[i]) >= q
      <3> SUFFICES ASSUME NEW i \in 1 .. m PROVE From(edits[i]) >= q
        BY <1>1
      <3>1. PICK l \in 1 .. m : d[l] = edits[i]
        BY <1>3
      <3>2. l = m \/ l < m
        BY <1>1
      <3>3. From(d[l]) \in Nat /\ From(d[m]) \in Nat
        BY <1>7, <2>1
      <3>4. l = m \/ From(d[m]) < From(d[l])
        BY <1>3, <2>1, <3>2
      <3> QED
        BY <2>0, <3>1, <3>3, <3>4
    <2>9. g[q] = Cut(tokens, 1, q)
      BY <1>2, <2>7, <2>8, BeforeTheFirst
    <2> QED
      BY <1>2, <1>4, <1>5, <2>6, <2>9
  <1> QED
    BY <1>11, <1>12

-----------------------------------------------------------------------------
(* The deltas of the server.                                               *)

\* The edits of the model are edits over tokens that are numbers; those of its
\* wrong deltas are out of place in the tokens of any text.
LEMMA SomeEdits ==
  ASSUME NEW e \in Edit
  PROVE  /\ e \in EditsOf(Nat) /\ e.delete % Width = 0
         /\ e.start \in {3, 20} => e.start % Width # 0 \/ To(e) > 3
  <1>1. /\ e.start \in {0, 5, 10, 3, 20} /\ e.delete \in {0, 5, 10}
        /\ e.data \in {<<>>, <<1>>, <<3>>, <<1, 3>>}
        /\ e.start \in {3, 20} => e.delete = 5
    BY DEF Edit
  <1>2. e = [start |-> e.start, delete |-> e.delete, data |-> e.data]
    BY DEF Edit
  <1>3. e.data \in Seq(Nat)
    <2>1. /\ <<>> \in Seq(Nat) /\ <<1>> \in Seq(Nat) /\ <<3>> \in Seq(Nat)
          /\ <<1, 3>> \in Seq(Nat)
      OBVIOUS
    <2> QED
      BY <1>1, <2>1
  <1>4. e \in EditsOf(Nat)
    BY <1>1, <1>2, <1>3 DEF EditsOf
  <1>5. e.delete % Width = 0
    BY <1>1 DEF Width
  <1>6. e.start \in {3, 20} => e.start % Width # 0 \/ To(e) > 3
    BY <1>1 DEF Width, To, From
  <1> QED
    BY <1>4, <1>5, <1>6

\* The tokens that the model has for a text: one to three numbers.
LEMMA TokensAreNumbers ==
  ASSUME NEW t \in Nat
  PROVE  TokensOf(t) \in Seq(Nat) /\ Len(TokensOf(t)) \in 1 .. 3
  <1>1. t % 3 = 0 \/ t % 3 = 1 \/ t % 3 = 2
    OBVIOUS
  <1> QED
    BY <1>1 DEF TokensOf

\* A server's delta is within the tokens, and its edits do not meet.
LEMMA DeltasAreWellPlaced ==
  ASSUME NEW o \in Text, NEW n \in Text, NEW d \in Deltas[o][n]
  PROVE  /\ d \in Seq(EditsOf(Nat)) /\ InPlace(TokensOf(o), d) /\ Apart(d)
         /\ Edited(TokensOf(o), d) = TokensOf(n)
  <1> DEFINE Clean == {e \in Edit : e.start % Width = 0}
             Two == {p \in Clean \X Clean : To(p[1]) < From(p[2]) \/ To(p[2]) < From(p[1])}
  <1>1. /\ d \in {<<e>> : e \in Clean} \union Two
        /\ \A i \in DOMAIN d : To(d[i]) <= Len(TokensOf(o))
        /\ Edited(TokensOf(o), d) = TokensOf(n)
    BY DEF Deltas
  <1>2. \A e \in Clean : e \in EditsOf(Nat) /\ e.start % Width = 0 /\ e.delete % Width = 0
    BY SomeEdits
  <1>3. CASE d \in {<<e>> : e \in Clean}
    <2>1. PICK e \in Clean : d = <<e>>
      BY <1>3
    <2>2. DOMAIN d = {1} /\ d[1] = e
      BY <2>1
    <2>3. d \in Seq(EditsOf(Nat))
      BY <1>2, <2>1
    <2> HIDE DEF Clean
    <2>4. InPlace(TokensOf(o), d)
      BY <1>1, <1>2, <2>2 DEF InPlace
    <2>5. Apart(d)
      BY <2>2 DEF Apart
    <2> QED
      BY <1>1, <2>3, <2>4, <2>5
  <1>4. CASE d \in Two
    <2>1. PICK e \in Clean, f \in Clean :
             d = <<e, f>> /\ (To(e) < From(f) \/ To(f) < From(e))
      BY <1>4
    <2>2. DOMAIN d = {1, 2} /\ d[1] = e /\ d[2] = f
      BY <2>1
    <2>3. d \in Seq(EditsOf(Nat))
      BY <1>2, <2>1
    <2>4. /\ From(e) \in Nat /\ To(e) \in Nat /\ From(e) <= To(e)
          /\ From(f) \in Nat /\ To(f) \in Nat /\ From(f) <= To(f)
      <3>1. e \in EditsOf(Nat) /\ f \in EditsOf(Nat)
        BY <1>2
      <3> QED
        BY <3>1, Ends
    <2> HIDE DEF Clean
    <2>5. InPlace(TokensOf(o), d)
      BY <1>1, <1>2, <2>1, <2>2 DEF InPlace
    <2>6. Apart(d)
      BY <2>1, <2>2, <2>4 DEF Apart
    <2> QED
      BY <1>1, <2>3, <2>5, <2>6
  <1> QED
    BY <1>1, <1>3, <1>4

\* A delta that is out of place is refused.
LEMMA WrongDeltasAreRefused ==
  ASSUME NEW o \in Text, NEW d \in WrongDeltas
  PROVE  ApplyEdits(TokensOf(o), d) = None
  <1>1. PICK e \in Edit : e.start \in {3, 20} /\ d = <<e>>
    BY DEF WrongDeltas
  <1>2. e \in EditsOf(Nat) /\ (e.start % Width # 0 \/ To(e) > 3)
    BY <1>1, SomeEdits
  <1>3. d \in Seq(EditsOf(Nat)) /\ DOMAIN d = {1} /\ d[1] = e
    BY <1>1, <1>2
  <1>4. TokensOf(o) \in Seq(Nat) /\ Len(TokensOf(o)) \in 1 .. 3
    <2>1. o \in Nat
      BY DEF Text
    <2> QED
      BY <2>1, TokensAreNumbers
  <1>5. ~ InPlace(TokensOf(o), d)
    <2>1. To(e) \in Nat
      BY <1>2, Ends
    <2>2. PICK l \in 1 .. 3 : l = Len(TokensOf(o))
      BY <1>4
    <2>3. InPlace(TokensOf(o), d) => e.start % Width = 0 /\ To(e) <= l
      BY <1>3, <2>2 DEF InPlace
    <2>4. ~ To(e) <= l \/ ~ To(e) > 3
      BY <2>1
    <2> QED
      BY <1>2, <2>3, <2>4
  <1> QED
    BY <1>3, <1>4, <1>5, MalformedIsRefused

\* Whatever delta the server gives, the client has its tokens or refuses it.
LEMMA DeltasAgree ==
  ASSUME NEW o \in Text, NEW n \in Text, NEW new \in Applied[TokensOf(o)][o][n]
  PROVE  new = None \/ new = TokensOf(n)
  <1>1. TokensOf(o) \in {TokensOf(t) : t \in Text}
    OBVIOUS
  <1>2. PICK d \in Deltas[o][n] \union WrongDeltas : new = ApplyEdits(TokensOf(o), d)
    BY <1>1 DEF Applied
  <1>3. CASE d \in WrongDeltas
    BY <1>2, <1>3, WrongDeltasAreRefused
  <1>4. CASE d \in Deltas[o][n]
    <2>1. /\ d \in Seq(EditsOf(Nat)) /\ InPlace(TokensOf(o), d) /\ Apart(d)
          /\ Edited(TokensOf(o), d) = TokensOf(n)
      BY <1>4, DeltasAreWellPlaced
    <2>2. TokensOf(o) \in Seq(Nat)
      <3>1. o \in Nat
        BY DEF Text
      <3> QED
        BY <3>1, TokensAreNumbers
    <2> QED
      BY <1>2, <2>1, <2>2, EditsTakePlace
  <1> QED
    BY <1>2, <1>3, <1>4

-----------------------------------------------------------------------------
(* The invariant.                                                          *)

\* What is sent, kept and answered; None is a lost text, no result, or an error.
Message == ({"full", "delta"} \X Ask) \union ({"change", "open"} \X Text) \union {<<"close", 0>>}
Texts == Text \union {None}
Result == [id : Nat, data : Seq(Nat)] \union {None}
ReplyOrError == {[data |-> <<>>, text |-> t] : t \in Texts}
                   \union {[data |-> TokensOf(t), text |-> t] : t \in Text} \union {None}
TaskRecord == [pc : {"none", "spawned", "waiting", "full", "delta", "reply", "done"},
               op : {"full", "delta"}, lock : Nat, text : Texts,
               prev : Result, reply : ReplyOrError]

\* The variables and what they range over.
TokenTypes ==
  /\ tick \in Text /\ asks \in 0 .. MaxAsks /\ locks \in Nat /\ lock \in Nat
  /\ open \in BOOLEAN /\ change \in BOOLEAN /\ due \in BOOLEAN
  /\ full \in BOOLEAN /\ missed \in BOOLEAN /\ gaveUp \in BOOLEAN
  /\ asked \in [id : Ask, tick : Text, behind : BOOLEAN] \union {None}
  /\ pipe \in Seq(Message) /\ loop \in {"free", "closing"}
  /\ text \in Texts /\ made \in Seq(Text)
  /\ semtokCache \in Result /\ task \in [Ask -> TaskRecord]

\* What TokenTypeOK says of several variables at once.
BufferTypes == ~open => (~change /\ ~due /\ shown = None)
AskedTypes == asked = None \/ (asked.id <= asks /\ asked.tick <= tick)
LockTypes == lock <= locks /\ (loop = "closing" => lock # 0)
LocksExclude ==
  \A i, j \in Ask : (i # j /\ task[i].pc \in InFlight /\ task[j].pc \in InFlight)
                      => task[i].lock # task[j].lock

\* A result is what was given out under its id: the one in the cache, and the
\* one that a request for a delta refers to, which outlives it there.
Given(c) == /\ c.id \in 0 .. Len(made)
            /\ c.id # 0 => c.data = TokensOf(made[c.id])
CacheGiven == semtokCache = None \/ Given(semtokCache)
DeltasGiven == \A i \in Ask : task[i].pc = "delta" => Given(task[i].prev) /\ task[i].prev.id # 0

\* Requests for tokens on their way: one of each, and none of them has a task.
IsAsk(m) == m[1] \in {"full", "delta"}
AsksOnTheWay ==
  /\ \A k \in DOMAIN pipe : IsAsk(pipe[k]) => /\ pipe[k][2] <= asks
                                              /\ task[pipe[k][2]].pc = "none"
  /\ \A j, k \in DOMAIN pipe :
       (IsAsk(pipe[j]) /\ IsAsk(pipe[k]) /\ pipe[j][2] = pipe[k][2]) => j = k
  /\ \A i \in Ask : i > asks => task[i].pc = "none"

\* What a message makes of the server's text.
After(t, m) == CASE m[1] = "open" -> m[2]
                 [] m[1] = "change" -> IF t = None THEN None ELSE m[2]
                 [] m[1] = "close" -> None
                 [] OTHER -> t

\* The request whose reply counts was made for the text that the buffer still
\* has, with no change to be sent before it.
Awaited == asked # None /\ ~asked.behind /\ open /\ asked.tick = tick
AsksFor(m, i) == IsAsk(m) /\ m[2] = i

\* A task whose result is of the buffer's text.
OnTick(t) == /\ t.pc \in InFlight => t.text = tick
             /\ t.pc = "reply" /\ t.reply # None => t.reply.text = tick

\* h[k] is the text that the server has once the first k requests on their way
\* are served.  After all of them it is the buffer's, if no change is waiting to
\* be sent; and a request that counts finds the buffer's text: those before it
\* lead to it, and none after it, or its task, has another.
Follows(h) ==
  /\ h \in [0 .. Len(pipe) -> Texts]
  /\ h[0] = IF loop = "closing" THEN None ELSE text
  /\ \A k \in 1 .. Len(pipe) : h[k] = After(h[k - 1], pipe[k])
  /\ open => h[Len(pipe)] # None
  /\ open /\ ~change => h[Len(pipe)] = tick
  /\ Awaited =>
       /\ ~change
       /\ \/ \E k \in 1 .. Len(pipe) : /\ AsksFor(pipe[k], asked.id)
                                       /\ \A j \in k .. Len(pipe) : h[j] = tick
          \/ /\ \A j \in 0 .. Len(pipe) : h[j] = tick
             /\ OnTick(task[asked.id])
TextsFollow == \E h : Follows(h)

\* The inductive invariant.
TokenInv == /\ TokenTypes /\ BufferTypes /\ AskedTypes /\ LockTypes /\ LocksExclude
            /\ CacheGiven /\ DeltasGiven /\ AsksOnTheWay /\ TextsFollow

-----------------------------------------------------------------------------
(* Types.                                                                  *)

\* A sequence with an element more.
LEMMA Appended ==
  ASSUME NEW M, NEW s \in Seq(M), NEW m \in M
  PROVE  /\ Append(s, m) \in Seq(M) /\ Len(Append(s, m)) = Len(s) + 1
         /\ \A k \in 1 .. Len(s) : Append(s, m)[k] = s[k]
         /\ Append(s, m)[Len(s) + 1] = m
  BY AppendProperties

\* A sequence without its first element.
LEMMA Taken ==
  ASSUME NEW M, NEW s \in Seq(M), s # <<>>
  PROVE  /\ Tail(s) \in Seq(M) /\ Len(Tail(s)) = Len(s) - 1 /\ Len(s) >= 1
         /\ s[1] \in M /\ \A k \in 1 .. Len(s) - 1 : Tail(s)[k] = s[k + 1]
  BY HeadTailProperties

\* Texts are numbers, and None is not one.
LEMMA TextTypes ==
  /\ Text \subseteq Nat /\ None \notin Text /\ 0 \in Text
  /\ \A t \in Text : t < MaxTicks => t + 1 \in Text
  BY TokensAssumption DEF Text

\* A task that was not spawned yet has the type of one.
LEMMA IdleTyped == Idle \in TaskRecord
  BY TextTypes DEF Idle, TaskRecord, Texts, Result, ReplyOrError

\* A new result of the server, with or without an id.
LEMMA StoredIsGiven ==
  ASSUME TokenTypes, NEW t \in Text, Stored(TokensOf(t), t)
  PROVE  /\ made' \in Seq(Text) /\ semtokCache' \in Result /\ Given(semtokCache)'
         /\ Len(made) <= Len(made') /\ \A k \in 1 .. Len(made) : made'[k] = made[k]
  <1>1. made \in Seq(Text) /\ Len(made) \in Nat
    BY DEF TokenTypes
  <1>2. TokensOf(t) \in Seq(Nat)
    <2>1. t \in Nat
      BY TextTypes
    <2> QED
      BY <2>1, TokensAreNumbers
  <1>3. CASE /\ made' = Append(made, t)
             /\ semtokCache' = [id |-> Len(made'), data |-> TokensOf(t)]
    <2>1. /\ made' \in Seq(Text) /\ Len(made') = Len(made) + 1
          /\ \A k \in 1 .. Len(made) : made'[k] = made[k]
          /\ made'[Len(made')] = t
      <3>1. /\ Append(made, t) \in Seq(Text) /\ Len(Append(made, t)) = Len(made) + 1
            /\ \A k \in 1 .. Len(made) : Append(made, t)[k] = made[k]
            /\ Append(made, t)[Len(made) + 1] = t
        BY <1>1, Appended
      <3> QED
        BY <1>3, <3>1
    <2>2. Len(made') \in Nat /\ Len(made') \in 0 .. Len(made') /\ Len(made) <= Len(made')
      BY <1>1, <2>1
    <2>3. semtokCache' \in Result
      BY <1>2, <1>3, <2>2 DEF Result
    <2>4. semtokCache'.id = Len(made') /\ semtokCache'.data = TokensOf(t)
      BY <1>3
    <2>5. Given(semtokCache)'
      BY <2>1, <2>2, <2>4 DEF Given
    <2> QED
      BY <2>1, <2>2, <2>3, <2>5
  <1>4. CASE made' = made /\ semtokCache' = [id |-> 0, data |-> TokensOf(t)]
    <2>1. semtokCache' \in Result /\ semtokCache'.id = 0
      BY <1>2, <1>4 DEF Result
    <2>2. Given(semtokCache)'
      BY <1>1, <1>4, <2>1 DEF Given
    <2> QED
      BY <1>1, <1>4, <2>1, <2>2
  <1> QED
    BY <1>3, <1>4 DEF Stored

\* What was given out stays so.
LEMMA GivenStays ==
  ASSUME NEW c, Given(c), c.id # 0 => c.id \in Nat, Len(made) \in Nat, Len(made') \in Nat,
         Len(made) <= Len(made'), \A k \in 1 .. Len(made) : made'[k] = made[k]
  PROVE  /\ c.id \in 0 .. Len(made')
         /\ c.id # 0 => c.data = TokensOf(made'[c.id])
  BY DEF Given

\* A task answers, or asks for everything again.
Moves(i, r) ==
  /\ r \in TaskRecord /\ task' = [task EXCEPT ![i] = r] /\ r.lock = task[i].lock
  /\ \/ /\ r.pc = "reply" /\ r.text = task[i].text
        /\ r.reply # None => r.reply.text = task[i].text
     \/ r.pc = "full" /\ r.text = text

\* The end of a request, or of a delta that cannot be used.
Ended(i) ==
  /\ \E r : Moves(i, r)
  /\ made' \in Seq(Text) /\ Len(made) <= Len(made')
  /\ \A k \in 1 .. Len(made) : made'[k] = made[k]
  /\ semtokCache' \in Result /\ (semtokCache' = None \/ Given(semtokCache)')

\* An answer with the tokens of the task's text, or with none, is a move of the
\* task.
LEMMA Answering ==
  ASSUME TokenTypes, NEW i \in Ask, NEW data, Answers(i, data),
         data = <<>> \/ (task[i].text \in Text /\ data = TokensOf(task[i].text))
  PROVE  \E r : Moves(i, r)
  <1> DEFINE t == task[i]
             s == [data |-> data, text |-> t.text]
             r == [t EXCEPT !.pc = "reply", !.reply = s]
  <1>1. t \in TaskRecord
    BY DEF TokenTypes
  <1>2. task' = [task EXCEPT ![i] = r]
    BY DEF Answers, Becomes
  <1>3. t.text \in Texts
    BY <1>1 DEF TaskRecord
  <1>4. s \in ReplyOrError
    BY <1>3 DEF ReplyOrError
  <1>5. s.text = t.text
    OBVIOUS
  <1> HIDE DEF s, t
  <1>6. r \in TaskRecord /\ r.lock = t.lock /\ r.pc = "reply" /\ r.text = t.text /\ r.reply = s
    BY <1>1, <1>4 DEF TaskRecord
  <1> HIDE DEF r
  <1> QED
    BY <1>2, <1>5, <1>6 DEF Moves, t

\* So is an error.
LEMMA Failing ==
  ASSUME TokenTypes, NEW i \in Ask, Fails(i)
  PROVE  \E r : Moves(i, r)
  <1> DEFINE t == task[i]
             r == [t EXCEPT !.pc = "reply", !.reply = None]
  <1>1. t \in TaskRecord
    BY DEF TokenTypes
  <1>2. task' = [task EXCEPT ![i] = r]
    BY DEF Fails, Becomes
  <1> HIDE DEF t
  <1>3. r \in TaskRecord /\ r.lock = t.lock /\ r.pc = "reply" /\ r.text = t.text /\ r.reply = None
    BY <1>1 DEF TaskRecord, ReplyOrError
  <1> HIDE DEF r
  <1> QED
    BY <1>2, <1>3 DEF Moves, t

\* So is asking for everything.
LEMMA FallingBack ==
  ASSUME TokenTypes, NEW i \in Ask, FallBack(i)
  PROVE  \E r : Moves(i, r)
  <1> DEFINE t == task[i]
             r == [t EXCEPT !.pc = "full", !.text = text, !.prev = None]
  <1>1. t \in TaskRecord /\ text \in Texts
    BY DEF TokenTypes
  <1>2. task' = [task EXCEPT ![i] = r]
    BY DEF FallBack, Becomes
  <1> HIDE DEF t
  <1>3. r \in TaskRecord /\ r.lock = t.lock /\ r.pc = "full" /\ r.text = text
    BY <1>1 DEF TaskRecord, Result
  <1> HIDE DEF r
  <1> QED
    BY <1>2, <1>3 DEF Moves, t

\* What an answer of the server does, to either kind of request.
LEMMA Ending ==
  ASSUME TokenTypes, CacheGiven, DeltasGiven, NEW i \in Ask,
         SemanticTokensFull(i) \/ SemanticTokensFullDelta(i)
  PROVE  Ended(i)
  <1>1. /\ made \in Seq(Text) /\ Len(made) \in Nat /\ task[i] \in TaskRecord
        /\ task[i].text \in Texts
    BY DEF TokenTypes, TaskRecord
  <1>2. CASE FullTokens(i)
    <2>1. task[i].text \in Text
      BY <1>1, <1>2 DEF FullTokens, Texts
    <2>2. \E r : Moves(i, r)
      BY <1>2, <2>1, Answering DEF FullTokens
    <2>3. Stored(TokensOf(task[i].text), task[i].text)
      BY <1>2 DEF FullTokens
    <2>4. PICK t \in Text : t = task[i].text
      BY <2>1
    <2>5. Stored(TokensOf(t), t)
      BY <2>3, <2>4
    <2> QED
      BY <2>2, <2>5, StoredIsGiven DEF Ended
  <1>3. CASE NullTokens(i)
    <2>1. \E r : Moves(i, r)
      BY <1>3, Answering DEF NullTokens
    <2>2. semtokCache' = None /\ made' = made
      BY <1>3 DEF NullTokens
    <2> QED
      BY <1>1, <2>1, <2>2 DEF Ended, Result
  <1>4. CASE NoTokens(i)
    <2>1. \E r : Moves(i, r)
      BY <1>4, Failing DEF NoTokens
    <2>2. semtokCache' = semtokCache /\ made' = made /\ semtokCache \in Result
      BY <1>4 DEF NoTokens, TokenTypes
    <2>3. semtokCache' = None \/ Given(semtokCache)'
      BY <1>4, <2>2 DEF CacheGiven, Given
    <2> QED
      BY <1>1, <2>1, <2>2, <2>3 DEF Ended
  <1>5. CASE FallBack(i)
    <2>1. \E r : Moves(i, r)
      BY <1>5, FallingBack
    <2>2. semtokCache' = None /\ made' = made
      BY <1>5 DEF FallBack
    <2> QED
      BY <1>1, <2>1, <2>2 DEF Ended, Result
  <1>6. CASE DeltaTokens(i) /\ task[i].pc = "delta"
    <2>1. PICK c : c = task[i].prev
      OBVIOUS
    <2>2. Given(c) /\ c.id # 0
      BY <1>6, <2>1 DEF DeltasGiven
    <2>3. c.id \in 1 .. Len(made) /\ c.data = TokensOf(made[c.id])
      BY <1>1, <2>2 DEF Given
    <2>4. PICK o \in Text : o = made[c.id]
      BY <1>1, <2>3
    <2>5. PICK t \in Text : t = task[i].text
      BY <1>1, <1>6 DEF DeltaTokens, Texts
    <2>6. PICK new \in Applied[c.data][o][t] :
             IF new = None THEN FallBack(i) ELSE Stored(new, t) /\ Answers(i, new)
      BY <1>6, <2>1, <2>4, <2>5 DEF DeltaTokens
    <2>7. new = None \/ new = TokensOf(t)
      BY <2>3, <2>4, <2>6, DeltasAgree
    <2>8. CASE new = None
      BY <1>5, <2>6, <2>8
    <2>9. CASE new # None
      <3>1. Stored(TokensOf(t), t) /\ Answers(i, TokensOf(t))
        BY <2>6, <2>7, <2>9
      <3>2. \E r : Moves(i, r)
        BY <2>5, <3>1, Answering
      <3> QED
        BY <3>1, <3>2, StoredIsGiven DEF Ended
    <2> QED
      BY <2>8, <2>9
  <1> QED
    BY <1>2, <1>3, <1>4, <1>5, <1>6 DEF SemanticTokensFull, SemanticTokensFullDelta

\* Every step keeps the types.
LEMMA TypesStep ==
  ASSUME TokenTypes, CacheGiven, DeltasGiven, [TokenNext]_tokenVars
  PROVE  TokenTypes'
  <1> USE DEF TokenTypes
  <1>0. \A m \in Message : Append(pipe, m) \in Seq(Message)
    BY Appended
  <1>1. \A t \in Text : <<"change", t>> \in Message /\ <<"open", t>> \in Message
    BY DEF Message
  <1>2. /\ <<"close", 0>> \in Message
        /\ \A i \in Ask : <<"full", i>> \in Message /\ <<"delta", i>> \in Message
    BY DEF Message
  <1>3. \A i \in Ask : task[i] \in TaskRecord
    OBVIOUS
  <1>4. CASE Type
    BY <1>4, TextTypes DEF Type, daemon, server
  <1>5. CASE ChangeTimer
    BY <1>0, <1>1, <1>5 DEF ChangeTimer, Sends, daemon, server
  <1>6. CASE SyncDocumentForCompletion
    BY <1>0, <1>1, <1>6 DEF SyncDocumentForCompletion, Sends, daemon, server
  <1>7. ASSUME AskTokens, due' \in BOOLEAN PROVE TokenTypes'
    <2>1. asks + 1 \in Ask /\ asks' = asks + 1 /\ asks' \in 0 .. MaxAsks
      BY <1>7, TokensAssumption DEF AskTokens, Ask
    <2>2. asked' \in [id : Ask, tick : Text, behind : BOOLEAN]
      BY <1>7, <2>1 DEF AskTokens
    <2>3. pipe' \in Seq(Message)
      BY <1>0, <1>2, <1>7, <2>1 DEF AskTokens, Sends
    <2> QED
      BY <1>7, <2>1, <2>2, <2>3 DEF AskTokens, daemon, server
  <1>8. CASE SemanticTokens
    BY <1>7, <1>8 DEF SemanticTokens
  <1>9. CASE TokenTimer
    BY <1>7, <1>9 DEF TokenTimer
  <1>10. CASE OnBufClose
    BY <1>0, <1>2, <1>10 DEF OnBufClose, Sends, daemon, server
  <1>11. CASE OnBufOpen
    BY <1>0, <1>1, <1>11, TextTypes DEF OnBufOpen, Sends, daemon, server
  <1>12. ASSUME NEW op \in {"full", "delta"}, SpawnTokens(op) PROVE TokenTypes'
    <2>1. [Idle EXCEPT !.pc = "spawned", !.op = op] \in TaskRecord
      BY IdleTyped, <1>12 DEF TaskRecord
    <2>2. PICK r \in TaskRecord : r = [Idle EXCEPT !.pc = "spawned", !.op = op]
      BY <2>1
    <2>3. task' \in [Ask -> TaskRecord]
      BY <1>12, <2>2 DEF SpawnTokens
    <2>4. pipe' \in Seq(Message)
      BY <1>12, Taken DEF SpawnTokens, Takes
    <2> QED
      BY <1>12, <2>3, <2>4 DEF SpawnTokens, editor, server
  <1>13. ASSUME NEW op, Takes(op)
         PROVE  /\ pipe' \in Seq(Message) /\ pipe[1] \in Message
                /\ op \in {"change", "open"} => pipe[1][2] \in Text
    <2>1. pipe' \in Seq(Message) /\ pipe[1] \in Message /\ pipe[1][1] = op
      BY <1>13, Taken DEF Takes
    <2> QED
      BY <2>1 DEF Message
  <1>14. CASE DidOpen
    <2>1. pipe' \in Seq(Message) /\ text' \in Texts
      BY <1>13, <1>14 DEF DidOpen, Texts
    <2> QED
      BY <1>14, <2>1 DEF DidOpen, editor, daemon
  <1>15. CASE DidChange
    <2>1. pipe' \in Seq(Message) /\ text' \in Texts
      BY <1>13, <1>15 DEF DidChange, Texts
    <2> QED
      BY <1>15, <2>1 DEF DidChange, editor, daemon
  <1>16. CASE DidClose
    <2>1. pipe' \in Seq(Message)
      BY <1>13, <1>16 DEF DidClose
    <2> QED
      BY <1>16, <2>1 DEF DidClose, GetsLock, Lock, editor, server
  <1>17. CASE Closed
    BY <1>17 DEF Closed, editor, Texts, Result
  <1>18. CASE StoreSemtokCache
    BY <1>18 DEF StoreSemtokCache, Elsewhere, editor, server, Result
  <1>19. CASE DropLock
    BY <1>19 DEF DropLock, Elsewhere, editor, server
  <1>20. ASSUME NEW i \in Ask, SemanticTokenUriLock(i) PROVE TokenTypes'
    <2>1. Lock \in Nat
      BY DEF Lock
    <2>2. PICK r : r = [task[i] EXCEPT !.pc = "waiting", !.lock = Lock]
      OBVIOUS
    <2>3. r \in TaskRecord
      BY <1>3, <2>1, <2>2 DEF TaskRecord
    <2>4. task' \in [Ask -> TaskRecord]
      BY <1>20, <2>2, <2>3 DEF SemanticTokenUriLock, Becomes
    <2>5. lock' \in Nat /\ locks' \in Nat
      BY <1>20, <2>1 DEF SemanticTokenUriLock, GetsLock
    <2> QED
      BY <1>20, <2>4, <2>5 DEF SemanticTokenUriLock, Elsewhere, editor, server
  <1>21. ASSUME NEW i \in Ask, SendRequest(i) PROVE TokenTypes'
    <2>1. PICK delta \in BOOLEAN :
             Becomes(i, [task[i] EXCEPT !.pc = IF delta THEN "delta" ELSE "full",
                                        !.text = text,
                                        !.prev = IF delta THEN semtokCache ELSE None])
      BY <1>21 DEF SendRequest
    <2>2. PICK pc \in {"delta", "full"}, prev \in Result :
             Becomes(i, [task[i] EXCEPT !.pc = pc, !.text = text, !.prev = prev])
      BY <2>1 DEF Result
    <2>3. PICK r : r = [task[i] EXCEPT !.pc = pc, !.text = text, !.prev = prev]
      OBVIOUS
    <2>4. r \in TaskRecord
      BY <1>3, <2>3 DEF TaskRecord
    <2>5. task' \in [Ask -> TaskRecord]
      BY <2>2, <2>3, <2>4 DEF Becomes
    <2> QED
      BY <1>21, <2>5 DEF SendRequest, Elsewhere, editor, server
  <1>22. ASSUME NEW i \in Ask, SemanticTokensFull(i) \/ SemanticTokensFullDelta(i)
         PROVE  TokenTypes'
    <2>1. Ended(i)
      BY <1>22, Ending
    <2>2. task' \in [Ask -> TaskRecord]
      BY <2>1 DEF Ended, Moves
    <2>3. UNCHANGED <<editor, pipe, loop, lock, locks, text>>
      BY <1>22 DEF SemanticTokensFull, SemanticTokensFullDelta, Elsewhere
    <2> QED
      BY <2>1, <2>2, <2>3 DEF Ended, editor
  <1>23. ASSUME NEW i \in Ask, OnReply(i) PROVE TokenTypes'
    <2>1. PICK r : r = [task[i] EXCEPT !.pc = "done"]
      OBVIOUS
    <2>2. r \in TaskRecord
      BY <1>3, <2>1 DEF TaskRecord
    <2>3. task' \in [Ask -> TaskRecord]
      BY <1>23, <2>1, <2>2 DEF OnReply
    <2>4. asked' = None \/ asked' = asked
      BY <1>23 DEF OnReply
    <2>5. gaveUp' \in BOOLEAN /\ full' \in BOOLEAN
      BY <1>23 DEF OnReply
    <2>6. UNCHANGED <<tick, open, change, due, asks, missed,
                      pipe, loop, lock, locks, semtokCache, text, made>>
      BY <1>23 DEF OnReply, server
    <2> QED
      BY <2>3, <2>4, <2>5, <2>6
  <1>24. CASE UNCHANGED tokenVars
    BY <1>24 DEF tokenVars, editor, daemon, server
  <1> QED
    BY <1>4, <1>5, <1>6, <1>8, <1>9, <1>10, <1>11, <1>12, <1>14, <1>15, <1>16, <1>17, <1>18,
       <1>19, <1>20, <1>21, <1>22, <1>23, <1>24
    DEF TokenNext, Loop, Task

\* What a step leaves alone when it is one of the editor, or of the loop, or of
\* the caches.
LEMMA Leaves ==
  ASSUME [TokenNext]_tokenVars
  PROVE  \/ UNCHANGED <<task, semtokCache, made, lock, locks, loop, text>>
         \/ \E op \in {"full", "delta"} : SpawnTokens(op)
         \/ DidOpen \/ DidChange \/ DidClose \/ Closed \/ StoreSemtokCache \/ DropLock
         \/ \E i \in Ask : Task(i) \/ OnReply(i)
  BY DEF TokenNext, tokenVars, Loop, Type, ChangeTimer, SyncDocumentForCompletion,
         SemanticTokens, TokenTimer, AskTokens, OnBufClose, OnBufOpen, daemon, server

\* Every step keeps what ties the timers to the buffer, and the last request to
\* the ones before it.
LEMMA BufferStep ==
  ASSUME TokenTypes, BufferTypes, AskedTypes, [TokenNext]_tokenVars
  PROVE  BufferTypes' /\ AskedTypes'
  <1> USE DEF TokenTypes, BufferTypes, AskedTypes
  <1>0. /\ Text \subseteq Nat /\ asks \in Nat /\ tick \in Nat
        /\ asked # None => asked.id \in Nat /\ asked.tick \in Nat
    <2>1. asked # None => asked.id \in Ask /\ asked.tick \in Text
      OBVIOUS
    <2>2. Ask \subseteq Nat /\ asks \in Nat
      BY TokensAssumption DEF Ask
    <2> QED
      BY <2>1, <2>2, TextTypes
  <1>1. CASE Type
    <2>1. open /\ tick' = tick + 1 /\ UNCHANGED <<open, asked, asks>>
      BY <1>0, <1>1 DEF Type
    <2>2. asked = None \/ (asked.id <= asks' /\ asked.tick <= tick')
      BY <1>0, <2>1
    <2> QED
      BY <2>1, <2>2
  <1>2. CASE ChangeTimer
    BY <1>2 DEF ChangeTimer
  <1>3. CASE SyncDocumentForCompletion
    BY <1>3 DEF SyncDocumentForCompletion
  <1>4. ASSUME AskTokens PROVE BufferTypes' /\ AskedTypes'
    <2>1. asked'.id = asks' /\ asked'.tick = tick /\ tick' = tick /\ asks' = asks + 1
      BY <1>4 DEF AskTokens
    <2>2. open' /\ asks' \in Nat /\ tick' \in Nat
      BY <1>0, <1>4, <2>1 DEF AskTokens
    <2> QED
      BY <2>1, <2>2
  <1>5. CASE SemanticTokens \/ TokenTimer
    BY <1>4, <1>5 DEF SemanticTokens, TokenTimer
  <1>6. CASE OnBufClose
    BY <1>6 DEF OnBufClose
  <1>7. CASE OnBufOpen
    <2>1. open' /\ tick' = tick + 1 /\ UNCHANGED <<asked, asks>>
      BY <1>0, <1>7 DEF OnBufOpen
    <2>2. asked = None \/ (asked.id <= asks' /\ asked.tick <= tick')
      BY <1>0, <2>1
    <2> QED
      BY <2>1, <2>2
  <1>8. ASSUME NEW i \in Ask, OnReply(i) PROVE BufferTypes' /\ AskedTypes'
    <2>1. asked' = None \/ asked' = asked
      BY <1>8 DEF OnReply
    <2>2. open \/ shown' = shown
      BY <1>8 DEF OnReply
    <2>3. UNCHANGED <<tick, open, change, due, asks>>
      BY <1>8 DEF OnReply
    <2> QED
      BY <2>1, <2>2, <2>3
  <1>9. CASE UNCHANGED editor
    BY <1>9 DEF editor
  <1> QED
    BY <1>1, <1>2, <1>3, <1>5, <1>6, <1>7, <1>8, <1>9
    DEF TokenNext, Loop, Task, SpawnTokens, DidOpen, DidChange, DidClose, Closed,
        StoreSemtokCache, DropLock, SemanticTokenUriLock, SendRequest, SemanticTokensFull,
        SemanticTokensFullDelta, Elsewhere, tokenVars

\* Every step keeps the lock: one request with the server at a time.
LEMMA LocksStep ==
  ASSUME TokenTypes, CacheGiven, DeltasGiven, LockTypes, LocksExclude, [TokenNext]_tokenVars
  PROVE  LockTypes' /\ LocksExclude'
  <1>0. task \in [Ask -> TaskRecord] /\ lock \in Nat /\ locks \in Nat
    BY DEF TokenTypes
  <1>1. CASE UNCHANGED <<task, lock, locks, loop>>
    BY <1>1 DEF LockTypes, LocksExclude
  \* The tasks that get or release nothing.
  <1>2. ASSUME NEW i, task' = [task EXCEPT ![i] = task'[i]],
               i \in Ask => task'[i].pc \notin InFlight
        PROVE  LocksExclude'
    <2> SUFFICES ASSUME NEW j \in Ask, NEW k \in Ask, j # k,
                        task'[j].pc \in InFlight, task'[k].pc \in InFlight
                 PROVE  task'[j].lock # task'[k].lock
      BY DEF LocksExclude
    <2>1. j # i /\ k # i
      BY <1>2
    <2>2. task'[j] = task[j] /\ task'[k] = task[k]
      BY <1>0, <1>2, <2>1
    <2> QED
      BY <2>2 DEF LocksExclude
  <1>3. ASSUME NEW op \in {"full", "delta"}, SpawnTokens(op)
        PROVE  LockTypes' /\ LocksExclude'
    <2>1. PICK i : i = pipe[1][2]
      OBVIOUS
    <2>2. task' = [task EXCEPT ![i] = [Idle EXCEPT !.pc = "spawned", !.op = op]]
      BY <1>3, <2>1 DEF SpawnTokens
    <2>3. [Idle EXCEPT !.pc = "spawned", !.op = op].pc = "spawned"
      BY DEF Idle
    <2>4. PICK r : r = [Idle EXCEPT !.pc = "spawned", !.op = op] /\ r.pc \notin InFlight
      BY <2>3 DEF InFlight
    <2>5. i \in Ask => task'[i] = r
      BY <1>0, <2>2, <2>4
    <2>6. task' = [task EXCEPT ![i] = task'[i]]
      BY <1>0, <2>2, <2>4, <2>5
    <2>7. LocksExclude'
      BY <1>2, <2>4, <2>5, <2>6
    <2> QED
      BY <1>3, <2>7 DEF SpawnTokens, LockTypes
  <1>4. CASE DidClose
    BY <1>0, <1>4 DEF DidClose, GetsLock, Lock, LockTypes, LocksExclude
  <1>5. CASE Closed
    BY <1>0, <1>5 DEF Closed, LockTypes, LocksExclude
  <1>6. CASE DropLock
    BY <1>0, <1>6 DEF DropLock, Elsewhere, LockTypes, LocksExclude
  <1>7. ASSUME NEW i \in Ask, SemanticTokenUriLock(i) PROVE LockTypes' /\ LocksExclude'
    <2>1. PICK r : r = [task[i] EXCEPT !.pc = "waiting", !.lock = Lock]
      OBVIOUS
    <2>2. task' = [task EXCEPT ![i] = r]
      BY <1>7, <2>1 DEF SemanticTokenUriLock, Becomes
    <2>3. r.pc = "waiting" /\ task'[i] = r
      BY <1>0, <2>1, <2>2 DEF TaskRecord
    <2>4. LocksExclude'
      BY <1>2, <2>2, <2>3 DEF InFlight
    <2>5. LockTypes'
      BY <1>0, <1>7 DEF SemanticTokenUriLock, GetsLock, Lock, Elsewhere, LockTypes
    <2> QED
      BY <2>4, <2>5
  <1>8. ASSUME NEW i \in Ask, SendRequest(i) PROVE LockTypes' /\ LocksExclude'
    <2>1. PICK pc, prev :
             Becomes(i, [task[i] EXCEPT !.pc = pc, !.text = text, !.prev = prev])
      BY <1>8 DEF SendRequest
    <2>2. PICK r : r = [task[i] EXCEPT !.pc = pc, !.text = text, !.prev = prev]
      OBVIOUS
    <2>3. task' = [task EXCEPT ![i] = r] /\ r.lock = task[i].lock
      BY <1>0, <2>1, <2>2 DEF Becomes, TaskRecord
    <2>4. \A j \in Ask : task[j].pc \in InFlight => task[j].lock # task[i].lock
      BY <1>8 DEF SendRequest, Held
    <2>5. LocksExclude'
      BY <1>0, <2>3, <2>4 DEF LocksExclude
    <2> QED
      BY <1>8, <2>5 DEF SendRequest, Elsewhere, LockTypes
  <1>9. ASSUME NEW i \in Ask, SemanticTokensFull(i) \/ SemanticTokensFullDelta(i)
        PROVE  LockTypes' /\ LocksExclude'
    <2>1. PICK r : Moves(i, r)
      BY <1>9, Ending DEF Ended
    <2>2. task[i].pc \in InFlight
      BY <1>9 DEF SemanticTokensFull, SemanticTokensFullDelta, InFlight
    <2>3. task' = [task EXCEPT ![i] = r] /\ r.lock = task[i].lock
      BY <2>1 DEF Moves
    <2>4. LocksExclude'
      BY <1>0, <2>2, <2>3 DEF LocksExclude
    <2> QED
      BY <1>9, <2>4
      DEF SemanticTokensFull, SemanticTokensFullDelta, Elsewhere, LockTypes
  <1>10. ASSUME NEW i \in Ask, OnReply(i) PROVE LockTypes' /\ LocksExclude'
    <2>1. PICK r : r = [task[i] EXCEPT !.pc = "done"]
      OBVIOUS
    <2>2. task' = [task EXCEPT ![i] = r]
      BY <1>10, <2>1 DEF OnReply
    <2>3. r.pc = "done" /\ task'[i] = r
      BY <1>0, <2>1, <2>2 DEF TaskRecord
    <2>4. LocksExclude'
      BY <1>2, <2>2, <2>3 DEF InFlight
    <2> QED
      BY <1>10, <2>4 DEF OnReply, LockTypes
  <1>11. CASE DidOpen \/ DidChange \/ StoreSemtokCache
    BY <1>1, <1>11 DEF DidOpen, DidChange, StoreSemtokCache, Elsewhere, daemon
  <1> QED
    BY <1>1, <1>3, <1>4, <1>5, <1>6, <1>7, <1>8, <1>9, <1>10, <1>11, Leaves DEF Task

\* Every step keeps in the cache, and in the requests for a delta to it, what the
\* server gave out under that id.
LEMMA CacheStep ==
  ASSUME TokenTypes, CacheGiven, DeltasGiven, [TokenNext]_tokenVars
  PROVE  CacheGiven' /\ DeltasGiven'
  <1>0. /\ task \in [Ask -> TaskRecord] /\ made \in Seq(Text) /\ Len(made) \in Nat
        /\ semtokCache \in Result
    BY DEF TokenTypes
  <1>1. ASSUME NEW c, Given(c), made' = made
        PROVE  /\ c.id \in 0 .. Len(made')
               /\ c.id # 0 => c.data = TokensOf(made'[c.id])
    BY <1>1 DEF Given
  <1>2. CASE UNCHANGED <<task, made>> /\ (semtokCache' = semtokCache \/ semtokCache' = None)
    BY <1>2 DEF CacheGiven, DeltasGiven, Given
  \* The tasks that do not ask for a delta.
  <1>3. ASSUME NEW i, task' = [task EXCEPT ![i] = task'[i]],
               i \in Ask => task'[i].pc # "delta",
               Len(made) <= Len(made'), Len(made') \in Nat,
               \A k \in 1 .. Len(made) : made'[k] = made[k]
        PROVE  DeltasGiven'
    <2> SUFFICES ASSUME NEW j \in Ask, task'[j].pc = "delta"
                 PROVE  Given(task[j].prev)' /\ task'[j].prev.id # 0
      BY DEF DeltasGiven
    <2>1. j # i
      BY <1>3
    <2>2. task'[j] = task[j]
      BY <1>0, <1>3, <2>1
    <2>3. Given(task[j].prev) /\ task[j].prev.id # 0
      BY <2>2 DEF DeltasGiven
    <2>4. PICK c : c = task[j].prev
      OBVIOUS
    <2>5. Given(c) /\ (c.id # 0 => c.id \in Nat)
      BY <2>3, <2>4 DEF Given
    <2>6. /\ c.id \in 0 .. Len(made')
          /\ c.id # 0 => c.data = TokensOf(made'[c.id])
      BY <1>0, <1>3, <2>5, GivenStays
    <2> QED
      BY <2>2, <2>3, <2>4, <2>6 DEF Given
  <1>10. made' = made =>
           /\ Len(made) <= Len(made') /\ Len(made') \in Nat
           /\ \A k \in 1 .. Len(made) : made'[k] = made[k]
    BY <1>0
  <1>4. ASSUME NEW op \in {"full", "delta"}, SpawnTokens(op)
        PROVE  CacheGiven' /\ DeltasGiven'
    <2>1. PICK i : i = pipe[1][2]
      OBVIOUS
    <2>2. task' = [task EXCEPT ![i] = [Idle EXCEPT !.pc = "spawned", !.op = op]]
      BY <1>4, <2>1 DEF SpawnTokens
    <2>8. [Idle EXCEPT !.pc = "spawned", !.op = op].pc = "spawned"
      BY DEF Idle
    <2>3. PICK r : r = [Idle EXCEPT !.pc = "spawned", !.op = op] /\ r.pc = "spawned"
      BY <2>8
    <2>4. i \in Ask => task'[i] = r
      BY <1>0, <2>2, <2>3
    <2>5. task' = [task EXCEPT ![i] = task'[i]]
      BY <1>0, <2>2, <2>3, <2>4
    <2>6. made' = made /\ semtokCache' = semtokCache
      BY <1>4 DEF SpawnTokens, server
    <2>7. DeltasGiven'
      BY <1>3, <1>10, <2>3, <2>4, <2>5, <2>6
    <2> QED
      BY <2>6, <2>7 DEF CacheGiven, Given
  <1>5. ASSUME NEW i \in Ask, SemanticTokenUriLock(i) PROVE CacheGiven' /\ DeltasGiven'
    <2>1. PICK r : r = [task[i] EXCEPT !.pc = "waiting", !.lock = Lock]
      OBVIOUS
    <2>2. task' = [task EXCEPT ![i] = r]
      BY <1>5, <2>1 DEF SemanticTokenUriLock, Becomes
    <2>3. r.pc = "waiting" /\ task'[i] = r
      BY <1>0, <2>1, <2>2 DEF TaskRecord
    <2>4. made' = made /\ semtokCache' = semtokCache
      BY <1>5 DEF SemanticTokenUriLock, server
    <2>5. DeltasGiven'
      BY <1>3, <1>10, <2>2, <2>3, <2>4
    <2> QED
      BY <2>4, <2>5 DEF CacheGiven, Given
  <1>6. ASSUME NEW i \in Ask, SendRequest(i) PROVE CacheGiven' /\ DeltasGiven'
    <2>1. PICK delta \in BOOLEAN :
             /\ delta => semtokCache # None /\ semtokCache.id # 0
             /\ Becomes(i, [task[i] EXCEPT !.pc = IF delta THEN "delta" ELSE "full",
                                           !.text = text,
                                           !.prev = IF delta THEN semtokCache ELSE None])
      BY <1>6 DEF SendRequest
    <2>2. PICK pc, prev :
             /\ pc = IF delta THEN "delta" ELSE "full"
             /\ prev = IF delta THEN semtokCache ELSE None
      OBVIOUS
    <2>3. PICK r : r = [task[i] EXCEPT !.pc = pc, !.text = text, !.prev = prev]
      OBVIOUS
    <2>4. task' = [task EXCEPT ![i] = r] /\ r.pc = pc /\ r.prev = prev
      BY <1>0, <2>1, <2>2, <2>3 DEF Becomes, TaskRecord
    <2>5. made' = made /\ semtokCache' = semtokCache
      BY <1>6 DEF SendRequest, server
    <2>6. CacheGiven'
      BY <2>5 DEF CacheGiven, Given
    <2>7. CASE ~ delta
      <3>1. task'[i].pc # "delta" /\ task' = [task EXCEPT ![i] = task'[i]]
        BY <1>0, <2>2, <2>4, <2>7
      <3> QED
        BY <1>3, <1>10, <2>5, <2>6, <3>1
    <2>8. CASE delta
      <3>1. prev = semtokCache /\ Given(prev) /\ prev.id # 0
        BY <2>1, <2>2, <2>8 DEF CacheGiven
      <3> SUFFICES ASSUME NEW j \in Ask, task'[j].pc = "delta"
                   PROVE  Given(task[j].prev)' /\ task'[j].prev.id # 0
        BY <2>6 DEF DeltasGiven
      <3>2. task'[j].prev = IF j = i THEN prev ELSE task[j].prev
        BY <1>0, <2>4
      <3>3. j # i => task[j].pc = "delta"
        BY <1>0, <2>4
      <3>4. PICK c : c = task'[j].prev
        OBVIOUS
      <3>5. Given(c) /\ c.id # 0
        BY <3>1, <3>2, <3>3, <3>4 DEF DeltasGiven
      <3> QED
        BY <1>1, <2>5, <3>4, <3>5 DEF Given
    <2> QED
      BY <2>7, <2>8
  <1>7. ASSUME NEW i \in Ask, SemanticTokensFull(i) \/ SemanticTokensFullDelta(i)
        PROVE  CacheGiven' /\ DeltasGiven'
    <2>1. Ended(i)
      BY <1>7, Ending
    <2>2. PICK r : Moves(i, r)
      BY <2>1 DEF Ended
    <2>3. r.pc # "delta" /\ task' = [task EXCEPT ![i] = r]
      BY <2>2 DEF Moves
    <2>4. task'[i].pc # "delta" /\ task' = [task EXCEPT ![i] = task'[i]]
      BY <1>0, <2>3
    <2>5. /\ Len(made) <= Len(made') /\ Len(made') \in Nat
          /\ \A k \in 1 .. Len(made) : made'[k] = made[k]
      BY <2>1 DEF Ended
    <2>6. DeltasGiven'
      BY <1>3, <2>4, <2>5
    <2>7. CacheGiven'
      BY <2>1 DEF Ended, CacheGiven
    <2> QED
      BY <2>6, <2>7
  <1>8. ASSUME NEW i \in Ask, OnReply(i) PROVE CacheGiven' /\ DeltasGiven'
    <2>1. PICK r : r = [task[i] EXCEPT !.pc = "done"]
      OBVIOUS
    <2>2. task' = [task EXCEPT ![i] = r]
      BY <1>8, <2>1 DEF OnReply
    <2>3. r.pc = "done" /\ task'[i] = r
      BY <1>0, <2>1, <2>2 DEF TaskRecord
    <2>4. made' = made /\ semtokCache' = semtokCache
      BY <1>8 DEF OnReply, server
    <2>5. DeltasGiven'
      BY <1>3, <1>10, <2>2, <2>3, <2>4
    <2> QED
      BY <2>4, <2>5 DEF CacheGiven, Given
  <1>9. CASE DidOpen \/ DidChange \/ DidClose \/ Closed \/ StoreSemtokCache \/ DropLock
    BY <1>2, <1>9
    DEF DidOpen, DidChange, DidClose, Closed, StoreSemtokCache, DropLock, Elsewhere,
        daemon, server
  <1> QED
    BY <1>2, <1>4, <1>5, <1>6, <1>7, <1>8, <1>9, Leaves DEF Task

\* What a step of a request, or its reply, does to the rest.
LEMMA Others ==
  ASSUME TokenTypes, CacheGiven, DeltasGiven, NEW i \in Ask, Task(i) \/ OnReply(i)
  PROVE  /\ task[i].pc # "none" /\ \A j \in Ask : j # i => task'[j] = task[j]
         /\ UNCHANGED <<tick, open, change, asks, pipe, loop, text>>
         /\ asked' = asked \/ asked' = None
         /\ text = tick /\ OnTick(task[i]) => OnTick(task[i])'
  <1>0. task \in [Ask -> TaskRecord]
    BY DEF TokenTypes
  <1>1. ASSUME NEW r, task' = [task EXCEPT ![i] = r]
        PROVE  task'[i] = r /\ \A j \in Ask : j # i => task'[j] = task[j]
    BY <1>0, <1>1
  <1>2. CASE SemanticTokenUriLock(i)
    <2>1. PICK r : r = [task[i] EXCEPT !.pc = "waiting", !.lock = Lock]
      OBVIOUS
    <2>2. task' = [task EXCEPT ![i] = r] /\ task[i].pc = "spawned"
      BY <1>2, <2>1 DEF SemanticTokenUriLock, Becomes
    <2>3. r.pc = "waiting"
      BY <1>0, <2>1 DEF TaskRecord
    <2>4. OnTick(task[i])'
      BY <1>1, <2>2, <2>3 DEF OnTick, InFlight
    <2>5. UNCHANGED <<editor, pipe, loop, text>>
      BY <1>2 DEF SemanticTokenUriLock, Elsewhere, server
    <2> QED
      BY <1>1, <2>2, <2>4, <2>5 DEF editor
  <1>3. CASE SendRequest(i)
    <2>6. PICK delta \in BOOLEAN :
             Becomes(i, [task[i] EXCEPT !.pc = IF delta THEN "delta" ELSE "full",
                                        !.text = text,
                                        !.prev = IF delta THEN semtokCache ELSE None])
      BY <1>3 DEF SendRequest
    <2>7. PICK pc, prev : /\ pc = IF delta THEN "delta" ELSE "full"
                          /\ prev = IF delta THEN semtokCache ELSE None
      OBVIOUS
    <2>1. /\ pc \in {"full", "delta"}
          /\ Becomes(i, [task[i] EXCEPT !.pc = pc, !.text = text, !.prev = prev])
      BY <2>6, <2>7
    <2>2. PICK r : r = [task[i] EXCEPT !.pc = pc, !.text = text, !.prev = prev]
      OBVIOUS
    <2>3. task' = [task EXCEPT ![i] = r] /\ r.pc = pc /\ r.text = text
      BY <1>0, <2>1, <2>2 DEF Becomes, TaskRecord
    <2>4. UNCHANGED <<editor, pipe, loop, text>> /\ task[i].pc = "waiting"
      BY <1>3 DEF SendRequest, Elsewhere, server
    <2>5. text = tick => OnTick(task[i])'
      BY <1>1, <2>1, <2>3, <2>4 DEF OnTick, InFlight, editor
    <2> QED
      BY <1>1, <2>3, <2>4, <2>5 DEF editor
  <1>4. CASE SemanticTokensFull(i) \/ SemanticTokensFullDelta(i)
    <2>1. PICK r : Moves(i, r)
      BY <1>4, Ending DEF Ended
    <2>2. task[i].pc \in InFlight
      BY <1>4 DEF SemanticTokensFull, SemanticTokensFullDelta, InFlight
    <2>3. UNCHANGED <<editor, pipe, loop, text>>
      BY <1>4 DEF SemanticTokensFull, SemanticTokensFullDelta, Elsewhere
    <2>4. /\ task' = [task EXCEPT ![i] = r]
          /\ \/ /\ r.pc = "reply" /\ r.text = task[i].text
                /\ r.reply # None => r.reply.text = task[i].text
             \/ r.pc = "full" /\ r.text = text
      BY <2>1 DEF Moves
    <2>5. text = tick /\ OnTick(task[i]) => OnTick(task[i])'
      BY <1>1, <2>2, <2>3, <2>4 DEF OnTick, InFlight, editor
    <2> QED
      BY <1>1, <2>2, <2>3, <2>4, <2>5 DEF InFlight, editor
  <1>5. CASE OnReply(i)
    <2>1. PICK r : r = [task[i] EXCEPT !.pc = "done"]
      OBVIOUS
    <2>2. task' = [task EXCEPT ![i] = r] /\ task[i].pc = "reply"
      BY <1>5, <2>1 DEF OnReply
    <2>3. r.pc = "done"
      BY <1>0, <2>1 DEF TaskRecord
    <2>4. OnTick(task[i])'
      BY <1>1, <2>2, <2>3 DEF OnTick, InFlight
    <2>5. /\ UNCHANGED <<tick, open, change, asks, pipe, loop, text>>
          /\ asked' = asked \/ asked' = None
      BY <1>5 DEF OnReply, server
    <2> QED
      BY <1>1, <2>2, <2>4, <2>5
  <1> QED
    BY <1>2, <1>3, <1>4, <1>5 DEF Task

\* The steps, by what they do to the requests on their way.
Sending(m) == /\ pipe' = Append(pipe, m) /\ m \in Message
              /\ UNCHANGED <<task, text, loop>>
Shorter == /\ pipe # <<>> /\ pipe' = Tail(pipe) /\ loop = "free"
           /\ UNCHANGED <<tick, open, change, asked, asks>>

\* Every step, by what it does to the requests on their way.
LEMMA Steps ==
  ASSUME TokenTypes, CacheGiven, DeltasGiven, [TokenNext]_tokenVars
  PROVE  \/ Type
         \/ /\ change /\ ~change' /\ Sending(<<"change", tick>>)
            /\ UNCHANGED <<tick, open, asked, asks>>
         \/ \E op \in {"full", "delta"} : AskTokens /\ Sending(<<op, asks + 1>>)
         \/ open /\ ~open' /\ Sending(<<"close", 0>>) /\ UNCHANGED <<tick, asked, asks>>
         \/ OnBufOpen /\ Sending(<<"open", tick + 1>>)
         \/ \E op \in {"full", "delta"} : SpawnTokens(op) /\ Shorter
         \/ Shorter /\ (DidOpen \/ DidChange \/ DidClose)
         \/ Closed
         \/ \E i \in Ask : Task(i) \/ OnReply(i)
         \/ UNCHANGED <<tick, open, change, asked, asks, pipe, loop, text, task>>
  <1>1. CASE ChangeTimer \/ SyncDocumentForCompletion
    <2>1. <<"change", tick>> \in Message
      BY DEF TokenTypes, Message
    <2> QED
      BY <1>1, <2>1 DEF ChangeTimer, SyncDocumentForCompletion, Sends, Sending, daemon, server
  <1>2. CASE SemanticTokens \/ TokenTimer
    <2>1. AskTokens
      BY <1>2 DEF SemanticTokens, TokenTimer
    <2>2. asks + 1 \in Ask
      BY <2>1, TokensAssumption DEF AskTokens, TokenTypes, Ask
    <2>3. <<"full", asks + 1>> \in Message /\ <<"delta", asks + 1>> \in Message
      BY <2>2 DEF Message
    <2> QED
      BY <2>1, <2>3 DEF AskTokens, Sends, Sending, daemon, server
  <1>3. CASE OnBufClose
    <2>1. <<"close", 0>> \in Message
      BY DEF Message
    <2> QED
      BY <1>3, <2>1 DEF OnBufClose, Sends, Sending, daemon, server
  <1>4. CASE OnBufOpen
    <2>1. tick + 1 \in Text
      BY <1>4, TextTypes DEF OnBufOpen, TokenTypes
    <2>2. <<"open", tick + 1>> \in Message
      BY <2>1 DEF Message
    <2> QED
      BY <1>4, <2>2 DEF OnBufOpen, Sends, Sending, daemon, server
  <1>5. ASSUME NEW op \in {"full", "delta"}, SpawnTokens(op) PROVE Shorter
    BY <1>5 DEF SpawnTokens, Takes, Shorter, editor
  <1>6. CASE DidOpen \/ DidChange \/ DidClose
    <2>1. Shorter
      BY <1>6 DEF DidOpen, DidChange, DidClose, Takes, Shorter, editor
    <2> QED
      BY <1>6, <2>1
  <1>7. CASE StoreSemtokCache \/ DropLock \/ UNCHANGED tokenVars
    BY <1>7 DEF StoreSemtokCache, DropLock, Elsewhere, tokenVars, editor, daemon, server
  <1> QED
    BY <1>1, <1>2, <1>3, <1>4, <1>5, <1>6, <1>7 DEF TokenNext, Loop

\* The first message and the rest of them.
LEMMA First ==
  ASSUME TokenTypes, Shorter
  PROVE  /\ pipe' \in Seq(Message) /\ pipe[1] \in Message
         /\ Len(pipe) \in Nat /\ Len(pipe) >= 1 /\ Len(pipe') = Len(pipe) - 1
         /\ \A k \in 1 .. Len(pipe') : pipe'[k] = pipe[k + 1]
         /\ DOMAIN pipe = 1 .. Len(pipe) /\ DOMAIN pipe' = 1 .. Len(pipe')
  <1>1. pipe \in Seq(Message) /\ pipe # <<>> /\ pipe' = Tail(pipe)
    BY DEF TokenTypes, Shorter
  <1>2. /\ pipe' \in Seq(Message) /\ Len(pipe') = Len(pipe) - 1 /\ Len(pipe) >= 1
        /\ pipe[1] \in Message /\ \A k \in 1 .. Len(pipe) - 1 : pipe'[k] = pipe[k + 1]
    BY <1>1, Taken
  <1>3. Len(pipe) \in Nat /\ DOMAIN pipe = 1 .. Len(pipe) /\ DOMAIN pipe' = 1 .. Len(pipe')
    BY <1>1, <1>2
  <1> QED
    BY <1>2, <1>3

\* The requests on their way after one more was sent.
LEMMA Longer ==
  ASSUME TokenTypes, NEW m, Sending(m)
  PROVE  /\ Len(pipe) \in Nat /\ Len(pipe') = Len(pipe) + 1 /\ m \in Message
         /\ \A k \in 1 .. Len(pipe) : pipe'[k] = pipe[k]
         /\ pipe'[Len(pipe) + 1] = m
         /\ DOMAIN pipe = 1 .. Len(pipe) /\ DOMAIN pipe' = 1 .. Len(pipe) + 1
  <1>1. pipe \in Seq(Message) /\ m \in Message /\ pipe' = Append(pipe, m)
    BY DEF TokenTypes, Sending
  <1>2. /\ pipe' \in Seq(Message) /\ Len(pipe') = Len(pipe) + 1
        /\ \A k \in 1 .. Len(pipe) : pipe'[k] = pipe[k]
        /\ pipe'[Len(pipe) + 1] = m
    BY <1>1, Appended
  <1>3. Len(pipe) \in Nat /\ DOMAIN pipe = 1 .. Len(pipe) /\ DOMAIN pipe' = 1 .. Len(pipe')
    BY <1>1, <1>2
  <1> QED
    BY <1>1, <1>2, <1>3

\* Every step keeps the requests for tokens on their way apart from each other and
\* from the tasks.
LEMMA AsksStep ==
  ASSUME TokenTypes, CacheGiven, DeltasGiven, AsksOnTheWay, [TokenNext]_tokenVars
  PROVE  AsksOnTheWay'
  <1>0. /\ pipe \in Seq(Message) /\ asks \in Nat /\ task \in [Ask -> TaskRecord]
        /\ Len(pipe) \in Nat /\ DOMAIN pipe = 1 .. Len(pipe) /\ Ask \subseteq Nat
    BY TokensAssumption DEF TokenTypes, Ask
  <1>1. \A k \in DOMAIN pipe : IsAsk(pipe[k]) => pipe[k][2] \in Ask
    BY <1>0 DEF Message, IsAsk
  <1>2. CASE UNCHANGED <<pipe, asks, task>>
    BY <1>2 DEF AsksOnTheWay
  <1>3. ASSUME NEW i \in Ask, Task(i) \/ OnReply(i) PROVE AsksOnTheWay'
    <2>1. /\ task[i].pc # "none" /\ \A j \in Ask : j # i => task'[j] = task[j]
          /\ UNCHANGED <<pipe, asks>>
      BY <1>3, Others
    <2>2. \A j \in Ask : task[j].pc = "none" => task'[j].pc = "none"
      BY <2>1
    <2> QED
      BY <1>1, <2>1, <2>2 DEF AsksOnTheWay
  <1>4. ASSUME NEW m, Sending(m), ~ IsAsk(m), asks' = asks PROVE AsksOnTheWay'
    <2>1. /\ \A k \in 1 .. Len(pipe) : pipe'[k] = pipe[k]
          /\ pipe'[Len(pipe) + 1] = m /\ DOMAIN pipe' = 1 .. Len(pipe) + 1
      BY <1>4, Longer
    <2>2. \A k \in DOMAIN pipe' : IsAsk(pipe'[k]) => k \in DOMAIN pipe /\ pipe'[k] = pipe[k]
      BY <1>0, <1>4, <2>1
    <2>3. task' = task
      BY <1>4 DEF Sending
    <2> QED
      BY <1>4, <2>2, <2>3 DEF AsksOnTheWay
  <1>5. ASSUME NEW op \in {"full", "delta"}, AskTokens, Sending(<<op, asks + 1>>)
        PROVE  AsksOnTheWay'
    <2>1. PICK m : m = <<op, asks + 1>>
      OBVIOUS
    <2>2. /\ \A k \in 1 .. Len(pipe) : pipe'[k] = pipe[k]
          /\ pipe'[Len(pipe) + 1] = m /\ DOMAIN pipe' = 1 .. Len(pipe) + 1
          /\ m[2] = asks + 1 /\ m \in Message /\ IsAsk(m)
      BY <1>5, <2>1, Longer DEF IsAsk
    <2>3. task' = task /\ asks' = asks + 1
      BY <1>5 DEF Sending, AskTokens
    <2>4. asks + 1 \in Ask
      BY <2>2 DEF Message, IsAsk
    <2>5. \A k \in DOMAIN pipe' : \/ k \in DOMAIN pipe /\ pipe'[k] = pipe[k]
                                  \/ k = Len(pipe) + 1 /\ pipe'[k] = m
      BY <1>0, <2>2
    <2>6. \A k \in DOMAIN pipe' : IsAsk(pipe'[k]) => /\ pipe'[k][2] <= asks'
                                                    /\ task'[pipe'[k][2]].pc = "none"
      <3> SUFFICES ASSUME NEW k \in DOMAIN pipe', IsAsk(pipe'[k])
                   PROVE  pipe'[k][2] <= asks' /\ task'[pipe'[k][2]].pc = "none"
        OBVIOUS
      <3>1. CASE k \in DOMAIN pipe /\ pipe'[k] = pipe[k]
        <4>1. /\ pipe[k][2] <= asks /\ task[pipe[k][2]].pc = "none"
              /\ pipe[k][2] \in Ask
          BY <1>1, <3>1 DEF AsksOnTheWay
        <4>2. PICK a \in Nat : a = pipe[k][2] /\ a <= asks
          BY <1>0, <4>1
        <4>3. a <= asks + 1
          BY <1>0, <4>2
        <4> QED
          BY <2>3, <3>1, <4>1, <4>2, <4>3
      <3>2. CASE pipe'[k] = m
        <4>1. task[asks + 1].pc = "none"
          BY <1>0, <2>4 DEF AsksOnTheWay
        <4> QED
          BY <1>0, <2>2, <2>3, <3>2, <4>1
      <3> QED
        BY <2>5, <3>1, <3>2
    <2>7. ASSUME NEW j \in DOMAIN pipe', NEW k \in DOMAIN pipe',
                 IsAsk(pipe'[j]), IsAsk(pipe'[k]), pipe'[j][2] = pipe'[k][2]
          PROVE  j = k
      <3>1. \A l \in DOMAIN pipe : IsAsk(pipe[l]) => pipe[l][2] <= asks /\ pipe[l][2] \in Nat
        BY <1>0, <1>1 DEF AsksOnTheWay
      <3>2. \A l \in DOMAIN pipe : IsAsk(pipe[l]) => pipe[l][2] # m[2]
        BY <1>0, <2>2, <3>1
      <3> QED
        BY <2>5, <2>7, <3>2 DEF AsksOnTheWay
    <2>8. \A i \in Ask : i > asks' => task'[i].pc = "none"
      BY <1>0, <2>3 DEF AsksOnTheWay
    <2> QED
      BY <2>6, <2>7, <2>8 DEF AsksOnTheWay
  <1>6. ASSUME Shorter,
               \A j \in Ask : task'[j] = task[j] \/ (IsAsk(pipe[1]) /\ j = pipe[1][2])
        PROVE  AsksOnTheWay'
    <2>1. /\ Len(pipe) >= 1 /\ Len(pipe') = Len(pipe) - 1
          /\ \A k \in 1 .. Len(pipe') : pipe'[k] = pipe[k + 1]
          /\ DOMAIN pipe' = 1 .. Len(pipe')
      BY <1>6, First
    <2>2. asks' = asks
      BY <1>6 DEF Shorter
    <2>3. \A k \in DOMAIN pipe' :
             k + 1 \in DOMAIN pipe /\ k + 1 # 1 /\ 1 \in DOMAIN pipe /\ pipe'[k] = pipe[k + 1]
      BY <1>0, <2>1
    <2>4. ASSUME NEW k \in DOMAIN pipe', IsAsk(pipe'[k])
          PROVE  pipe'[k][2] <= asks' /\ task'[pipe'[k][2]].pc = "none"
      <3>1. PICK l \in DOMAIN pipe : l = k + 1 /\ l # 1 /\ pipe'[k] = pipe[l] /\ 1 \in DOMAIN pipe
        BY <2>3
      <3>2. /\ pipe[l][2] <= asks /\ task[pipe[l][2]].pc = "none" /\ pipe[l][2] \in Ask
        BY <1>1, <2>4, <3>1 DEF AsksOnTheWay
      <3>3. ~ (IsAsk(pipe[1]) /\ pipe[l][2] = pipe[1][2])
        BY <2>4, <3>1 DEF AsksOnTheWay
      <3> QED
        BY <1>6, <2>2, <3>1, <3>2, <3>3
    <2>5. ASSUME NEW j \in DOMAIN pipe', NEW k \in DOMAIN pipe',
                 IsAsk(pipe'[j]), IsAsk(pipe'[k]), pipe'[j][2] = pipe'[k][2]
          PROVE  j = k
      <3>1. j + 1 = k + 1
        BY <2>3, <2>5 DEF AsksOnTheWay
      <3>2. j \in Nat /\ k \in Nat
        BY <1>0, <2>1
      <3> QED
        BY <3>1, <3>2
    <2>6. \A i \in Ask : i > asks' => task'[i].pc = "none"
      <3> SUFFICES ASSUME NEW i \in Ask, i > asks PROVE task'[i].pc = "none"
        BY <2>2
      <3>1. task[i].pc = "none"
        BY DEF AsksOnTheWay
      <3>2. ~ (IsAsk(pipe[1]) /\ i = pipe[1][2])
        <4>1. 1 \in DOMAIN pipe
          BY <1>0, <2>1
        <4>2. IsAsk(pipe[1]) => pipe[1][2] <= asks /\ pipe[1][2] \in Nat
          BY <1>0, <1>1, <4>1 DEF AsksOnTheWay
        <4> QED
          BY <1>0, <4>2
      <3> QED
        BY <1>6, <3>1, <3>2
    <2> QED
      BY <2>4, <2>5, <2>6 DEF AsksOnTheWay
  <1>7. ASSUME NEW op \in {"full", "delta"}, SpawnTokens(op), Shorter PROVE AsksOnTheWay'
    <2>1. pipe[1][1] = op /\ IsAsk(pipe[1])
      BY <1>7 DEF SpawnTokens, Takes, IsAsk
    <2>2. PICK r, i : i = pipe[1][2] /\ task' = [task EXCEPT ![i] = r]
      BY <1>7 DEF SpawnTokens
    <2>3. \A j \in Ask : task'[j] = task[j] \/ j = i
      BY <1>0, <2>2
    <2> QED
      BY <1>6, <1>7, <2>1, <2>2, <2>3
  <1>8. CASE Shorter /\ (DidOpen \/ DidChange \/ DidClose)
    <2>1. task' = task
      BY <1>8 DEF DidOpen, DidChange, DidClose, daemon
    <2> QED
      BY <1>6, <1>8, <2>1
  <1>9. CASE Type \/ Closed
    BY <1>2, <1>9 DEF Type, Closed, daemon, server, editor
  <1>10. /\ ~ IsAsk(<<"change", tick>>) /\ ~ IsAsk(<<"close", 0>>)
         /\ ~ IsAsk(<<"open", tick + 1>>)
    BY DEF IsAsk
  <1>11. OnBufOpen => asks' = asks
    BY DEF OnBufOpen
  <1> QED
    BY <1>2, <1>3, <1>4, <1>5, <1>7, <1>8, <1>9, <1>10, <1>11, Steps

-----------------------------------------------------------------------------
(* The texts that the server will have.                                    *)

Runs(h) ==
  /\ h \in [0 .. Len(pipe) -> Texts]
  /\ h[0] = IF loop = "closing" THEN None ELSE text
  /\ \A k \in 1 .. Len(pipe) : h[k] = After(h[k - 1], pipe[k])
Ahead(h) == \E k \in 1 .. Len(pipe) : /\ AsksFor(pipe[k], asked.id)
                                      /\ \A j \in k .. Len(pipe) : h[j] = tick
Under(h) == (\A j \in 0 .. Len(pipe) : h[j] = tick) /\ OnTick(task[asked.id])

\* Follows, and Follows after a step, by its parts.
LEMMA FollowsIs ==
  ASSUME NEW h
  PROVE  /\ Follows(h) <=> /\ Runs(h)
                           /\ open => h[Len(pipe)] # None
                           /\ open /\ ~change => h[Len(pipe)] = tick
                           /\ Awaited => ~change /\ (Ahead(h) \/ Under(h))
         /\ Follows(h)' <=> /\ Runs(h)'
                            /\ open' => h[Len(pipe')] # None
                            /\ open' /\ ~change' => h[Len(pipe')] = tick'
                            /\ Awaited' => ~change' /\ (Ahead(h)' \/ Under(h)')
  BY DEF Follows, Runs, Ahead, Under

\* What a message makes of the text.
LEMMA AfterTyped ==
  ASSUME NEW t \in Texts, NEW m \in Message
  PROVE  /\ After(t, m) \in Texts
         /\ IsAsk(m) => After(t, m) = t
         /\ m[1] = "change" => After(t, m) = IF t = None THEN None ELSE m[2]
         /\ m[1] = "open" => After(t, m) = m[2]
         /\ m[1] = "close" => After(t, m) = None
  BY DEF After, Message, IsAsk, Texts

\* A message more.
LEMMA OneMore ==
  ASSUME TokenTypes, NEW h, Runs(h), NEW m, Sending(m)
  PROVE  \E g : /\ Runs(g)' /\ \A k \in 0 .. Len(pipe) : g[k] = h[k]
                /\ g[Len(pipe')] = After(h[Len(pipe)], m)
                /\ h[Len(pipe)] \in Texts
  <1>1. PICK n \in Nat : n = Len(pipe)
    BY DEF TokenTypes
  <1>2. /\ Len(pipe') = n + 1 /\ \A k \in 1 .. n : pipe'[k] = pipe[k]
        /\ pipe'[n + 1] = m /\ m \in Message
    BY <1>1, Longer
  <1>3. /\ h \in [0 .. n -> Texts] /\ h[0] = IF loop = "closing" THEN None ELSE text
        /\ \A k \in 1 .. n : h[k] = After(h[k - 1], pipe[k])
    BY <1>1 DEF Runs
  <1> DEFINE g == [k \in 0 .. n + 1 |-> IF k <= n THEN h[k] ELSE After(h[n], m)]
  <1>4. h[n] \in Texts /\ After(h[n], m) \in Texts
    BY <1>2, <1>3, AfterTyped
  <1>5. g \in [0 .. n + 1 -> Texts]
    BY <1>3, <1>4
  <1>6. /\ \A k \in 0 .. n : g[k] = h[k]
        /\ g[n + 1] = After(h[n], m)
    OBVIOUS
  <1> HIDE DEF g
  <1>7. g[0] = IF loop' = "closing" THEN None ELSE text'
    BY <1>3, <1>6 DEF Sending
  <1>8. \A k \in 1 .. n + 1 : g[k] = After(g[k - 1], pipe'[k])
    <2> SUFFICES ASSUME NEW k \in 1 .. n + 1 PROVE g[k] = After(g[k - 1], pipe'[k])
      OBVIOUS
    <2>1. k - 1 \in 0 .. n /\ (k \in 1 .. n \/ k = n + 1)
      OBVIOUS
    <2>2. CASE k \in 1 .. n
      <3>1. k \in 0 .. n
        BY <2>2
      <3> QED
        BY <1>2, <1>3, <1>6, <2>1, <2>2, <3>1
    <2>3. CASE k = n + 1
      <3>1. k - 1 = n
        BY <2>3
      <3> QED
        BY <1>2, <1>6, <2>1, <2>3, <3>1
    <2> QED
      BY <2>1, <2>2, <2>3
  <1>9. Runs(g)'
    BY <1>2, <1>5, <1>7, <1>8 DEF Runs
  <1> QED
    BY <1>1, <1>2, <1>4, <1>6, <1>9

\* A message less, whose effect the server has now.
LEMMA OneLess ==
  ASSUME TokenTypes, NEW h, Runs(h), Shorter,
         (IF loop' = "closing" THEN None ELSE text') = After(text, pipe[1])
  PROVE  \E g : /\ Runs(g)' /\ \A k \in 0 .. Len(pipe') : g[k] = h[k + 1]
                /\ h[0] = text /\ h[1] = After(text, pipe[1])
  <1>1. PICK n \in Nat : n = Len(pipe')
    <2>1. Len(pipe) \in Nat /\ Len(pipe) >= 1 /\ Len(pipe') = Len(pipe) - 1
      BY First
    <2>2. Len(pipe') \in Nat
      BY <2>1
    <2> QED
      BY <2>2
  <1>2. /\ Len(pipe) = n + 1 /\ \A k \in 1 .. n : pipe'[k] = pipe[k + 1]
    BY <1>1, First
  <1>3. /\ h \in [0 .. n + 1 -> Texts] /\ h[0] = text
        /\ \A k \in 1 .. n + 1 : h[k] = After(h[k - 1], pipe[k])
    BY <1>2 DEF Runs, Shorter
  <1> DEFINE g == [k \in 0 .. n |-> h[k + 1]]
  <1>4. g \in [0 .. n -> Texts]
    BY <1>3
  <1>5. \A k \in 0 .. n : g[k] = h[k + 1]
    OBVIOUS
  <1> HIDE DEF g
  <1>6. h[1] = After(text, pipe[1])
    <2>1. 1 \in 1 .. n + 1
      OBVIOUS
    <2>2. h[1] = After(h[1 - 1], pipe[1])
      BY <1>3, <2>1
    <2> QED
      BY <1>3, <2>2
  <1>7. g[0] = IF loop' = "closing" THEN None ELSE text'
    BY <1>5, <1>6
  <1>8. \A k \in 1 .. n : g[k] = After(g[k - 1], pipe'[k])
    <2> SUFFICES ASSUME NEW k \in 1 .. n PROVE g[k] = After(g[k - 1], pipe'[k])
      OBVIOUS
    <2>1. PICK l \in 1 .. n + 1 : l = k + 1
      OBVIOUS
    <2>2. k \in 0 .. n /\ k - 1 \in 0 .. n /\ (k - 1) + 1 = k /\ l - 1 = k
      BY <2>1
    <2>3. g[k] = h[l] /\ g[k - 1] = h[k] /\ pipe'[k] = pipe[l]
      BY <1>2, <1>5, <2>1, <2>2
    <2>4. h[l] = After(h[l - 1], pipe[l])
      BY <1>3
    <2> QED
      BY <2>2, <2>3, <2>4
  <1>9. Runs(g)'
    BY <1>1, <1>4, <1>7, <1>8 DEF Runs
  <1> QED
    BY <1>1, <1>3, <1>5, <1>6, <1>9

\* Taking the first message keeps the texts, when what it does to them is what was
\* said of it.
LEMMA Shifted ==
  ASSUME TokenTypes, NEW h, Follows(h), Shorter,
         (IF loop' = "closing" THEN None ELSE text') = After(text, pipe[1]),
         Awaited => /\ AsksFor(pipe[1], asked.id) => OnTick(task[asked.id])'
                    /\ OnTick(task[asked.id]) => OnTick(task[asked.id])'
  PROVE  TextsFollow'
  <1>1. /\ Runs(h) /\ (open => h[Len(pipe)] # None)
        /\ (open /\ ~change => h[Len(pipe)] = tick)
        /\ Awaited => ~change /\ (Ahead(h) \/ Under(h))
    BY FollowsIs
  <1>2. PICK g : Runs(g)' /\ \A k \in 0 .. Len(pipe') : g[k] = h[k + 1]
    BY <1>1, OneLess
  <1>3. UNCHANGED <<tick, open, change, asked>>
    BY DEF Shorter
  <1>4. PICK n \in Nat :
           /\ n = Len(pipe') /\ Len(pipe) = n + 1
           /\ \A k \in 1 .. n : pipe'[k] = pipe[k + 1]
    <2>1. Len(pipe) \in Nat /\ Len(pipe) >= 1 /\ Len(pipe') = Len(pipe) - 1
      BY First
    <2>2. Len(pipe') \in Nat
      BY <2>1
    <2> QED
      BY <2>1, <2>2, First
  <1>5. g[n] = h[n + 1]
    BY <1>2, <1>4
  <1>6. ASSUME Awaited' PROVE ~change' /\ (Ahead(g)' \/ Under(g)')
    <2>1. Awaited /\ ~change
      BY <1>1, <1>3, <1>6 DEF Awaited
    <2>2. CASE Under(h)
      <3>1. \A j \in 0 .. n : g[j] = tick
        <4> SUFFICES ASSUME NEW j \in 0 .. n PROVE g[j] = tick
          OBVIOUS
        <4>1. j + 1 \in 0 .. n + 1
          OBVIOUS
        <4> QED
          BY <1>2, <1>4, <2>2, <4>1 DEF Under
      <3>2. OnTick(task[asked.id])'
        BY <2>1, <2>2 DEF Under
      <3> QED
        BY <1>3, <1>4, <2>1, <3>1, <3>2 DEF Under
    <2>3. ASSUME NEW k \in 1 .. n + 1, AsksFor(pipe[k], asked.id),
                 \A j \in k .. n + 1 : h[j] = tick
          PROVE  Ahead(g)' \/ Under(g)'
      <3>1. CASE k = 1
        <4>1. OnTick(task[asked.id])'
          BY <2>1, <2>3, <3>1
        <4>2. \A j \in 0 .. n : g[j] = tick
          <5> SUFFICES ASSUME NEW j \in 0 .. n PROVE g[j] = tick
            OBVIOUS
          <5>1. j + 1 \in k .. n + 1
            BY <3>1
          <5> QED
            BY <1>2, <1>4, <2>3, <5>1
        <4> QED
          BY <1>3, <1>4, <4>1, <4>2 DEF Under
      <3>2. CASE k # 1
        <4>1. PICK l \in 1 .. n : k = l + 1
          <5>1. k - 1 \in 1 .. n /\ k = (k - 1) + 1
            BY <3>2
          <5> QED
            BY <5>1
        <4>2. AsksFor(pipe'[l], asked'.id)
          BY <1>3, <1>4, <2>3, <4>1
        <4>3. \A j \in l .. n : g[j] = tick'
          <5> SUFFICES ASSUME NEW j \in l .. n PROVE g[j] = tick
            BY <1>3
          <5>1. j + 1 \in k .. n + 1 /\ j \in 0 .. n
            BY <4>1
          <5> QED
            BY <1>2, <1>4, <2>3, <5>1
        <4> QED
          BY <1>4, <4>2, <4>3 DEF Ahead
      <3> QED
        BY <3>1, <3>2
    <2> QED
      BY <1>1, <1>3, <1>4, <2>1, <2>2, <2>3 DEF Ahead
  <1>7. Follows(g)'
    <2>1. /\ open' => g[Len(pipe')] # None
          /\ open' /\ ~change' => g[Len(pipe')] = tick'
      BY <1>1, <1>3, <1>4, <1>5
    <2> QED
      BY <1>2, <1>6, <2>1, FollowsIs
  <1> QED
    BY <1>7 DEF TextsFollow

\* Every step keeps the texts.
LEMMA TextsStep ==
  ASSUME TokenTypes, AskedTypes, CacheGiven, DeltasGiven, TextsFollow, [TokenNext]_tokenVars
  PROVE  TextsFollow'
  <1>1. PICK h : Follows(h)
    BY DEF TextsFollow
  <1>2. /\ Runs(h) /\ (open => h[Len(pipe)] # None)
        /\ (open /\ ~change => h[Len(pipe)] = tick)
        /\ Awaited => ~change /\ (Ahead(h) \/ Under(h))
    BY <1>1, FollowsIs
  <1>3. /\ tick \in Text /\ Text \subseteq Nat /\ None \notin Text /\ asks \in Nat
        /\ task \in [Ask -> TaskRecord] /\ Len(pipe) \in Nat
    BY TextTypes DEF TokenTypes
  <1>4. asked # None => asked.tick \in Nat /\ asked.tick <= tick /\ asked.id \in Ask
    BY <1>3 DEF TokenTypes, AskedTypes
  \* The text changes: what is asked for is of an older one.
  <1>5. ASSUME tick' = tick + 1, asked' = asked PROVE ~ Awaited'
    <2>1. asked # None => asked.tick # tick + 1
      BY <1>3, <1>4
    <2> QED
      BY <1>5, <2>1 DEF Awaited
  <1>6. CASE Type
    <2>1. /\ tick' = tick + 1 /\ change' /\ UNCHANGED <<open, pipe, loop, text, asked>>
      BY <1>6 DEF Type, daemon, server
    <2>2. Runs(h)'
      BY <1>2, <2>1 DEF Runs
    <2>3. ~ Awaited'
      BY <1>5, <2>1
    <2>4. Follows(h)'
      BY <1>2, <2>1, <2>2, <2>3, FollowsIs
    <2> QED
      BY <2>4 DEF TextsFollow
  <1>7. CASE /\ change /\ ~change' /\ Sending(<<"change", tick>>)
             /\ UNCHANGED <<tick, open, asked, asks>>
    <2>1. PICK m : m = <<"change", tick>>
      OBVIOUS
    <2>2. Sending(m) /\ m \in Message /\ m[1] = "change" /\ m[2] = tick
      BY <1>7, <2>1, Longer
    <2>3. PICK g : Runs(g)' /\ g[Len(pipe')] = After(h[Len(pipe)], m) /\ h[Len(pipe)] \in Texts
      BY <1>2, <2>2, OneMore
    <2>4. After(h[Len(pipe)], m) = IF h[Len(pipe)] = None THEN None ELSE tick
      BY <2>2, <2>3, AfterTyped
    <2>5. ~ Awaited'
      BY <1>2, <1>7 DEF Awaited
    <2>6. open => g[Len(pipe')] = tick
      BY <1>2, <2>3, <2>4
    <2>7. Follows(g)'
      BY <1>3, <1>7, <2>3, <2>5, <2>6, FollowsIs
    <2> QED
      BY <2>7 DEF TextsFollow
  <1>8. ASSUME NEW op \in {"full", "delta"}, AskTokens, Sending(<<op, asks + 1>>)
        PROVE  TextsFollow'
    <2>1. PICK m : m = <<op, asks + 1>>
      OBVIOUS
    <2>2. Sending(m) /\ m \in Message /\ IsAsk(m) /\ m[2] = asks + 1
      BY <1>8, <2>1, Longer DEF IsAsk
    <2>3. PICK g : Runs(g)' /\ g[Len(pipe')] = After(h[Len(pipe)], m) /\ h[Len(pipe)] \in Texts
      BY <1>2, <2>2, OneMore
    <2>4. g[Len(pipe')] = h[Len(pipe)]
      BY <2>2, <2>3, AfterTyped
    <2>5. /\ UNCHANGED <<tick, open, change>> /\ open
          /\ asked' = [id |-> asks + 1, tick |-> tick, behind |-> change]
      BY <1>8 DEF AskTokens
    <2>6. asked'.id = asks + 1 /\ asked'.behind = change
      BY <2>5
    <2>7. ASSUME Awaited' PROVE ~change' /\ Ahead(g)'
      <3>1. ~change
        BY <2>6, <2>7 DEF Awaited
      <3>2. g[Len(pipe')] = tick'
        BY <1>2, <2>4, <2>5, <3>1
      <3>3. PICK n \in Nat : n = Len(pipe') /\ n \in 1 .. n /\ pipe'[n] = m
        <4>1. Len(pipe') = Len(pipe) + 1 /\ pipe'[Len(pipe) + 1] = m
          BY <2>2, Longer
        <4> QED
          BY <1>3, <4>1
      <3>4. AsksFor(pipe'[n], asked'.id)
        BY <2>2, <2>6, <3>3 DEF AsksFor
      <3>5. \A j \in n .. n : g[j] = tick'
        BY <3>2, <3>3
      <3> QED
        BY <2>5, <3>1, <3>3, <3>4, <3>5 DEF Ahead
    <2>8. Follows(g)'
      BY <1>2, <2>3, <2>4, <2>5, <2>7, FollowsIs
    <2> QED
      BY <2>8 DEF TextsFollow
  <1>9. CASE open /\ ~open' /\ Sending(<<"close", 0>>)
    <2>1. PICK m : m = <<"close", 0>>
      OBVIOUS
    <2>2. PICK g : Runs(g)'
      BY <1>2, <1>9, <2>1, OneMore
    <2>3. Follows(g)'
      BY <1>9, <2>2, FollowsIs DEF Awaited
    <2> QED
      BY <2>3 DEF TextsFollow
  <1>10. CASE OnBufOpen /\ Sending(<<"open", tick + 1>>)
    <2>1. PICK m : m = <<"open", tick + 1>>
      OBVIOUS
    <2>2. Sending(m) /\ m \in Message /\ m[1] = "open" /\ m[2] = tick + 1
      BY <1>10, <2>1, Longer
    <2>3. PICK g : Runs(g)' /\ g[Len(pipe')] = After(h[Len(pipe)], m) /\ h[Len(pipe)] \in Texts
      BY <1>2, <2>2, OneMore
    <2>4. g[Len(pipe')] = tick + 1
      BY <2>2, <2>3, AfterTyped
    <2>5. tick' = tick + 1 /\ asked' = asked /\ tick < MaxTicks
      BY <1>10 DEF OnBufOpen
    <2>6. ~ Awaited'
      BY <1>5, <2>5
    <2>7. g[Len(pipe')] # None
      BY <1>3, <2>4, <2>5, TextTypes
    <2>8. Follows(g)'
      BY <2>3, <2>4, <2>5, <2>6, <2>7, FollowsIs
    <2> QED
      BY <2>8 DEF TextsFollow
  <1>11. ASSUME NEW op \in {"full", "delta"}, SpawnTokens(op), Shorter PROVE TextsFollow'
    <2>1. pipe[1] \in Message /\ pipe[1][1] = op /\ IsAsk(pipe[1])
      BY <1>11, First DEF SpawnTokens, Takes, IsAsk
    <2>2. text' = text /\ loop' # "closing" /\ text \in Texts
      BY <1>11 DEF SpawnTokens, Shorter, server, TokenTypes
    <2>3. (IF loop' = "closing" THEN None ELSE text') = After(text, pipe[1])
      BY <2>1, <2>2, AfterTyped
    <2>4. PICK r, i : /\ i = pipe[1][2] /\ task' = [task EXCEPT ![i] = r]
                      /\ r.pc = "spawned"
      <3>1. [Idle EXCEPT !.pc = "spawned", !.op = op].pc = "spawned"
        BY DEF Idle
      <3> QED
        BY <1>11, <3>1 DEF SpawnTokens
    <2>5. \A j \in Ask : task'[j] = IF j = i THEN r ELSE task[j]
      BY <1>3, <2>4
    <2>6. tick' = tick /\ asked' = asked
      BY <1>11 DEF Shorter
    <2>7. ASSUME Awaited
          PROVE  /\ AsksFor(pipe[1], asked.id) => OnTick(task[asked.id])'
                 /\ OnTick(task[asked.id]) => OnTick(task[asked.id])'
      <3>1. asked.id \in Ask /\ asked'.id = asked.id
        BY <1>4, <2>6, <2>7 DEF Awaited
      <3>2. task'[asked.id] = IF asked.id = i THEN r ELSE task[asked.id]
        BY <2>5, <3>1
      <3>3. asked.id = i => OnTick(task[asked.id])'
        BY <2>4, <3>1, <3>2 DEF OnTick, InFlight
      <3>4. asked.id # i /\ OnTick(task[asked.id]) => OnTick(task[asked.id])'
        BY <2>6, <3>1, <3>2 DEF OnTick
      <3>5. AsksFor(pipe[1], asked.id) => asked.id = i
        BY <2>4 DEF AsksFor
      <3> QED
        BY <3>3, <3>4, <3>5
    <2> QED
      BY <1>1, <1>11, <2>3, <2>7, Shifted
  <1>12. CASE Shorter /\ (DidOpen \/ DidChange \/ DidClose)
    <2>1. pipe[1] \in Message /\ ~ IsAsk(pipe[1])
      BY <1>12, First DEF DidOpen, DidChange, DidClose, Takes, IsAsk
    <2>2. text \in Texts /\ loop = "free"
      BY <1>12 DEF Shorter, TokenTypes
    <2>6. (IF loop' = "closing" THEN None ELSE text') = After(text, pipe[1])
      <3>1. CASE DidOpen
        <4>1. pipe[1][1] = "open" /\ text' = pipe[1][2] /\ loop' = loop
          BY <3>1 DEF DidOpen, Takes, daemon
        <4> QED
          BY <2>1, <2>2, <4>1, AfterTyped
      <3>2. CASE DidChange
        <4>1. /\ pipe[1][1] = "change" /\ loop' = loop
              /\ text' = IF text = None THEN None ELSE pipe[1][2]
          BY <3>2 DEF DidChange, Takes, daemon
        <4> QED
          BY <2>1, <2>2, <4>1, AfterTyped
      <3>3. CASE DidClose
        <4>1. pipe[1][1] = "close" /\ loop' = "closing"
          BY <3>3 DEF DidClose, Takes
        <4> QED
          BY <2>1, <2>2, <4>1, AfterTyped
      <3> QED
        BY <1>12, <3>1, <3>2, <3>3
    <2>7. task' = task /\ tick' = tick /\ asked' = asked
      BY <1>12 DEF DidOpen, DidChange, DidClose, daemon, Shorter
    <2>8. ~ AsksFor(pipe[1], asked.id)
      BY <2>1 DEF AsksFor
    <2>9. OnTick(task[asked.id]) => OnTick(task[asked.id])'
      BY <2>7 DEF OnTick
    <2> QED
      BY <1>1, <1>12, <2>6, <2>8, <2>9, Shifted
  <1>13. ASSUME UNCHANGED <<tick, open, change, asked, pipe, task>>,
                (IF loop' = "closing" THEN None ELSE text')
                  = (IF loop = "closing" THEN None ELSE text)
         PROVE  TextsFollow'
    <2>1. Runs(h)'
      BY <1>2, <1>13 DEF Runs
    <2>2. Awaited' => Awaited
      BY <1>13 DEF Awaited
    <2>3. (Ahead(h) => Ahead(h)') /\ (Under(h) => Under(h)')
      BY <1>13 DEF Ahead, Under, OnTick
    <2>4. Follows(h)'
      BY <1>2, <1>13, <2>1, <2>2, <2>3, FollowsIs
    <2> QED
      BY <2>4 DEF TextsFollow
  <1>14. CASE Closed
    BY <1>13, <1>14 DEF Closed, editor
  <1>15. ASSUME NEW i \in Ask, Task(i) \/ OnReply(i) PROVE TextsFollow'
    <2>1. /\ \A j \in Ask : j # i => task'[j] = task[j]
          /\ UNCHANGED <<tick, open, change, asks, pipe, loop, text>>
          /\ asked' = asked \/ asked' = None
          /\ text = tick /\ OnTick(task[i]) => OnTick(task[i])'
      BY <1>15, Others
    <2>2. Runs(h)'
      BY <1>2, <2>1 DEF Runs
    <2>3. ASSUME Awaited' PROVE ~change' /\ (Ahead(h)' \/ Under(h)')
      <3>1. asked' = asked /\ Awaited
        BY <2>1, <2>3 DEF Awaited
      <3>2. asked.id \in Ask
        BY <1>4, <3>1 DEF Awaited
      <3>3. Ahead(h) => Ahead(h)'
        BY <2>1, <3>1 DEF Ahead
      <3>4. ASSUME Under(h) PROVE Under(h)'
        <4>1. h[0] = tick /\ OnTick(task[asked.id]) /\ \A j \in 0 .. Len(pipe) : h[j] = tick
          BY <1>3, <3>4 DEF Under
        <4>2. text = tick
          BY <1>2, <1>3, <4>1 DEF Runs
        <4>3. asked.id # i => task'[asked.id] = task[asked.id]
          BY <2>1, <3>2
        <4>4. CASE asked.id = i
          <5>1. OnTick(task[asked.id])'
            BY <2>1, <3>1, <4>1, <4>2, <4>4
          <5> QED
            BY <2>1, <3>1, <4>1, <5>1 DEF Under
        <4>5. CASE asked.id # i
          <5>1. OnTick(task[asked.id])'
            BY <2>1, <3>1, <4>1, <4>3, <4>5 DEF OnTick
          <5> QED
            BY <2>1, <3>1, <4>1, <5>1 DEF Under
        <4> QED
          BY <4>4, <4>5
      <3> QED
        BY <1>2, <2>1, <3>1, <3>3, <3>4
    <2>4. Follows(h)'
      BY <1>2, <2>1, <2>2, <2>3, FollowsIs
    <2> QED
      BY <2>4 DEF TextsFollow
  <1>16. CASE UNCHANGED <<tick, open, change, asked, asks, pipe, loop, text, task>>
    BY <1>13, <1>16
  <1> QED
    BY <1>6, <1>7, <1>8, <1>9, <1>10, <1>11, <1>12, <1>14, <1>15, <1>16, Steps

-----------------------------------------------------------------------------
(* The theorems.                                                           *)

\* The initial states satisfy the invariant.
LEMMA TokenInvInit ==
  ASSUME TokenInit
  PROVE  TokenInv
  <1> USE DEF TokenInit
  <1>1. TokenTypes
    <2>1. made \in Seq(Text) /\ pipe \in Seq(Message)
      OBVIOUS
    <2>2. task \in [Ask -> TaskRecord]
      BY IdleTyped
    <2>3. tick \in Text /\ text \in Texts /\ semtokCache \in Result
      BY TextTypes DEF Texts, Result
    <2>4. asks \in 0 .. MaxAsks /\ locks \in Nat /\ lock \in Nat
      BY TokensAssumption
    <2>5. /\ open \in BOOLEAN /\ change \in BOOLEAN /\ due \in BOOLEAN
          /\ full \in BOOLEAN /\ missed \in BOOLEAN /\ gaveUp \in BOOLEAN
          /\ asked = None /\ loop = "free"
      OBVIOUS
    <2> QED
      BY <2>1, <2>2, <2>3, <2>4, <2>5 DEF TokenTypes
  <1>2. BufferTypes /\ AskedTypes /\ LockTypes /\ CacheGiven
    BY DEF BufferTypes, AskedTypes, LockTypes, CacheGiven
  <1>3. \A i \in Ask : task[i].pc = "none"
    BY DEF Idle
  <1>4. LocksExclude /\ DeltasGiven
    BY <1>3 DEF LocksExclude, DeltasGiven, InFlight
  <1>5. AsksOnTheWay
    <2>1. DOMAIN pipe = {}
      OBVIOUS
    <2> QED
      BY <1>3, <2>1 DEF AsksOnTheWay
  <1>6. TextsFollow
    <2>1. Len(pipe) = 0
      OBVIOUS
    <2> DEFINE h == [k \in 0 .. 0 |-> 0]
    <2>2. h \in [0 .. 0 -> Texts] /\ h[0] = 0
      BY TextTypes DEF Texts
    <2> HIDE DEF h
    <2>3. Runs(h)
      BY <2>1, <2>2 DEF Runs
    <2>4. h[Len(pipe)] = tick /\ tick # None /\ ~ Awaited
      BY <2>1, <2>2, TokensAssumption DEF Awaited
    <2>5. Follows(h)
      BY <2>3, <2>4, FollowsIs
    <2> QED
      BY <2>5 DEF TextsFollow
  <1> QED
    BY <1>1, <1>2, <1>4, <1>5, <1>6 DEF TokenInv

\* Every step of the specification preserves it.
LEMMA TokenInvStep ==
  ASSUME TokenInv, [TokenNext]_tokenVars
  PROVE  TokenInv'
  <1> USE DEF TokenInv
  <1>1. TokenTypes'
    BY TypesStep
  <1>2. BufferTypes' /\ AskedTypes'
    BY BufferStep
  <1>3. LockTypes' /\ LocksExclude'
    BY LocksStep
  <1>4. CacheGiven' /\ DeltasGiven'
    BY CacheStep
  <1>5. AsksOnTheWay'
    BY AsksStep
  <1>6. TextsFollow'
    BY TextsStep
  <1> QED
    BY <1>1, <1>2, <1>3, <1>4, <1>5, <1>6

\* TokenInv is an invariant of the document, its editor, its client and its server.
THEOREM TokenInductive == TokenSpec => []TokenInv
  BY TokenInvInit, TokenInvStep, PTL DEF TokenSpec

\* In a state with the invariant every variable has its type, and no two requests
\* are with the server under one lock.
LEMMA TokenTypesOK ==
  ASSUME TokenInv
  PROVE  TokenTypeOK
  <1> USE DEF TokenInv
  <1>1. /\ tick \in Text /\ asks \in 0 .. MaxAsks
        /\ {open, change, due, full, missed, gaveUp} \subseteq BOOLEAN
        /\ loop \in {"free", "closing"}
        /\ text \in Text \union {None} /\ made \in Seq(Text)
    BY DEF TokenTypes, Texts
  <1>2. ~open => (~change /\ ~due /\ shown = None)
    BY DEF BufferTypes
  <1>3. asked = None \/ (asked.id \in 1 .. asks /\ asked.tick \in Text)
    <2>1. CASE asked # None
      <3>1. asked.id \in Ask /\ asked.tick \in Text /\ asked.id <= asks
        BY <2>1 DEF TokenTypes, AskedTypes
      <3> QED
        BY <1>1, <3>1, TokensAssumption DEF Ask
    <2> QED
      BY <2>1
  <1>4. (loop = "closing" => lock # 0) /\ lock \in 0 .. locks
    BY DEF TokenTypes, LockTypes
  <1>5. semtokCache = None \/ semtokCache.id \in 0 .. Len(made)
    BY DEF CacheGiven, Given
  <1>6. \A i \in Ask : task[i].pc \in {"none", "spawned", "waiting", "full", "delta",
                                        "reply", "done"}
    BY DEF TokenTypes, TaskRecord
  <1>7. \A i, j \in Ask :
          (i # j /\ task[i].pc \in InFlight /\ task[j].pc \in InFlight)
            => task[i].lock # task[j].lock
    BY DEF LocksExclude
  <1> QED
    BY <1>1, <1>2, <1>3, <1>4, <1>5, <1>6, <1>7 DEF TokenTypeOK

\* In a state with the invariant the cache agrees with the server.
LEMMA CachedIsGiven ==
  ASSUME TokenInv
  PROVE  CacheAgrees
  BY DEF TokenInv, CacheGiven, Given, CacheAgrees

\* Only a reply puts tokens into the buffer, and only one that counts.
LEMMA ShownByReply ==
  ASSUME [TokenNext]_tokenVars, shown' # shown, shown' # None
  PROVE  \E i \in Ask : /\ task[i].pc = "reply" /\ task[i].reply # None
                        /\ asked # None /\ asked.id = i /\ asked.tick = tick /\ open
                        /\ shown' = task[i].reply
  <1>1. PICK i \in Ask : OnReply(i)
    BY DEF TokenNext, tokenVars, editor, Type, ChangeTimer, SyncDocumentForCompletion,
           SemanticTokens, TokenTimer, AskTokens, OnBufClose, OnBufOpen, Loop, SpawnTokens,
           DidOpen, DidChange, DidClose, Closed, StoreSemtokCache, DropLock, Task,
           SemanticTokenUriLock, SendRequest, SemanticTokensFull, SemanticTokensFullDelta,
           Elsewhere
  <1> QED
    BY <1>1 DEF OnReply

\* What such a reply puts there is of the text the buffer has, unless a change was
\* still to be sent when it was asked for.
LEMMA ShownIsOfItsText ==
  ASSUME TokenInv, [TokenNext]_tokenVars, shown' # shown, shown' # None
  PROVE  /\ shown'.text = tick \/ asked.behind
         /\ shown'.data \in {<<>>, TokensOf(shown'.text)}
  <1> USE DEF TokenInv
  <1>1. PICK i \in Ask : /\ task[i].pc = "reply" /\ task[i].reply # None
                         /\ asked # None /\ asked.id = i /\ asked.tick = tick /\ open
                         /\ shown' = task[i].reply
    BY ShownByReply
  <1>2. shown'.data \in {<<>>, TokensOf(shown'.text)}
    <2>1. task[i].reply \in ReplyOrError
      BY DEF TokenTypes, TaskRecord
    <2> QED
      BY <1>1, <2>1 DEF ReplyOrError
  <1>3. CASE ~ asked.behind
    <2>1. Awaited
      BY <1>1, <1>3 DEF Awaited
    <2>2. PICK h : Follows(h)
      BY DEF TextsFollow
    <2>3. Ahead(h) \/ Under(h)
      BY <2>1, <2>2, FollowsIs
    <2>4. ~ Ahead(h)
      <3> SUFFICES ASSUME NEW k \in 1 .. Len(pipe), AsksFor(pipe[k], asked.id)
                   PROVE  FALSE
        BY DEF Ahead
      <3>1. k \in DOMAIN pipe /\ IsAsk(pipe[k]) /\ pipe[k][2] = i
        BY <1>1 DEF TokenTypes, AsksFor
      <3>2. task[i].pc = "none"
        BY <3>1 DEF AsksOnTheWay
      <3> QED
        BY <1>1, <3>2
    <2>5. OnTick(task[i])
      BY <1>1, <2>3, <2>4 DEF Under
    <2>6. shown'.text = tick
      BY <1>1, <2>5 DEF OnTick
    <2> QED
      BY <1>2, <2>6
  <1> QED
    BY <1>2, <1>3

\* The variables keep their types, and no two requests of a document are with the
\* server under the same lock (LspClient::semantic_tokens_full and
\* semantic_token_uri_lock).
THEOREM TokenTypeCorrect == TokenSpec => []TokenTypeOK
  <1>1. TokenInv => TokenTypeOK
    BY TokenTypesOK
  <1> QED
    BY <1>1, TokenInductive, PTL

\* The tokens that the client has cached are the ones the server gave out under
\* the cached id, whatever deltas led to them (semantic_tokens_full_delta,
\* apply_semantic_token_edits and store_semtok_cache against the server).
THEOREM CacheIsGiven == TokenSpec => []CacheAgrees
  <1>1. TokenInv => CacheAgrees
    BY CachedIsGiven
  <1> QED
    BY <1>1, TokenInductive, PTL

\* Tokens are put into the buffer for the text it has, except when they were asked
\* for before a pending change was sent (s_on_semantic_tokens of the editor,
\* simplecc.vim, with the order in which the daemon serves requests).
THEOREM ShownIsCurrent == TokenSpec => ShowsOnlyItsText
  <1>1. TokenInv /\ [TokenNext]_tokenVars =>
          [(shown' # shown /\ shown' # None) =>
             /\ shown'.text = tick \/ asked.behind
             /\ shown'.data \in {<<>>, TokensOf(shown'.text)}]_tokenVars
    BY ShownIsOfItsText
  <1> QED
    BY <1>1, TokenInductive, PTL DEF TokenSpec, ShowsOnlyItsText
=============================================================================
