--------------------------- MODULE SemanticTokens ---------------------------
(***************************************************************************)
(* Semantic tokens of one document: the editor's timers and its one        *)
(* outstanding request (simplecc.vim), the daemon's loop and the tasks of  *)
(* its requests, the client's cache of the last result, which the server   *)
(* may answer with a delta to, and the lock of the document, for which     *)
(* didClose waits in the loop (client.rs).                                 *)
(*                                                                         *)
(* A text is the number of edits that led to it.  The server computes      *)
(* tokens for the text it has when it receives the request.  Ranges of     *)
(* large files bypass cache and lock and are left out.                     *)
(***************************************************************************)
EXTENDS Integers, Sequences, SequencesExt, TLC

CONSTANTS MaxTicks,   \* edits of the buffer
          MaxAsks,    \* token requests of the editor
          None

ASSUME TokensAssumption == MaxTicks \in Nat /\ MaxAsks \in Nat /\ None \notin Nat

Text == 0 .. MaxTicks
Ask == 1 .. MaxAsks
Width == 5  \* integers per token on the wire

\* What the server makes of a text.
TokensOf(text) == CASE text % 3 = 0 -> <<1, 2>>
                    [] text % 3 = 1 -> <<2>>
                    [] text % 3 = 2 -> <<1, 3, 2>>

-----------------------------------------------------------------------------
(* Deltas.                                                                 *)

Edit == [start : {0, 5, 10}, delete : {0, 5, 10}, data : {<<>>, <<1>>, <<3>>, <<1, 3>>}]
        \union [start : {3, 20}, delete : {5}, data : {<<>>}]
From(e) == e.start \div Width
To(e) == From(e) + e.delete \div Width

Splice(tokens, e) == SubSeq(tokens, 1, From(e)) \o e.data
                       \o SubSeq(tokens, To(e) + 1, Len(tokens))

\* Mutant: the edits are applied in the order they came in.
ApplyEditsUnsorted(tokens, edits) ==
  FoldLeft(LAMBDA t, e : IF To(e) <= Len(t) THEN Splice(t, e) ELSE t, tokens, edits)

\* sort_by_key(Reverse(start)), a stable sort.
Before(edits, i, j) == \/ edits[i].start > edits[j].start
                       \/ edits[i].start = edits[j].start /\ i < j
Descending(edits) ==
  LET order == CHOOSE p \in Bijection(DOMAIN edits, DOMAIN edits) :
                 \A i, j \in DOMAIN edits : i < j => Before(edits, p[i], p[j])
  IN  [i \in DOMAIN edits |-> edits[order[i]]]

\* apply_semantic_token_edits: from the last to the first, all or none.
ApplyEdits(tokens, edits) ==
  LET down == Descending(edits)
      Fits(i) == /\ down[i].start % Width = 0 /\ down[i].delete % Width = 0
                 /\ To(down[i]) <= Len(tokens)
                 /\ i > 1 => To(down[i]) <= From(down[i - 1])
  IN  IF \A i \in DOMAIN down : Fits(i)
      THEN FoldLeft(Splice, tokens, down)
      ELSE None

\* What the edits mean: each of them speaks of the tokens before all of them.
Inserted(edits, p) ==
  FlattenSeq([i \in DOMAIN edits |-> IF From(edits[i]) = p THEN edits[i].data ELSE <<>>])
Gone(edits, p) == \E i \in DOMAIN edits : From(edits[i]) <= p /\ p < To(edits[i])
Place(tokens, edits, p) ==
  Inserted(edits, p - 1)
    \o (IF p > Len(tokens) \/ Gone(edits, p - 1) THEN <<>> ELSE <<tokens[p]>>)
Edited(tokens, edits) ==
  FlattenSeq([p \in 1 .. Len(tokens) + 1 |-> Place(tokens, edits, p)])

\* A server's deltas: one or two apart, in either order.
Deltas ==
  LET Clean == {e \in Edit : e.start % Width = 0}
      Two == {p \in Clean \X Clean : To(p[1]) < From(p[2]) \/ To(p[2]) < From(p[1])}
      Legal(tokens, edits) == \A i \in DOMAIN edits : To(edits[i]) <= Len(tokens)
  IN  [o \in Text |-> [n \in Text |->
         {d \in {<<e>> : e \in Clean} \union Two :
            /\ Legal(TokensOf(o), d)
            /\ Edited(TokensOf(o), d) = TokensOf(n)}]]

\* Edits that are out of place, which the client must refuse.
WrongDeltas == {<<e>> : e \in {x \in Edit : x.start \in {3, 20}}}

\* What the client makes of the deltas between two texts.
Applied == [tokens \in {TokensOf(t) : t \in Text} |-> [o \in Text |-> [n \in Text |->
              {ApplyEdits(tokens, d) : d \in Deltas[o][n] \union WrongDeltas}]]]

-----------------------------------------------------------------------------
VARIABLES
  tick, open,       \* the buffer: its text, and whether it is loaded
  change, due,      \* the timers of didChange and of the next token request
  full,             \* s_semtok_has_full: delta is asked for from now on
  asked,            \* s_semtok_requests: the request whose reply counts
  asks,             \* token requests so far
  shown,            \* the tokens in the buffer and the text they are of
  missed,           \* a change went out without its timer asking for tokens
  gaveUp,           \* the reply that counted had no tokens
  pipe,             \* requests on their way to the daemon
  loop,             \* "free", or "closing" while didClose waits for the lock
  lock, locks,      \* semtok_uri_locks: the document's lock; locks made so far
  task,             \* the tasks of the requests
  semtokCache,      \* semtok_cache: the last result and its id, 0 for none
  text, made        \* the server: its text, and what it gave out by id

editor == <<tick, open, change, due, full, asked, asks, shown, missed, gaveUp>>
daemon == <<loop, lock, locks, task, semtokCache>>
server == <<text, made>>
tokenVars == <<editor, pipe, daemon, server>>

Idle == [pc |-> "none", op |-> "full", lock |-> 0, text |-> None, prev |-> None, reply |-> None]

TokenInit ==
  /\ tick = 0 /\ open = TRUE /\ change = FALSE /\ due = TRUE
  /\ full = FALSE /\ asked = None /\ asks = 0 /\ shown = None
  /\ missed = FALSE /\ gaveUp = FALSE
  /\ pipe = <<>> /\ loop = "free" /\ lock = 0 /\ locks = 0
  /\ task = [i \in Ask |-> Idle] /\ semtokCache = None
  /\ text = 0 /\ made = <<>>

Sends(op, arg) == pipe' = Append(pipe, <<op, arg>>)

-----------------------------------------------------------------------------
(* The editor.                                                             *)

Type == /\ open /\ tick < MaxTicks
        /\ tick' = tick + 1 /\ change' = TRUE
        /\ UNCHANGED <<open, due, full, asked, asks, shown, missed, gaveUp,
                       pipe, daemon, server>>

\* Mutant: the timer only sends.
ChangeTimerQuiet == /\ change /\ change' = FALSE
                    /\ Sends("change", tick)
                    /\ UNCHANGED <<tick, open, due, full, asked, asks, shown, missed,
                                   gaveUp, daemon, server>>

\* ScheduleDidChange: its timer sends the text and schedules a token request.
ChangeTimer == /\ change /\ change' = FALSE
               /\ Sends("change", tick)
               /\ due' = TRUE
               /\ UNCHANGED <<tick, open, full, asked, asks, shown, missed, gaveUp,
                              daemon, server>>

\* Completion sends the text itself and cancels that timer.
SyncDocumentForCompletion ==
  /\ change /\ change' = FALSE
  /\ Sends("change", tick)
  /\ missed' = TRUE
  /\ UNCHANGED <<tick, open, due, full, asked, asks, shown, gaveUp,
                 daemon, server>>

\* By the timer, or as a command at any time.
AskTokens == /\ open /\ asks < MaxAsks
             /\ asks' = asks + 1
             /\ asked' = [id |-> asks', tick |-> tick, behind |-> change]
             /\ Sends(IF full THEN "delta" ELSE "full", asks')
             /\ gaveUp' = FALSE
             /\ missed' = (missed /\ change)
             /\ UNCHANGED <<tick, open, change, full, shown, daemon, server>>

SemanticTokens == AskTokens /\ UNCHANGED due
TokenTimer == due /\ AskTokens /\ due' = FALSE

\* Mutant: the text may have changed since.
OnReplyAnyTick(i) ==
  LET got == task[i].reply
      counts == asked # None /\ asked.id = i
      fresh == counts /\ got # None
  IN  /\ task[i].pc = "reply"
      /\ task' = [task EXCEPT ![i].pc = "done"]
      /\ asked' = IF counts THEN None ELSE asked
      /\ gaveUp' = IF counts THEN ~fresh ELSE gaveUp
      /\ shown' = IF fresh /\ open THEN got ELSE shown
      /\ full' = (full \/ fresh)
      /\ UNCHANGED <<tick, open, change, due, asks, missed,
                     pipe, loop, lock, locks, semtokCache, server>>

\* The replies that count are those to the last request.  An error changes
\* nothing.  The buffer may be unloaded, or gone.
OnReply(i) ==
  LET got == task[i].reply
      counts == asked # None /\ asked.id = i
      fresh == counts /\ got # None /\ asked.tick = tick
  IN  /\ task[i].pc = "reply"
      /\ task' = [task EXCEPT ![i].pc = "done"]
      /\ asked' = IF counts /\ got # None THEN None ELSE asked
      /\ gaveUp' = IF counts THEN got = None \/ got.data = <<>> ELSE gaveUp
      /\ shown' = IF fresh /\ open THEN got ELSE shown
      /\ \/ full' = (full \/ fresh)
         \/ ~open /\ full' = full
      /\ UNCHANGED <<tick, open, change, due, asks, missed,
                     pipe, loop, lock, locks, semtokCache, server>>

\* Unloading takes the tokens and the pending timers with it.
OnBufClose == /\ open /\ open' = FALSE
              /\ Sends("close", 0)
              /\ full' = FALSE /\ change' = FALSE /\ due' = FALSE /\ shown' = None
              /\ UNCHANGED <<tick, asked, asks, missed, gaveUp, daemon, server>>

\* Loading counts as an edit.
OnBufOpen == /\ ~open /\ tick < MaxTicks
             /\ open' = TRUE /\ tick' = tick + 1 /\ due' = TRUE
             /\ Sends("open", tick')
             /\ UNCHANGED <<change, full, asked, asks, shown, missed, gaveUp,
                            daemon, server>>

-----------------------------------------------------------------------------
(* The loop of the daemon.                                                 *)

Takes(op) == /\ loop = "free" /\ pipe # <<>> /\ pipe[1][1] = op
             /\ pipe' = Tail(pipe)

\* Requests run as tasks.
SpawnTokens(op) ==
  /\ Takes(op)
  /\ task' = [task EXCEPT ![pipe[1][2]] = [Idle EXCEPT !.pc = "spawned", !.op = op]]
  /\ UNCHANGED <<editor, loop, lock, locks, semtokCache, server>>

DidOpen == /\ Takes("open") /\ text' = pipe[1][2]
           /\ UNCHANGED <<editor, daemon, made>>

DidChange == /\ Takes("change")
             /\ text' = IF text = None THEN None ELSE pipe[1][2]
             /\ UNCHANGED <<editor, daemon, made>>

\* The lock of the document, made when it is not there.
Lock == IF lock = 0 THEN locks + 1 ELSE lock
GetsLock == lock' = Lock /\ locks' = IF lock = 0 THEN locks + 1 ELSE locks

InFlight == {"full", "delta"}
Held(l) == \E i \in Ask : task[i].lock = l /\ task[i].pc \in InFlight

DidClose == /\ Takes("close")
            /\ GetsLock /\ loop' = "closing"
            /\ UNCHANGED <<editor, task, semtokCache, server>>

\* The lock is dropped with the cache, whoever still waits for it.
Closed == /\ loop = "closing" /\ ~Held(lock)
          /\ semtokCache' = None /\ lock' = 0 /\ text' = None
          /\ loop' = "free"
          /\ UNCHANGED <<editor, pipe, locks, task, made>>

-----------------------------------------------------------------------------
(* Token requests in the client.                                           *)

Becomes(i, t) == task' = [task EXCEPT ![i] = t]
Elsewhere == UNCHANGED <<editor, pipe, loop>>

SemanticTokenUriLock(i) ==
  /\ task[i].pc = "spawned"
  /\ GetsLock
  /\ Becomes(i, [task[i] EXCEPT !.pc = "waiting", !.lock = Lock])
  /\ Elsewhere /\ UNCHANGED <<semtokCache, server>>

\* Mutant: nobody waits for the lock.
SendRequestUnlocked(i) ==
  /\ task[i].pc = "waiting"
  /\ Becomes(i, [task[i] EXCEPT !.pc = "full", !.text = text])
  /\ Elsewhere /\ UNCHANGED <<lock, locks, semtokCache, server>>

\* With the lock: a delta to the cached result, if it has an id, or everything.
SendRequest(i) ==
  /\ task[i].pc = "waiting" /\ ~Held(task[i].lock)
  /\ LET delta == task[i].op = "delta" /\ semtokCache # None /\ semtokCache.id # 0
     IN  Becomes(i, [task[i] EXCEPT !.pc = IF delta THEN "delta" ELSE "full",
                                    !.text = text,
                                    !.prev = IF delta THEN semtokCache ELSE None])
  /\ Elsewhere /\ UNCHANGED <<lock, locks, semtokCache, server>>

Answers(i, data) ==
  Becomes(i, [task[i] EXCEPT !.pc = "reply",
                             !.reply = [data |-> data, text |-> task[i].text]])
Fails(i) == Becomes(i, [task[i] EXCEPT !.pc = "reply", !.reply = None])

\* The result gets an id if the server wants to be asked for deltas to it.
Stored(data, textOf) ==
  \/ /\ made' = Append(made, textOf)
     /\ semtokCache' = [id |-> Len(made'), data |-> data]
  \/ /\ semtokCache' = [id |-> 0, data |-> data] /\ UNCHANGED made

\* An answer of the server to a request for everything: tokens, null, an error,
\* or nothing until the deadline.
FullTokens(i) ==
  /\ task[i].text # None
  /\ Stored(TokensOf(task[i].text), task[i].text)
  /\ Answers(i, TokensOf(task[i].text))

NullTokens(i) == Answers(i, <<>>) /\ semtokCache' = None /\ UNCHANGED made
NoTokens(i) == Fails(i) /\ UNCHANGED <<semtokCache, made>>

SemanticTokensFull(i) ==
  /\ task[i].pc = "full"
  /\ FullTokens(i) \/ NullTokens(i) \/ NoTokens(i)
  /\ Elsewhere /\ UNCHANGED <<lock, locks, text>>

\* Whatever cannot be used makes the client ask for everything, on the text
\* that the server has by then.
FallBack(i) ==
  /\ semtokCache' = None /\ UNCHANGED made
  /\ Becomes(i, [task[i] EXCEPT !.pc = "full", !.text = text, !.prev = None])

\* The server remembers what it gave out last.
DeltaTokens(i) ==
  /\ task[i].text # None /\ task[i].prev.id = Len(made)
  /\ \E new \in Applied[task[i].prev.data][made[task[i].prev.id]][task[i].text] :
       IF new = None THEN FallBack(i)
       ELSE Stored(new, task[i].text) /\ Answers(i, new)

SemanticTokensFullDelta(i) ==
  /\ task[i].pc = "delta"
  /\ FullTokens(i) \/ DeltaTokens(i) \/ NullTokens(i) \/ FallBack(i)
  /\ Elsewhere /\ UNCHANGED <<lock, locks, text>>

\* Other documents push this one out of the cache, and drop its unused lock.
StoreSemtokCache == /\ semtokCache # None /\ semtokCache' = None
                    /\ Elsewhere /\ UNCHANGED <<lock, locks, task, server>>

DropLock == /\ lock # 0 /\ loop = "free"
            /\ \A i \in Ask : task[i].lock = lock => task[i].pc \in {"reply", "done"}
            /\ lock' = 0
            /\ Elsewhere /\ UNCHANGED <<locks, task, semtokCache, server>>

-----------------------------------------------------------------------------
Loop == \/ \E op \in {"full", "delta"} : SpawnTokens(op)
        \/ DidOpen \/ DidChange \/ DidClose \/ Closed

Task(i) == \/ SemanticTokenUriLock(i) \/ SendRequest(i)
           \/ SemanticTokensFull(i) \/ SemanticTokensFullDelta(i)

TokenNext ==
  \/ Type \/ ChangeTimer \/ SyncDocumentForCompletion
  \/ SemanticTokens \/ TokenTimer \/ OnBufClose \/ OnBufOpen
  \/ Loop \/ StoreSemtokCache \/ DropLock
  \/ \E i \in Ask : Task(i) \/ OnReply(i)

TokenSpec == TokenInit /\ [][TokenNext]_tokenVars

\* Timers fire, the loop and its tasks run, requests end by an answer or their
\* deadline, and Vim handles what it is sent.
FairSpec == /\ TokenSpec
            /\ WF_tokenVars(ChangeTimer) /\ WF_tokenVars(TokenTimer) /\ WF_tokenVars(Loop)
            /\ \A i \in Ask : WF_tokenVars(Task(i)) /\ WF_tokenVars(OnReply(i))

-----------------------------------------------------------------------------
\* Every variable has its type, and no two requests of a document are with the
\* server under the same lock.
TokenTypeOK ==
  /\ tick \in Text /\ asks \in 0 .. MaxAsks
  /\ {open, change, due, full, missed, gaveUp} \subseteq BOOLEAN
  /\ ~open => (~change /\ ~due /\ shown = None)
  /\ asked = None \/ (asked.id \in 1 .. asks /\ asked.tick \in Text)
  /\ loop \in {"free", "closing"} /\ (loop = "closing" => lock # 0)
  /\ lock \in 0 .. locks
  /\ text \in Text \union {None} /\ made \in Seq(Text)
  /\ semtokCache = None \/ semtokCache.id \in 0 .. Len(made)
  /\ \A i \in Ask : task[i].pc \in {"none", "spawned", "waiting", "full", "delta",
                                     "reply", "done"}
  /\ \A i, j \in Ask :
       (i # j /\ task[i].pc \in InFlight /\ task[j].pc \in InFlight)
         => task[i].lock # task[j].lock

\* The cached tokens are the ones that the server gave out under the cached id,
\* whatever chain of deltas, edits in any order, lost results, and closing of
\* the document led to them: the next delta is made for exactly these.
CacheAgrees ==
  semtokCache # None /\ semtokCache.id # 0 =>
    semtokCache.data = TokensOf(made[semtokCache.id])

\* Tokens are put into the buffer for the text it has ("drop the reply when
\* the buffer was wiped or edited during the round-trip", simplecc.vim:6644),
\* except when they were asked for before a pending change was sent.
ShowsOnlyItsText ==
  [][(shown' # shown /\ shown' # None) =>
       /\ shown'.text = tick \/ asked.behind
       /\ shown'.data \in {<<>>, TokensOf(shown'.text)}]_tokenVars

OutOfAsks == due /\ asks = MaxAsks
Shows == shown # None /\ shown.data = TokensOf(tick)

\* When the user stops typing the buffer gets the tokens of its last text,
\* unless the server had none to give, or completion sent the last change.
TokensSettle == <>[](~open \/ Shows \/ gaveUp \/ OutOfAsks \/ missed)

\* As the comment has it: a reply may be dropped because "the change path
\* already schedules a fresh request" (simplecc.vim:6645).
ChangeAsksForTokens == <>[](~open \/ Shows \/ gaveUp \/ OutOfAsks)

\* "A pending language server is blocked until its answer arrives; never queue
\* it behind slow feature tasks" (simplecc_daemon.rs:516): the loop, which has
\* to read the answer, never waits for a feature task.
LoopNeverWaits == loop = "closing" => ~Held(lock)
=============================================================================
