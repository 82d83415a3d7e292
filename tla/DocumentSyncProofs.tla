-------------------------- MODULE DocumentSyncProofs --------------------------
(***************************************************************************)
(* Proofs about DocumentSync for any number of documents, edits, restarts  *)
(* and crashes: a server that takes incremental changes gets every edit    *)
(* once, on the text it was made on, and serves saves and completions on   *)
(* theirs.                                                                 *)
(***************************************************************************)
EXTENDS DocumentSync, FiniteSetTheorems, TLAPS

Buffer == [loaded : BOOLEAN, tick : Texts, version : 0..3, sent : Texts \union {None},
           changes : Texts \union {None}, timer : BOOLEAN]

\* What is recorded of a loaded buffer leads from the text that was sent last to
\* its text, and the timer is armed while there is something to send.
Recorded(b, n) ==
  /\ b.tick <= n
  /\ b.loaded => /\ b.version > 0
                 /\ b.sent # None /\ b.sent <= b.tick
                 /\ b.changes = (IF b.tick = b.sent THEN None ELSE b.sent)
                 /\ b.timer \/ b.tick = b.sent
  /\ ~b.loaded => b.version = 0 /\ ~b.timer

Buffers == \A d \in Docs : Recorded(buffer[d], uses)

\* A server is started for a didOpen while there is none; one that runs has only
\* documents open of which the daemon knows the filetype.
Loop ==
  /\ starting # NoLine => starting.type = "open" /\ ~alive /\ starting.doc \in uriFt
  /\ alive /\ up => \A d \in Docs : copy[d] # Closed => d \in uriFt
  /\ \A l \in asking : l.type = "ask"
  /\ up => session > 0

Inv == TypeOK /\ Buffers /\ Loop

-----------------------------------------------------------------------------
(* What the server will make of the lines that are not read yet.           *)

Sync == {"open", "full", "delta", "close"}
Speaks(q, k, d) == q[k].doc = d /\ q[k].type \in Sync

\* The server has the text x of d, or will when it has started; or it has not
\* got the document open.
Fits(d, x) ==
  /\ starting # NoLine /\ starting.doc = d => starting.text = x
  /\ starting = NoLine /\ alive /\ up => copy[d] \in {Closed, x}

\* Before line i of q is read the server has the text x of d, if any: it is the
\* text of the last line that speaks of d, or the text it has.
Latest(q, d, i, x) ==
  \/ \E j \in 1 .. (i - 1) :
       /\ Speaks(q, j, d) /\ q[j].text = x
       /\ \A k \in 1 .. (i - 1) : k > j => ~Speaks(q, k, d)
  \/ /\ \A j \in 1 .. (i - 1) : ~Speaks(q, j, d)
     /\ Fits(d, x)

\* A recorded change starts from the text that the server has by then, and a
\* save or a completion is on that text.
LinkedAt(q, i) ==
  /\ q[i].type = "delta" => Latest(q, q[i].doc, i, q[i].from)
  /\ q[i].type \in {"save", "ask"} => Latest(q, q[i].doc, i, q[i].text)

\* Lines q, after which the server has the texts e of the documents that are
\* open, while the buffers have the texts t: later lines have later texts.
Good(q, e, t) ==
  /\ \A i \in 1 .. Len(q) : LinkedAt(q, i)
  /\ \A d \in Docs : e[d] # None => Latest(q, d, Len(q) + 1, e[d])
  /\ \A i, j \in 1 .. Len(q) :
       i < j /\ q[i].doc = q[j].doc /\ q[j].type # "close" => q[i].text <= q[j].text
  /\ \A i \in 1 .. Len(q) : q[i].text <= t[q[i].doc]
  /\ \A l \in asking :
       /\ \A i \in 1 .. Len(q) :
            q[i].doc = l.doc /\ q[i].type # "close" => q[i].text >= l.text
       /\ l.text <= t[l.doc]

LastSent == [d \in Docs |-> IF buffer[d].version > 0 THEN buffer[d].sent ELSE None]
Ticks == [d \in Docs |-> buffer[d].tick]

\* A completion waits for a server that has its text, or a later one.
Asked ==
  \A l \in asking :
    /\ alive /\ up => copy[l.doc] = Closed \/ copy[l.doc] >= l.text
    /\ starting # NoLine /\ starting.doc = l.doc => starting.text >= l.text

Texted == Good(input, LastSent, Ticks) /\ Asked

-----------------------------------------------------------------------------
(* Lemmas about the operators.                                             *)

\* The numbers that stand for no text are no texts.
LEMMA Numbers ==
  /\ MaxRestarts \in Nat /\ MaxUses \in Nat /\ MaxInput \in Nat /\ MaxDeaths \in Nat
  /\ Texts = 0 .. MaxUses
  /\ None = -1 /\ Closed = -2 /\ Wrong = -3
  /\ None \notin Texts /\ Closed \notin Texts /\ Wrong \notin Texts
  /\ None # Closed /\ None # Wrong /\ Closed # Wrong
  <1>1. MaxRestarts \in Nat /\ MaxUses \in Nat /\ MaxInput \in Nat /\ MaxDeaths \in Nat
    BY SyncAssumption
  <1> QED
    BY <1>1 DEF Texts, None, Closed, Wrong

\* The fields of a line.
LEMMA LineFields ==
  ASSUME NEW type, NEW d, NEW from, NEW text, NEW l, l = Line(type, d, from, text)
  PROVE  l.type = type /\ l.doc = d /\ l.from = from /\ l.text = text
  BY DEF Line

\* The types of the fields of a line of the model.
LEMMA LineTypes ==
  ASSUME NEW l \in Lines
  PROVE  /\ l.doc \in Docs /\ l.text \in Texts \union {None} /\ l.from \in Texts \union {None}
         /\ l.type \in {"open", "full", "delta", "close", "save", "ask"}
         /\ l.type = "close" => l.text = None
         /\ l.type # "close" => l.text \in Texts
         /\ l.type = "delta" => l.from \in Texts
         /\ l.text \in Int /\ l # NoLine
  BY Numbers DEF Lines, NoLine

\* What the editor writes is a line.
LEMMA IsLine ==
  ASSUME NEW type \in {"open", "full", "save", "ask"}, NEW d \in Docs, NEW text \in Texts
  PROVE  Line(type, d, None, text) \in Lines
  BY DEF Line, Lines

\* So is a recorded change,
LEMMA IsDelta ==
  ASSUME NEW d \in Docs, NEW from \in Texts, NEW text \in Texts
  PROVE  Line("delta", d, from, text) \in Lines
  BY DEF Line, Lines

\* and a close.
LEMMA IsClose ==
  ASSUME NEW d \in Docs
  PROVE  Line("close", d, None, None) \in Lines
  BY DEF Line, Lines

\* A buffer whose text was sent.
LEMMA SentFields ==
  ASSUME NEW b \in Buffer
  PROVE  /\ Sent(b) \in Buffer
         /\ Sent(b).tick = b.tick /\ Sent(b).sent = b.tick /\ Sent(b).changes = None
         /\ Sent(b).version \in 1..3 /\ Sent(b).loaded = b.loaded /\ Sent(b).timer = b.timer
  <1>1. b.version \in 0..3 /\ b.tick \in Texts
    BY DEF Buffer
  <1>2. PICK v \in 1..3 : v = IF b.version < 3 THEN b.version + 1 ELSE b.version
    BY <1>1
  <1> DEFINE c == [b EXCEPT !.version = v, !.changes = None, !.sent = b.tick]
  <1>3. Sent(b) = c
    BY <1>2 DEF Sent
  <1>4. v \in 0..3 /\ b.tick \in Texts \union {None} /\ None \in Texts \union {None}
    BY <1>1
  <1>5. c \in Buffer
    BY <1>4 DEF Buffer
  <1>6. /\ c.tick = b.tick /\ c.sent = b.tick /\ c.changes = None
        /\ c.version = v /\ c.loaded = b.loaded /\ c.timer = b.timer
    BY DEF Buffer
  <1> HIDE DEF c
  <1> QED
    BY <1>3, <1>5, <1>6

\* Only what comes before a line says what text the server has by then.
LEMMA SamePrefix ==
  ASSUME NEW p, NEW q, NEW d, NEW x, NEW i \in Nat,
         \A k \in 1 .. (i - 1) : p[k] = q[k]
  PROVE  Latest(p, d, i, x) <=> Latest(q, d, i, x)
  BY DEF Latest, Speaks

\* A line that says nothing of a document leaves it, another sets it.
LEMMA OneMore ==
  ASSUME NEW q, NEW d, NEW x, NEW i \in Nat \ {0}
  PROVE  /\ Latest(q, d, i, x) /\ ~Speaks(q, i, d) => Latest(q, d, i + 1, x)
         /\ Speaks(q, i, d) => Latest(q, d, i + 1, q[i].text)
  <1>1. \A k \in 1 .. ((i + 1) - 1) : k \in 1 .. (i - 1) \/ k = i
    OBVIOUS
  <1>2. \A k \in 1 .. (i - 1) : k \in 1 .. ((i + 1) - 1)
    OBVIOUS
  <1>3. i \in 1 .. ((i + 1) - 1) /\ \A k \in 1 .. ((i + 1) - 1) : ~(k > i)
    OBVIOUS
  <1>4. ASSUME Latest(q, d, i, x), ~Speaks(q, i, d) PROVE Latest(q, d, i + 1, x)
    BY <1>1, <1>2, <1>4 DEF Latest
  <1>5. ASSUME Speaks(q, i, d) PROVE Latest(q, d, i + 1, q[i].text)
    BY <1>3, <1>5 DEF Latest
  <1> QED
    BY <1>4, <1>5

\* Two lines are written one after the other.
LEMMA TwoLines ==
  ASSUME NEW q \in Seq(Lines), NEW a \in Lines, NEW b \in Lines
  PROVE  q \o <<a, b>> = Append(Append(q, a), b)
  OBVIOUS

\* A queue with one more.
LEMMA AppendTo ==
  ASSUME NEW S, NEW q \in Seq(S), NEW x \in S
  PROVE  /\ Append(q, x) \in Seq(S) /\ Len(q) \in Nat /\ Len(Append(q, x)) = Len(q) + 1
         /\ \A i \in 1 .. Len(q) : Append(q, x)[i] = q[i]
         /\ Append(q, x)[Len(q) + 1] = x
  OBVIOUS

\* A queue without its head.
LEMMA TailOf ==
  ASSUME NEW S, NEW q \in Seq(S), q # <<>>
  PROVE  /\ Tail(q) \in Seq(S) /\ Len(q) \in Nat \ {0} /\ Len(Tail(q)) = Len(q) - 1
         /\ \A i \in 1 .. Len(q) - 1 : Tail(q)[i] = q[i + 1]
         /\ Head(q) = q[1] /\ Head(q) \in S
  OBVIOUS

\* The editor writes a line that carries on from what it wrote before.
LEMMA GoodAppend ==
  ASSUME NEW q \in Seq(Lines), NEW l \in Lines, NEW e, NEW t,
         NEW f \in [Docs -> Texts \union {None}],
         Good(q, e, t), asking \subseteq Lines,
         \A d \in Docs : t[d] \in Texts,
         l.type = "delta" => e[l.doc] # None /\ l.from = e[l.doc],
         l.type \in {"save", "ask"} => e[l.doc] # None /\ l.text = e[l.doc],
         l.type # "close" => l.text = t[l.doc],
         \A d \in Docs : f[d] = IF l.type = "close" /\ d = l.doc THEN None
                                ELSE IF l.type \in Sync /\ d = l.doc THEN l.text ELSE e[d]
  PROVE  Good(Append(q, l), f, t)
  <1> DEFINE p == Append(q, l)
             n == Len(q)
  <1>1. /\ p \in Seq(Lines) /\ n \in Nat /\ Len(p) = n + 1
        /\ \A i \in 1 .. n : p[i] = q[i]
        /\ p[n + 1] = l
    BY AppendTo
  <1>2. \A i \in 1 .. n : q[i] \in Lines
    OBVIOUS
  <1> HIDE DEF p, n
  <1>3. n = Len(q) /\ p = Append(q, l)
    BY DEF n, p
  <1>4. \A i \in 1 .. (n + 1) : i \in 1 .. n \/ i = n + 1
    BY <1>1
  <1>5. \A i \in 1 .. (n + 1) : \A d, x : Latest(p, d, i, x) <=> Latest(q, d, i, x)
    <2> SUFFICES ASSUME NEW i \in 1 .. (n + 1), NEW d, NEW x
                 PROVE  Latest(p, d, i, x) <=> Latest(q, d, i, x)
      OBVIOUS
    <2>1. i \in Nat /\ \A k \in 1 .. (i - 1) : p[k] = q[k]
      BY <1>1
    <2> QED
      BY <2>1, SamePrefix
  <1>6. \A i \in 1 .. n : LinkedAt(p, i)
    <2> SUFFICES ASSUME NEW i \in 1 .. n PROVE LinkedAt(p, i)
      OBVIOUS
    <2>1. LinkedAt(q, i) /\ p[i] = q[i] /\ i \in 1 .. (n + 1)
      BY <1>1, <1>3 DEF Good
    <2> QED
      BY <1>5, <2>1 DEF LinkedAt
  <1>7. l.doc \in Docs /\ n + 1 \in 1 .. (n + 1)
    BY <1>1, LineTypes
  <1>8. \A d \in Docs : e[d] # None => Latest(p, d, n + 1, e[d])
    BY <1>3, <1>5, <1>7 DEF Good
  <1>9. LinkedAt(p, n + 1)
    BY <1>1, <1>7, <1>8 DEF LinkedAt
  <1>10. \A d \in Docs : f[d] # None => Latest(p, d, (n + 1) + 1, f[d])
    <2> SUFFICES ASSUME NEW d \in Docs, f[d] # None
                 PROVE  Latest(p, d, (n + 1) + 1, f[d])
      OBVIOUS
    <2>0. n + 1 \in Nat \ {0}
      BY <1>1
    <2>1. CASE Speaks(p, n + 1, d)
      <3>1. l.doc = d /\ l.type \in Sync /\ f[d] = l.text
        BY <1>1, <2>1 DEF Speaks
      <3> QED
        BY <1>1, <2>0, <2>1, <3>1, OneMore
    <2>2. CASE ~Speaks(p, n + 1, d)
      <3>1. f[d] = e[d]
        BY <1>1, <2>2 DEF Speaks, Sync
      <3> QED
        BY <1>8, <2>0, <2>2, <3>1, OneMore
    <2> QED
      BY <2>1, <2>2
  <1>11. l.text <= t[l.doc]
    BY <1>7, LineTypes, Numbers
  <1>12. \A i \in 1 .. n : p[i].text <= t[p[i].doc]
    BY <1>1, <1>3 DEF Good
  <1>13. ASSUME NEW i \in 1 .. (n + 1), NEW j \in 1 .. (n + 1), i < j, p[i].doc = p[j].doc,
                p[j].type # "close"
         PROVE  p[i].text <= p[j].text
    <2>1. CASE j = n + 1
      <3>1. i \in 1 .. n
        BY <1>1, <1>4, <1>13, <2>1
      <3> QED
        BY <1>1, <1>12, <1>13, <2>1, <3>1
    <2>2. CASE j \in 1 .. n
      <3>1. i \in 1 .. n
        BY <1>1, <1>13, <2>2
      <3> QED
        BY <1>1, <1>3, <1>13, <2>2, <3>1 DEF Good
    <2> QED
      BY <1>4, <2>1, <2>2
  <1>14. \A a \in asking : a.text <= t[a.doc]
    BY DEF Good
  <1>15. ASSUME NEW a \in asking, NEW i \in 1 .. (n + 1), p[i].doc = a.doc, p[i].type # "close"
         PROVE  p[i].text >= a.text
    <2>1. CASE i = n + 1
      <3>1. l.text = t[a.doc] /\ a.text <= t[a.doc]
        BY <1>1, <1>14, <1>15, <2>1
      <3>2. a.text \in Int /\ l.text \in Int
        BY LineTypes
      <3> QED
        BY <1>1, <2>1, <3>1, <3>2
    <2>2. CASE i \in 1 .. n
      BY <1>1, <1>3, <1>15, <2>2 DEF Good
    <2> QED
      BY <1>4, <2>1, <2>2
  <1>16. \A i \in 1 .. (n + 1) : LinkedAt(p, i) /\ p[i].text <= t[p[i].doc]
    BY <1>1, <1>4, <1>6, <1>9, <1>11, <1>12
  <1> QED
    BY <1>1, <1>3, <1>10, <1>13, <1>14, <1>15, <1>16 DEF Good

\* ... or opens documents, each once.
LEMMA GoodOpens ==
  ASSUME NEW q \in Seq(Lines), NEW r \in Seq(Lines), NEW e, NEW t,
         NEW f \in [Docs -> Texts \union {None}], NEW again \in SUBSET Docs,
         Good(q, e, t), asking \subseteq Lines,
         \A d \in Docs : t[d] \in Texts,
         \A i \in 1 .. Len(r) : /\ r[i].type = "open" /\ r[i].doc \in again
                                /\ r[i].text = t[r[i].doc],
         \A i, j \in 1 .. Len(r) : r[i].doc = r[j].doc => i = j,
         \A d \in again : \E i \in 1 .. Len(r) : r[i].doc = d,
         \A d \in Docs : f[d] = IF d \in again THEN t[d] ELSE e[d]
  PROVE  Good(q \o r, f, t)
  <1> DEFINE p == q \o r
             n == Len(q)
             m == Len(r)
  <1>1. /\ p \in Seq(Lines) /\ n \in Nat /\ m \in Nat /\ Len(p) = n + m
        /\ \A i \in 1 .. n : p[i] = q[i]
        /\ \A i \in 1 .. m : p[n + i] = r[i]
    OBVIOUS
  <1>2. /\ \A i \in 1 .. n : q[i] \in Lines
        /\ \A i \in 1 .. m : r[i] \in Lines
    OBVIOUS
  <1> HIDE DEF p, n, m
  <1>3. n = Len(q) /\ m = Len(r) /\ p = q \o r
    BY DEF n, m, p
  <1>4. \A i \in 1 .. (n + m) : i \in 1 .. n \/ \E k \in 1 .. m : i = n + k
    <2> SUFFICES ASSUME NEW i \in 1 .. (n + m), i \notin 1 .. n
                 PROVE  \E k \in 1 .. m : i = n + k
      OBVIOUS
    <2>1. i - n \in 1 .. m /\ i = n + (i - n)
      BY <1>1
    <2> QED
      BY <2>1
  <1>5. \A i \in 1 .. (n + 1) : \A d, x : Latest(p, d, i, x) <=> Latest(q, d, i, x)
    <2> SUFFICES ASSUME NEW i \in 1 .. (n + 1), NEW d, NEW x
                 PROVE  Latest(p, d, i, x) <=> Latest(q, d, i, x)
      OBVIOUS
    <2>1. i \in Nat /\ \A k \in 1 .. (i - 1) : p[k] = q[k]
      BY <1>1
    <2> QED
      BY <2>1, SamePrefix
  <1>6. \A i \in 1 .. (n + m) : LinkedAt(p, i)
    <2> SUFFICES ASSUME NEW i \in 1 .. (n + m) PROVE LinkedAt(p, i)
      OBVIOUS
    <2>1. CASE i \in 1 .. n
      <3>1. LinkedAt(q, i) /\ p[i] = q[i] /\ i \in 1 .. (n + 1)
        BY <1>1, <1>3, <2>1 DEF Good
      <3> QED
        BY <1>5, <3>1 DEF LinkedAt
    <2>2. CASE \E k \in 1 .. m : i = n + k
      <3>1. p[i].type = "open"
        BY <1>1, <1>3, <2>2
      <3> QED
        BY <3>1 DEF LinkedAt
    <2> QED
      BY <1>4, <2>1, <2>2
  <1>7. \A d \in Docs : f[d] # None => Latest(p, d, (n + m) + 1, f[d])
    <2> SUFFICES ASSUME NEW d \in Docs, f[d] # None
                 PROVE  Latest(p, d, (n + m) + 1, f[d])
      OBVIOUS
    <2>0. 1 .. (((n + m) + 1) - 1) = 1 .. (n + m) /\ 1 .. ((n + 1) - 1) = 1 .. n
      BY <1>1
    <2>1. CASE d \in again
      <3>1. PICK i \in 1 .. m : r[i].doc = d
        BY <1>3, <2>1
      <3>2. /\ n + i \in 1 .. (n + m) /\ p[n + i] = r[i]
            /\ r[i].text = f[d] /\ r[i].type = "open"
        <4>1. n + i \in 1 .. (n + m) /\ p[n + i] = r[i]
          <5>1. n \in Nat /\ m \in Nat
            BY <1>1
          <5>2. n + i \in 1 .. (n + m)
            BY <5>1
          <5> QED
            BY <1>1, <5>2
        <4>2. r[i].type = "open" /\ r[i].text = t[d]
          BY <1>3, <3>1
        <4> QED
          BY <2>1, <4>1, <4>2
      <3>3. Speaks(p, n + i, d)
        BY <3>1, <3>2 DEF Speaks, Sync
      <3>4. \A k \in 1 .. (n + m) : k > n + i => ~Speaks(p, k, d)
        <4> SUFFICES ASSUME NEW k \in 1 .. (n + m), k > n + i PROVE ~Speaks(p, k, d)
          OBVIOUS
        <4>1. PICK j \in 1 .. m : k = n + j
          BY <1>1, <1>4
        <4>2. j # i
          BY <1>1, <4>1
        <4>3. r[j].doc # d
          BY <1>3, <3>1, <4>2
        <4> QED
          BY <1>1, <4>1, <4>3 DEF Speaks
      <3> QED
        BY <2>0, <3>2, <3>3, <3>4 DEF Latest
    <2>2. CASE d \notin again
      <3>1. Latest(p, d, n + 1, f[d])
        <4>1. n + 1 \in 1 .. (n + 1)
          BY <1>1
        <4> QED
          BY <1>3, <1>5, <2>2, <4>1 DEF Good
      <3>2. \A k \in 1 .. (n + m) : k \in 1 .. n \/ ~Speaks(p, k, d)
        <4> SUFFICES ASSUME NEW k \in 1 .. (n + m), k \notin 1 .. n
                     PROVE  ~Speaks(p, k, d)
          OBVIOUS
        <4>1. PICK j \in 1 .. m : k = n + j
          BY <1>4
        <4>2. p[k] = r[j] /\ r[j].doc \in again
          BY <1>1, <1>3, <4>1
        <4> QED
          BY <2>2, <4>2 DEF Speaks
      <3>3. 1 .. n \subseteq 1 .. (n + m)
        BY <1>1
      <3> QED
        BY <2>0, <3>1, <3>2, <3>3 DEF Latest
    <2> QED
      BY <2>1, <2>2
  <1>8. \A i \in 1 .. n : p[i].text <= t[p[i].doc] /\ p[i].doc \in Docs
    BY <1>1, <1>2, <1>3, LineTypes DEF Good
  <1>9. \A i \in 1 .. m : p[n + i].text = t[p[n + i].doc] /\ p[n + i].doc \in Docs
    BY <1>1, <1>3
  <1>10. \A i \in 1 .. (n + m) : p[i].text <= t[p[i].doc]
    <2> SUFFICES ASSUME NEW i \in 1 .. (n + m) PROVE p[i].text <= t[p[i].doc]
      OBVIOUS
    <2>1. CASE i \in 1 .. n
      BY <1>8, <2>1
    <2>2. CASE \E k \in 1 .. m : i = n + k
      <3>1. p[i].text = t[p[i].doc] /\ p[i].doc \in Docs
        BY <1>9, <2>2
      <3> QED
        BY <3>1, Numbers
    <2> QED
      BY <1>4, <2>1, <2>2
  <1>11. ASSUME NEW i \in 1 .. (n + m), NEW j \in 1 .. (n + m), i < j, p[i].doc = p[j].doc,
                p[j].type # "close"
         PROVE  p[i].text <= p[j].text
    <2>1. CASE j \in 1 .. n
      <3>1. i \in 1 .. n
        BY <1>1, <1>11, <2>1
      <3> QED
        BY <1>1, <1>3, <1>11, <2>1, <3>1 DEF Good
    <2>2. CASE \E k \in 1 .. m : j = n + k
      BY <1>9, <1>10, <1>11, <2>2
    <2> QED
      BY <1>4, <2>1, <2>2
  <1>12. \A a \in asking : a.text <= t[a.doc]
    BY DEF Good
  <1>13. ASSUME NEW a \in asking, NEW i \in 1 .. (n + m), p[i].doc = a.doc, p[i].type # "close"
         PROVE  p[i].text >= a.text
    <2>1. CASE i \in 1 .. n
      BY <1>1, <1>3, <1>13, <2>1 DEF Good
    <2>2. CASE \E k \in 1 .. m : i = n + k
      <3>1. p[i].text = t[a.doc] /\ a.text <= t[a.doc] /\ a.doc \in Docs
        BY <1>9, <1>12, <1>13, <2>2
      <3>2. a.text \in Int /\ t[a.doc] \in Int
        BY <3>1, LineTypes, Numbers
      <3> QED
        BY <3>1, <3>2
    <2> QED
      BY <1>4, <2>1, <2>2
  <1> QED
    BY <1>1, <1>3, <1>6, <1>7, <1>10, <1>11, <1>12, <1>13 DEF Good

\* The head of the lines is read: what it said of its document is what the
\* server has of it, or will have.
LEMMA GoodTail ==
  ASSUME NEW q \in Seq(Lines), NEW e, NEW t, Good(q, e, t), q # <<>>,
         asking \subseteq Lines,
         \A l \in asking' : l \in asking \/ l = q[1],
         \A d \in Docs : \A x : ~Speaks(q, 1, d) /\ Fits(d, x) => Fits(d, x)',
         \A d \in Docs : Speaks(q, 1, d) => Fits(d, q[1].text)'
  PROVE  Good(Tail(q), e, t)'
  <1> DEFINE p == Tail(q)
             n == Len(q)
  <1>1. /\ p \in Seq(Lines) /\ n \in Nat \ {0} /\ Len(p) = n - 1
        /\ \A i \in 1 .. (n - 1) : p[i] = q[i + 1]
    BY TailOf
  <1>2. \A i \in 1 .. n : q[i] \in Lines
    OBVIOUS
  <1>a. 1 \in 1 .. n
    BY <1>1
  <1> HIDE DEF p, n
  <1>3. n = Len(q) /\ p = Tail(q)
    BY DEF n, p
  <1>4. \A i \in 1 .. (n - 1) : i + 1 \in 1 .. n
    BY <1>1
  <1>5. \A i \in 1 .. n, d \in Docs : \A x : Latest(q, d, i + 1, x) => Latest(p, d, i, x)'
    <2> SUFFICES ASSUME NEW i \in 1 .. n, NEW d \in Docs, NEW x, Latest(q, d, i + 1, x)
                 PROVE  Latest(p, d, i, x)'
      OBVIOUS
    <2>1. /\ i \in Nat /\ (i + 1) - 1 = i
          /\ \A k \in 1 .. (i - 1) : k + 1 \in 1 .. i /\ p[k] = q[k + 1] /\ k \in 1 .. (n - 1)
          /\ \A k \in 1 .. i : k = 1 \/ (k - 1 \in 1 .. (i - 1) /\ (k - 1) + 1 = k)
      BY <1>1
    <2>2. \A k \in 1 .. i : k # 1 => k - 1 \in 1 .. (i - 1) /\ p[k - 1] = q[k]
      BY <2>1
    <2>3. ASSUME \A j \in 1 .. i : ~Speaks(q, j, d), Fits(d, x)
          PROVE  Latest(p, d, i, x)'
      <3>1. Fits(d, x)'
        BY <2>1, <2>3
      <3>2. \A j \in 1 .. (i - 1) : ~Speaks(p, j, d)
        BY <2>1, <2>3 DEF Speaks
      <3> QED
        BY <3>1, <3>2 DEF Latest, Speaks
    <2>4. ASSUME NEW j \in 1 .. i, Speaks(q, j, d), q[j].text = x,
                 \A k \in 1 .. i : k > j => ~Speaks(q, k, d)
          PROVE  Latest(p, d, i, x)'
      <3>1. CASE j = 1
        <4>1. Fits(d, x)'
          BY <2>4, <3>1
        <4>2. \A k \in 1 .. (i - 1) : ~Speaks(p, k, d)
          <5>1. \A k \in 1 .. (i - 1) : k + 1 > 1
            BY <2>1
          <5> QED
            BY <2>1, <2>4, <3>1, <5>1 DEF Speaks
        <4> QED
          BY <4>1, <4>2 DEF Latest, Speaks
      <3>2. CASE j # 1
        <4>1. j - 1 \in 1 .. (i - 1) /\ p[j - 1] = q[j]
          BY <2>2, <3>2
        <4>2. \A k \in 1 .. (i - 1) : k > j - 1 => ~Speaks(p, k, d)
          <5>1. \A k \in 1 .. (i - 1) : k > j - 1 => k + 1 > j
            BY <2>1
          <5> QED
            BY <2>1, <2>4, <5>1 DEF Speaks
        <4>3. Speaks(p, j - 1, d) /\ p[j - 1].text = x
          BY <2>4, <4>1 DEF Speaks
        <4> QED
          BY <4>1, <4>2, <4>3 DEF Latest, Speaks
      <3> QED
        BY <3>1, <3>2
    <2> QED
      BY <2>1, <2>3, <2>4 DEF Latest
  <1>6. \A i \in 1 .. (n - 1) : LinkedAt(p, i)'
    <2> SUFFICES ASSUME NEW i \in 1 .. (n - 1) PROVE LinkedAt(p, i)'
      OBVIOUS
    <2>1. /\ LinkedAt(q, i + 1) /\ p[i] = q[i + 1] /\ q[i + 1].doc \in Docs /\ i \in 1 .. n
      BY <1>1, <1>2, <1>3, <1>4, LineTypes DEF Good
    <2> QED
      BY <1>5, <2>1 DEF LinkedAt
  <1>7. ASSUME NEW d \in Docs, e[d] # None PROVE Latest(p, d, (n - 1) + 1, e[d])'
    <2>1. Latest(q, d, n + 1, e[d])
      BY <1>3, <1>7 DEF Good
    <2>2. (n - 1) + 1 = n /\ n \in 1 .. n
      BY <1>1
    <2> QED
      BY <1>5, <2>1, <2>2
  <1>8. /\ \A i, j \in 1 .. (n - 1) :
             i < j /\ p[i].doc = p[j].doc /\ p[j].type # "close" => p[i].text <= p[j].text
        /\ \A i \in 1 .. (n - 1) : p[i].text <= t[p[i].doc]
    <2>1. \A i, j \in 1 .. (n - 1) : i < j => i + 1 < j + 1
      BY <1>1
    <2> QED
      BY <1>1, <1>3, <1>4, <2>1 DEF Good
  <1>9. ASSUME NEW a \in asking'
        PROVE  /\ \A i \in 1 .. (n - 1) :
                    p[i].doc = a.doc /\ p[i].type # "close" => p[i].text >= a.text
               /\ a.text <= t[a.doc]
    <2>1. CASE a \in asking
      BY <1>1, <1>3, <1>4, <2>1 DEF Good
    <2>2. CASE a = q[1]
      <3>1. \A i \in 1 .. (n - 1) : 1 < i + 1 /\ i + 1 \in 1 .. n /\ 1 \in 1 .. n
        BY <1>1
      <3>2. \A i \in 1 .. (n - 1) : p[i].text \in Int /\ a.text \in Int
        BY <1>1, <1>2, <1>a, <1>4, <2>2, LineTypes
      <3>3. \A i \in 1 .. (n - 1) :
              q[i + 1].doc = a.doc /\ q[i + 1].type # "close" => a.text <= q[i + 1].text
        BY <1>3, <2>2, <3>1 DEF Good
      <3>4. a.text <= t[a.doc]
        BY <1>3, <1>a, <2>2 DEF Good
      <3> QED
        BY <1>1, <3>2, <3>3, <3>4
    <2> QED
      BY <1>9, <2>1, <2>2
  <1> QED
    BY <1>1, <1>3, <1>6, <1>7, <1>8, <1>9 DEF Good

\* Nothing is written or read, and the buffers have the same texts or later ones.
LEMMA GoodLater ==
  ASSUME NEW q \in Seq(Lines), NEW e, NEW t, NEW u, Good(q, e, t), asking \subseteq Lines,
         asking' \subseteq asking, \A d \in Docs : t[d] \in Int /\ u[d] \in Int /\ t[d] <= u[d],
         \A d \in Docs : \A x : Fits(d, x) => Fits(d, x)'
  PROVE  Good(q, e, u)'
  <1>1. \A i \in 1 .. Len(q) : q[i] \in Lines /\ q[i].doc \in Docs /\ q[i].text \in Int
    <2>1. \A i \in 1 .. Len(q) : q[i] \in Lines
      OBVIOUS
    <2> QED
      BY <2>1, LineTypes
  <1>2. \A d \in Docs : \A i, x : Latest(q, d, i, x) => Latest(q, d, i, x)'
    BY DEF Latest, Speaks
  <1>3. \A i \in 1 .. Len(q) : LinkedAt(q, i)'
    BY <1>1, <1>2 DEF Good, LinkedAt
  <1>4. \A i \in 1 .. Len(q) : q[i].text <= u[q[i].doc]
    <2> SUFFICES ASSUME NEW i \in 1 .. Len(q) PROVE q[i].text <= u[q[i].doc]
      OBVIOUS
    <2>1. q[i].text <= t[q[i].doc]
      BY DEF Good
    <2> QED
      BY <1>1, <2>1
  <1>5. \A a \in asking : a.text <= u[a.doc]
    <2> SUFFICES ASSUME NEW a \in asking PROVE a.text <= u[a.doc]
      OBVIOUS
    <2>1. a.text <= t[a.doc]
      BY DEF Good
    <2>2. a.doc \in Docs /\ a.text \in Int
      BY LineTypes
    <2> QED
      BY <2>1, <2>2
  <1>6. \A d \in Docs : e[d] # None => Latest(q, d, Len(q) + 1, e[d])'
    BY <1>2 DEF Good
  <1>7. \A a \in asking' : /\ a \in asking
                           /\ \A i \in 1 .. Len(q) :
                                q[i].doc = a.doc /\ q[i].type # "close" => q[i].text >= a.text
    BY DEF Good
  <1>8. \A i, j \in 1 .. Len(q) :
          i < j /\ q[i].doc = q[j].doc /\ q[j].type # "close" => q[i].text <= q[j].text
    BY DEF Good
  <1> QED
    BY <1>3, <1>4, <1>5, <1>6, <1>7, <1>8 DEF Good

-----------------------------------------------------------------------------
(* The editor.                                                             *)

\* The parts of TypeOK, and what is known of a buffer.
LEMMA Typed ==
  ASSUME Inv
  PROVE  /\ buffer \in [Docs -> Buffer] /\ uses \in 0..MaxUses /\ input \in Seq(Lines)
         /\ asking \subseteq Lines /\ starting \in Lines \union {NoLine}
         /\ copy \in [Docs -> Texts \union {Closed, Wrong}] /\ alive \in BOOLEAN /\ up \in BOOLEAN
         /\ \A d \in Docs : buffer[d] \in Buffer /\ Recorded(buffer[d], uses)
         /\ LastSent \in [Docs -> Texts \union {None}] /\ Ticks \in [Docs -> Texts]
         /\ \A d \in Docs : /\ Ticks[d] = buffer[d].tick
                            /\ LastSent[d] = IF buffer[d].version > 0 THEN buffer[d].sent ELSE None
  <1>1. buffer \in [Docs -> Buffer]
    BY DEF Inv, TypeOK, Buffer
  <1>2. \A d \in Docs : buffer[d] \in Buffer
    BY <1>1
  <1>3. \A d \in Docs : buffer[d].sent \in Texts \union {None} /\ buffer[d].tick \in Texts
    BY <1>2 DEF Buffer
  <1>4. LastSent \in [Docs -> Texts \union {None}] /\ Ticks \in [Docs -> Texts]
    BY <1>3 DEF LastSent, Ticks
  <1>5. \A d \in Docs : /\ Ticks[d] = buffer[d].tick
                        /\ LastSent[d] = IF buffer[d].version > 0 THEN buffer[d].sent ELSE None
    BY DEF LastSent, Ticks
  <1> QED
    BY <1>1, <1>2, <1>4, <1>5 DEF Inv, TypeOK, Buffers

\* The editor leaves the daemon and the server alone.
LEMMA EditorStep ==
  ASSUME Inv, UNCHANGED <<kind, starting, uriFt, asking, alive, serverVars>>,
         buffer' \in [Docs -> Buffer], Buffers', caps' \in BOOLEAN, reopens' \in Nat,
         attempts' \in 0..MaxRestarts, uses' \in 0..MaxUses, input' \in Seq(Lines),
         events' \in Seq({"running", "stopped", "error"})
  PROVE  Inv'
  <1>1. UNCHANGED <<session, up, ended, copy, checked>>
    BY DEF serverVars
  <1>2. TypeOK'
    BY <1>1 DEF Inv, TypeOK, Buffer
  <1>3. Loop'
    BY <1>1 DEF Inv, Loop
  <1> QED
    BY <1>2, <1>3 DEF Inv

\* What it writes is good when it is written.
LEMMA EditorTexted ==
  ASSUME Inv, Texted, UNCHANGED <<starting, asking, alive, serverVars>>,
         NEW q \in Seq(Lines), NEW e, NEW t \in [Docs -> Texts],
         input' = q, LastSent' = e, Ticks' = t, Good(q, e, t)
  PROVE  Texted'
  <1>1. UNCHANGED <<up, copy>>
    BY DEF serverVars
  <1>2. \A d \in Docs : \A x : Fits(d, x) => Fits(d, x)'
    BY <1>1 DEF Fits
  <1>3. asking \subseteq Lines /\ \A d \in Docs : t[d] \in Int /\ t[d] <= t[d]
    BY Typed, Numbers
  <1>4. Good(q, e, t)'
    BY <1>2, <1>3, GoodLater
  <1>5. Asked'
    BY <1>1 DEF Texted, Asked
  <1> QED
    BY <1>4, <1>5 DEF Texted

\* ... and stays good while the buffers are edited further.
LEMMA EditsTexted ==
  ASSUME Inv, Texted, UNCHANGED <<input, starting, asking, alive, serverVars>>,
         LastSent' = LastSent, NEW u \in [Docs -> Texts], Ticks' = u,
         \A d \in Docs : Ticks[d] <= u[d]
  PROVE  Texted'
  <1>1. UNCHANGED <<up, copy>>
    BY DEF serverVars
  <1>2. \A d \in Docs : \A x : Fits(d, x) => Fits(d, x)'
    BY <1>1 DEF Fits
  <1>3. /\ asking \subseteq Lines /\ asking' \subseteq asking /\ input \in Seq(Lines)
        /\ \A d \in Docs : Ticks[d] \in Int /\ u[d] \in Int
    BY Typed, Numbers
  <1>4. PICK q, e, t :
          /\ q \in Seq(Lines) /\ q = input /\ e = LastSent /\ t = Ticks
    BY <1>3
  <1>5. Good(q, e, t) /\ \A d \in Docs : t[d] \in Int /\ u[d] \in Int /\ t[d] <= u[d]
    BY <1>3, <1>4 DEF Texted
  <1>6. Good(q, e, u)'
    BY <1>2, <1>3, <1>4, <1>5, GoodLater
  <1>7. input' = q /\ LastSent' = e
    BY <1>4
  <1>8. Asked'
    BY <1>1 DEF Texted, Asked
  <1> QED
    BY <1>6, <1>7, <1>8 DEF Texted

\* One buffer changes.
LEMMA OneBuffer ==
  ASSUME Inv, NEW d \in Docs, NEW b \in Buffer, buffer' = [buffer EXCEPT ![d] = b],
         uses' \in 0..MaxUses, uses <= uses', Recorded(b, uses')
  PROVE  /\ buffer' \in [Docs -> Buffer] /\ Buffers'
         /\ LastSent' = [LastSent EXCEPT ![d] = IF b.version > 0 THEN b.sent ELSE None]
         /\ Ticks' = [Ticks EXCEPT ![d] = b.tick]
  <1>1. buffer \in [Docs -> Buffer] /\ uses \in 0..MaxUses
        /\ \A c \in Docs : buffer[c] \in Buffer /\ Recorded(buffer[c], uses)
    BY Typed
  <1>2. /\ buffer' \in [Docs -> Buffer] /\ buffer'[d] = b
        /\ \A c \in Docs : c # d => buffer'[c] = buffer[c]
    BY <1>1
  <1>3. \A c \in Docs : Recorded(buffer[c], uses')
    <2> SUFFICES ASSUME NEW c \in Docs PROVE Recorded(buffer[c], uses')
      OBVIOUS
    <2>1. buffer[c].tick \in Nat /\ buffer[c].tick <= uses /\ uses' \in Nat /\ uses \in Nat
      BY <1>1, Numbers DEF Buffer, Recorded
    <2>2. buffer[c].tick <= uses'
      BY <2>1
    <2> QED
      BY <1>1, <2>2 DEF Recorded
  <1>4. Buffers'
    BY <1>2, <1>3 DEF Buffers, Recorded
  <1>5. LastSent' = [LastSent EXCEPT ![d] = IF b.version > 0 THEN b.sent ELSE None]
    BY <1>2 DEF LastSent
  <1>6. Ticks' = [Ticks EXCEPT ![d] = b.tick]
    BY <1>2 DEF Ticks
  <1> QED
    BY <1>2, <1>4, <1>5, <1>6

\* What SendDidOpen and SendDidChange write carries the text of the buffer, and a
\* recorded change starts from the text that was sent last.
Carries(d, l) ==
  /\ l \in Lines /\ l.doc = d /\ l.type \in {"open", "full", "delta"} /\ l.text = buffer[d].tick
  /\ l.type = "delta" => buffer[d].version > 0 /\ l.from = buffer[d].sent

\* So does what SendDidOpen writes,
LEMMA OpenCarries ==
  ASSUME Inv, NEW d \in Docs
  PROVE  Carries(d, OpenLine(d))
  <1>1. buffer[d].tick \in Texts
    BY Typed DEF Buffer
  <1>2. OpenLine(d) \in Lines
    BY <1>1, IsLine DEF OpenLine
  <1> QED
    BY <1>2 DEF Carries, OpenLine, Line

\* and what SendDidChange writes.
LEMMA ChangeCarries ==
  ASSUME Inv, NEW d \in Docs, buffer[d].loaded
  PROVE  Carries(d, ChangeLine(d))
  <1> DEFINE b == buffer[d]
  <1>1. b \in Buffer /\ Recorded(b, uses)
    BY Typed
  <1>2. b.tick \in Texts /\ b.version \in 0..3 /\ b.changes \in Texts \union {None}
    BY <1>1 DEF Buffer
  <1>3. b.version > 0 /\ b.changes = (IF b.tick = b.sent THEN None ELSE b.sent)
    BY <1>1 DEF Recorded
  <1>4. CASE b.changes # None /\ b.version >= 2
    <2>1. ChangeLine(d) = Line("delta", d, b.changes, b.tick)
      BY <1>2, <1>3, <1>4 DEF ChangeLine
    <2>2. b.changes \in Texts /\ b.changes = b.sent
      BY <1>2, <1>3, <1>4
    <2>3. Line("delta", d, b.changes, b.tick) \in Lines
      BY <1>2, <2>2, IsDelta
    <2> QED
      BY <1>3, <2>1, <2>2, <2>3, LineFields DEF Carries
  <1>5. CASE ~(b.changes # None /\ b.version >= 2)
    <2>1. ChangeLine(d) = Line("full", d, None, b.tick)
      BY <1>2, <1>3, <1>5 DEF ChangeLine
    <2>2. Line("full", d, None, b.tick) \in Lines
      BY <1>2, IsLine
    <2> QED
      BY <2>1, <2>2, LineFields DEF Carries
  <1> QED
    BY <1>4, <1>5

\* Writing it leaves the lines good, and the text of the buffer the last one sent.
LEMMA GoodCarries ==
  ASSUME Inv, Texted, NEW d \in Docs, NEW l, Carries(d, l), NEW e,
         e = [LastSent EXCEPT ![d] = buffer[d].tick]
  PROVE  /\ Good(Append(input, l), e, Ticks)
         /\ e \in [Docs -> Texts \union {None}] /\ e[d] = buffer[d].tick
         /\ Append(input, l) \in Seq(Lines)
  <1>1. /\ input \in Seq(Lines) /\ asking \subseteq Lines
        /\ LastSent \in [Docs -> Texts \union {None}] /\ Ticks \in [Docs -> Texts]
        /\ Ticks[d] = buffer[d].tick
        /\ LastSent[d] = IF buffer[d].version > 0 THEN buffer[d].sent ELSE None
        /\ Recorded(buffer[d], uses)
    BY Typed
  <1>2. buffer[d].tick \in Texts
    BY <1>1
  <1>3. /\ e \in [Docs -> Texts \union {None}] /\ e[d] = buffer[d].tick
        /\ \A c \in Docs : c # d => e[c] = LastSent[c]
    BY <1>1, <1>2
  <1>4. l \in Lines /\ l.doc = d /\ l.type \in {"open", "full", "delta"} /\ l.text = buffer[d].tick
    BY DEF Carries
  <1>5. l.type = "delta" => LastSent[d] # None /\ l.from = LastSent[d]
    <2>1. buffer[d].version > 0 => buffer[d].loaded /\ buffer[d].sent # None
      <3>1. buffer[d].loaded \in BOOLEAN
        BY Typed DEF Buffer
      <3> QED
        BY <1>1, <3>1 DEF Recorded
    <2> QED
      BY <1>1, <2>1 DEF Carries
  <1>6. \A c \in Docs : e[c] = IF l.type = "close" /\ c = l.doc THEN None
                               ELSE IF l.type \in Sync /\ c = l.doc THEN l.text ELSE LastSent[c]
    BY <1>3, <1>4 DEF Sync
  <1>7. Good(input, LastSent, Ticks)
    BY DEF Texted
  <1>8. Good(Append(input, l), e, Ticks)
    <2> DEFINE u == LastSent
               t == Ticks
    <2>1. /\ Good(input, u, t) /\ \A c \in Docs : t[c] \in Texts
          /\ l.type = "delta" => u[l.doc] # None /\ l.from = u[l.doc]
          /\ l.type \in {"save", "ask"} => u[l.doc] # None /\ l.text = u[l.doc]
          /\ l.type # "close" => l.text = t[l.doc]
          /\ \A c \in Docs : e[c] = IF l.type = "close" /\ c = l.doc THEN None
                                    ELSE IF l.type \in Sync /\ c = l.doc THEN l.text ELSE u[c]
      BY <1>1, <1>4, <1>5, <1>6, <1>7
    <2> HIDE DEF u, t
    <2>2. Good(Append(input, l), e, t)
      BY <1>1, <1>3, <1>4, <2>1, GoodAppend
    <2> QED
      BY <2>2 DEF t
  <1> QED
    BY <1>1, <1>3, <1>4, <1>8

\* A text is sent.
LEMMA Flushes ==
  ASSUME Inv, NEW d \in Docs, NEW b \in Buffer, buffer' = [buffer EXCEPT ![d] = b],
         uses' \in 0..MaxUses, uses <= uses',
         b.loaded, b.tick = buffer[d].tick, b.sent = b.tick, b.changes = None, b.version > 0
  PROVE  /\ buffer' \in [Docs -> Buffer] /\ Buffers'
         /\ LastSent' = [LastSent EXCEPT ![d] = buffer[d].tick] /\ Ticks' = Ticks
  <1>1. /\ Recorded(buffer[d], uses) /\ buffer[d] \in Buffer /\ uses \in 0..MaxUses
        /\ Ticks \in [Docs -> Texts] /\ Ticks[d] = buffer[d].tick
    BY Typed
  <1>2. b.tick \in Nat /\ b.tick <= uses /\ b.tick # None
    BY <1>1, Numbers DEF Recorded, Buffer
  <1>3. b.tick <= uses' /\ b.tick <= b.tick
    BY <1>1, <1>2
  <1>4. Recorded(b, uses')
    BY <1>2, <1>3 DEF Recorded
  <1>5. /\ buffer' \in [Docs -> Buffer] /\ Buffers'
        /\ LastSent' = [LastSent EXCEPT ![d] = IF b.version > 0 THEN b.sent ELSE None]
        /\ Ticks' = [Ticks EXCEPT ![d] = b.tick]
    BY <1>4, OneBuffer
  <1>6. [Ticks EXCEPT ![d] = b.tick] = Ticks
    BY <1>1
  <1>7. (IF b.version > 0 THEN b.sent ELSE None) = buffer[d].tick
    OBVIOUS
  <1> QED
    BY <1>5, <1>6, <1>7

\* What the user does is counted.
LEMMA Using ==
  ASSUME Inv, Used
  PROVE  uses' \in 0..MaxUses /\ uses <= uses' /\ uses' = uses + 1
  <1>1. uses \in 0..MaxUses /\ MaxUses \in Nat
    BY Typed, Numbers
  <1>2. uses < MaxUses /\ uses' = uses + 1
    BY DEF Used
  <1> QED
    BY <1>1, <1>2

\* OnBufOpen writes the text of a buffer that it has just loaded.
LEMMA OpenBufferStep ==
  ASSUME Inv, NEW d \in Docs, OpenBuffer(d)
  PROVE  Inv' /\ (Texted => Texted')
  <1> DEFINE b == [Sent(buffer[d]) EXCEPT !.loaded = TRUE]
  <1>1. /\ Used /\ buffer' = [buffer EXCEPT ![d] = b] /\ input' = Append(input, OpenLine(d))
        /\ UNCHANGED <<kind, caps, reopens, attempts, starting, uriFt, asking, alive, events,
                       serverVars>>
    BY Typed DEF OpenBuffer
  <1>2. b \in Buffer /\ b.loaded /\ b.tick = buffer[d].tick /\ b.sent = b.tick
        /\ b.changes = None /\ b.version > 0
    <2>1. /\ Sent(buffer[d]) \in Buffer /\ Sent(buffer[d]).tick = buffer[d].tick
          /\ Sent(buffer[d]).sent = buffer[d].tick
          /\ Sent(buffer[d]).changes = None /\ Sent(buffer[d]).version \in 1..3
      BY Typed, SentFields
    <2> DEFINE s == Sent(buffer[d])
    <2>2. s \in Buffer /\ s.tick = buffer[d].tick /\ s.sent = buffer[d].tick
          /\ s.changes = None /\ s.version \in 1..3
      BY <2>1
    <2>3. b = [s EXCEPT !.loaded = TRUE]
      OBVIOUS
    <2> HIDE DEF s, b
    <2>4. b \in Buffer
      BY <2>2, <2>3 DEF Buffer
    <2>5. /\ b.loaded /\ b.tick = s.tick /\ b.sent = s.sent
          /\ b.changes = s.changes /\ b.version = s.version
      BY <2>2, <2>3 DEF Buffer
    <2> QED
      BY <2>2, <2>4, <2>5
  <1> HIDE DEF b
  <1>3. uses' \in 0..MaxUses /\ uses <= uses'
    BY <1>1, Using
  <1>4. /\ buffer' \in [Docs -> Buffer] /\ Buffers'
        /\ LastSent' = [LastSent EXCEPT ![d] = buffer[d].tick] /\ Ticks' = Ticks
    BY <1>1, <1>2, <1>3, Flushes
  <1>5. input \in Seq(Lines) /\ OpenLine(d) \in Lines
    BY Typed, OpenCarries DEF Carries
  <1>6. Inv'
    BY <1>1, <1>3, <1>4, <1>5, EditorStep DEF Inv, TypeOK
  <1>7. ASSUME Texted PROVE Texted'
    <2>1. Good(input', LastSent', Ticks')
      BY <1>1, <1>4, <1>7, OpenCarries, GoodCarries
    <2>2. input' \in Seq(Lines) /\ Ticks' \in [Docs -> Texts]
      BY <1>1, <1>4, <1>5, Typed
    <2> QED
      BY <1>1, <1>7, <2>1, <2>2, EditorTexted
  <1> QED
    BY <1>6, <1>7

\* An edit is recorded from the text that was sent last, or joins what is recorded.
LEMMA EditStep ==
  ASSUME Inv, NEW d \in Docs, Edit(d)
  PROVE  Inv' /\ (Texted => Texted')
  <1>1. PICK r : r = buffer[d]
    OBVIOUS
  <1>2. r \in Buffer /\ Recorded(r, uses) /\ uses \in 0..MaxUses
    BY <1>1, Typed
  <1>3. /\ r.loaded \in BOOLEAN /\ r.tick \in Texts /\ r.version \in 0..3
        /\ r.sent \in Texts \union {None} /\ r.changes \in Texts \union {None}
    BY <1>2 DEF Buffer
  <1>4. /\ r.loaded /\ Used
        /\ UNCHANGED <<kind, caps, reopens, attempts, daemonVars, serverVars>>
    BY <1>1 DEF Edit
  <1>5. uses' \in 0..MaxUses /\ uses <= uses' /\ uses' = uses + 1
    BY <1>4, Using
  <1>6. /\ r.version > 0 /\ r.sent \in Texts /\ r.sent <= r.tick /\ r.tick <= uses
        /\ r.changes = (IF r.tick = r.sent THEN None ELSE r.sent)
    BY <1>2, <1>3, <1>4 DEF Recorded
  <1>7. /\ r.tick + 1 \in Texts /\ r.tick <= r.tick + 1 /\ r.tick + 1 <= uses'
        /\ r.sent <= r.tick + 1 /\ r.tick + 1 # r.sent
    BY <1>2, <1>3, <1>5, <1>6, Numbers
  <1> DEFINE b == [r EXCEPT !.tick = @ + 1, !.timer = TRUE, !.changes = r.sent]
  <1>8. (IF r.changes = None THEN r.tick ELSE r.changes) = r.sent
    BY <1>3, <1>6, Numbers
  <1>9. buffer' = [buffer EXCEPT ![d] = b]
    <2>1. buffer' = [buffer EXCEPT ![d] = [r EXCEPT !.tick = @ + 1, !.timer = TRUE,
                       !.changes = IF r.changes = None THEN r.tick ELSE r.changes]]
      BY <1>1, <1>2, Typed DEF Edit, Buffer
    <2> QED
      BY <1>8, <2>1
  <1>10. b \in Buffer
    <2>1. r.tick + 1 \in Texts /\ r.sent \in Texts \union {None}
      BY <1>6, <1>7
    <2> QED
      BY <1>2, <2>1 DEF Buffer
  <1>11. /\ b.loaded /\ b.tick = r.tick + 1 /\ b.version = r.version /\ b.sent = r.sent
         /\ b.changes = r.sent /\ b.timer
    BY <1>2, <1>4 DEF Buffer
  <1> HIDE DEF b
  <1>12. Recorded(b, uses')
    <2>1. r.sent # None
      BY <1>6, Numbers
    <2> QED
      BY <1>6, <1>7, <1>11, <2>1 DEF Recorded
  <1>13. /\ buffer' \in [Docs -> Buffer] /\ Buffers'
         /\ LastSent' = [LastSent EXCEPT ![d] = IF b.version > 0 THEN b.sent ELSE None]
         /\ Ticks' = [Ticks EXCEPT ![d] = b.tick]
    BY <1>5, <1>9, <1>10, <1>12, OneBuffer
  <1>14. UNCHANGED <<input, starting, uriFt, asking, alive, events>>
    BY <1>4 DEF daemonVars
  <1>15. Inv'
    <2>1. input' \in Seq(Lines) /\ events' \in Seq({"running", "stopped", "error"})
          /\ caps' \in BOOLEAN /\ reopens' \in Nat /\ attempts' \in 0..MaxRestarts
      BY <1>4, <1>14 DEF Inv, TypeOK
    <2> QED
      BY <1>4, <1>5, <1>13, <1>14, <2>1, EditorStep
  <1>16. LastSent' = LastSent
    <2>1. LastSent \in [Docs -> Texts \union {None}] /\ LastSent[d] = r.sent
      BY <1>1, <1>6, Typed
    <2> QED
      BY <1>6, <1>11, <1>13, <2>1
  <1>17. PICK u : u = [Ticks EXCEPT ![d] = b.tick]
    OBVIOUS
  <1>18. /\ u \in [Docs -> Texts] /\ Ticks' = u
         /\ \A c \in Docs : Ticks[c] <= u[c]
    <2>1. Ticks \in [Docs -> Texts] /\ Ticks[d] = r.tick
      BY <1>1, Typed
    <2>2. u \in [Docs -> Texts] /\ u[d] = r.tick + 1
          /\ \A c \in Docs : c # d => u[c] = Ticks[c]
      BY <1>7, <1>11, <1>17, <2>1
    <2>3. \A c \in Docs : Ticks[c] \in Nat
      BY <2>1, Numbers
    <2>4. \A c \in Docs : Ticks[c] <= Ticks[c]
      BY <2>3
    <2> QED
      BY <1>7, <1>13, <1>17, <2>1, <2>2, <2>4
  <1>19. Texted => Texted'
    BY <1>4, <1>14, <1>16, <1>18, EditsTexted
  <1> QED
    BY <1>15, <1>19

\* A buffer whose text is sent, and for which no timer is armed any more.
LEMMA Quiet ==
  ASSUME NEW r \in Buffer, NEW b, b = [Sent(r) EXCEPT !.timer = FALSE]
  PROVE  /\ b \in Buffer /\ b.loaded = r.loaded /\ b.tick = r.tick /\ b.sent = b.tick
         /\ b.changes = None /\ b.version > 0
  <1>1. PICK s : s = Sent(r)
    OBVIOUS
  <1>2. /\ s \in Buffer /\ s.tick = r.tick /\ s.sent = r.tick /\ s.loaded = r.loaded
        /\ s.changes = None /\ s.version \in 1..3
    BY <1>1, SentFields
  <1>3. b = [s EXCEPT !.timer = FALSE]
    BY <1>1
  <1>4. b \in Buffer
    BY <1>2, <1>3 DEF Buffer
  <1>5. /\ b.loaded = s.loaded /\ b.tick = s.tick /\ b.sent = s.sent
        /\ b.changes = s.changes /\ b.version = s.version
    BY <1>2, <1>3 DEF Buffer
  <1> QED
    BY <1>2, <1>4, <1>5

\* The debounce timer sends what is recorded, of a buffer that is loaded.
LEMMA TimerFiresStep ==
  ASSUME Inv, NEW d \in Docs, TimerFires(d)
  PROVE  Inv' /\ (Texted => Texted')
  <1>1. PICK b : b = [Sent(buffer[d]) EXCEPT !.timer = FALSE]
    OBVIOUS
  <1>2. /\ buffer[d].timer /\ buffer' = [buffer EXCEPT ![d] = b]
        /\ input' = Append(input, ChangeLine(d))
        /\ UNCHANGED <<kind, caps, reopens, attempts, uses, starting, uriFt, asking, alive, events,
                       serverVars>>
    BY <1>1, Typed DEF TimerFires
  <1>3. buffer[d].loaded
    <2>1. Recorded(buffer[d], uses) /\ buffer[d] \in Buffer
      BY Typed
    <2> QED
      BY <1>2, <2>1 DEF Recorded, Buffer
  <1>4. /\ b \in Buffer /\ b.loaded /\ b.tick = buffer[d].tick /\ b.sent = b.tick
        /\ b.changes = None /\ b.version > 0
    <2>1. PICK r \in Buffer : r = buffer[d]
      BY Typed
    <2>2. b = [Sent(r) EXCEPT !.timer = FALSE]
      BY <1>1, <2>1
    <2>3. /\ b \in Buffer /\ b.loaded = r.loaded /\ b.tick = r.tick /\ b.sent = b.tick
          /\ b.changes = None /\ b.version > 0
      BY <2>2, Quiet
    <2> QED
      BY <1>3, <2>1, <2>3
  <1>5. uses' \in 0..MaxUses /\ uses <= uses'
    <2>1. uses' = uses /\ uses \in 0..MaxUses
      BY <1>2, Typed
    <2> QED
      BY <2>1, Numbers
  <1>6. /\ buffer' \in [Docs -> Buffer] /\ Buffers'
        /\ LastSent' = [LastSent EXCEPT ![d] = buffer[d].tick] /\ Ticks' = Ticks
    BY <1>2, <1>4, <1>5, Flushes
  <1>7. input \in Seq(Lines) /\ ChangeLine(d) \in Lines /\ Carries(d, ChangeLine(d))
    BY <1>3, Typed, ChangeCarries DEF Carries
  <1>8. input' \in Seq(Lines)
    BY <1>2, <1>7, AppendTo
  <1>9. Inv'
    BY <1>2, <1>5, <1>6, <1>8, EditorStep DEF Inv, TypeOK
  <1>10. ASSUME Texted PROVE Texted'
    <2>1. Good(input', LastSent', Ticks')
      BY <1>2, <1>6, <1>7, <1>10, GoodCarries
    <2>2. Ticks' \in [Docs -> Texts]
      BY <1>6, Typed
    <2> QED
      BY <1>2, <1>8, <1>10, <2>1, <2>2, EditorTexted
  <1> QED
    BY <1>9, <1>10

\* A request is written when the text it is on is the last one sent.
LEMMA GoodRequest ==
  ASSUME Inv, NEW d \in Docs, NEW type \in {"save", "ask"},
         NEW q \in Seq(Lines), NEW e \in [Docs -> Texts \union {None}],
         Good(q, e, Ticks), e[d] = buffer[d].tick
  PROVE  LET l == Line(type, d, None, buffer[d].tick)
         IN  l \in Lines /\ Append(q, l) \in Seq(Lines) /\ Good(Append(q, l), e, Ticks)
  <1>1. PICK l : l = Line(type, d, None, buffer[d].tick)
    OBVIOUS
  <1>2. PICK t : t = Ticks
    OBVIOUS
  <1>3. asking \subseteq Lines /\ t \in [Docs -> Texts] /\ t[d] = buffer[d].tick
    BY <1>2, Typed
  <1>4. buffer[d].tick \in Texts
    BY <1>3
  <1>5. l \in Lines
    BY <1>1, <1>4, IsLine
  <1>6. l.type = type /\ l.doc = d /\ l.text = buffer[d].tick
    BY <1>1, LineFields
  <1>7. e[d] # None
    BY <1>4, Numbers
  <1>8. Good(Append(q, l), e, t)
    <2>1. \A c \in Docs : e[c] = IF l.type = "close" /\ c = l.doc THEN None
                                 ELSE IF l.type \in Sync /\ c = l.doc THEN l.text ELSE e[c]
      BY <1>6 DEF Sync
    <2>2. /\ l.type = "delta" => e[l.doc] # None /\ l.from = e[l.doc]
          /\ l.type \in {"save", "ask"} => e[l.doc] # None /\ l.text = e[l.doc]
          /\ l.type # "close" => l.text = t[l.doc]
          /\ \A c \in Docs : t[c] \in Texts
          /\ Good(q, e, t)
      BY <1>2, <1>3, <1>6, <1>7
    <2> QED
      BY <1>3, <1>5, <2>1, <2>2, GoodAppend
  <1> QED
    BY <1>1, <1>2, <1>5, <1>8, AppendTo

\* A completion or a save writes its request after the text that it is on.
LEMMA UsesTextStep ==
  ASSUME Inv, NEW d \in Docs, NEW type \in {"save", "ask"}, NEW pending \in BOOLEAN,
         ~pending /\ buffer[d].loaded => buffer[d].sent = buffer[d].tick,
         UsesText(d, type, pending)
  PROVE  Inv' /\ (Texted => Texted')
  <1>1. PICK r : r = buffer[d]
    OBVIOUS
  <1>2. r \in Buffer /\ Recorded(r, uses)
    BY <1>1, Typed
  <1>3. PICK l : l = Line(type, d, None, r.tick)
    OBVIOUS
  <1>4. /\ r.loaded /\ Used
        /\ UNCHANGED <<kind, caps, reopens, attempts, starting, uriFt, asking, alive, events,
                       serverVars>>
    BY <1>1 DEF UsesText
  <1>5. PICK b : b = IF pending THEN [Sent(r) EXCEPT !.timer = FALSE] ELSE [r EXCEPT !.timer = FALSE]
    OBVIOUS
  <1>6. /\ buffer' = [buffer EXCEPT ![d] = b]
        /\ input' = IF pending THEN input \o <<ChangeLine(d), l>> ELSE Append(input, l)
    BY <1>1, <1>3, <1>5, Typed DEF UsesText
  <1>7. /\ b \in Buffer /\ b.loaded /\ b.tick = r.tick /\ b.sent = b.tick
        /\ b.changes = None /\ b.version > 0
    <2>1. CASE pending
      <3>1. b = [Sent(r) EXCEPT !.timer = FALSE]
        BY <1>5, <2>1
      <3> QED
        BY <1>2, <1>4, <3>1, Quiet
    <2>2. CASE ~pending
      <3>1. b = [r EXCEPT !.timer = FALSE]
        BY <1>5, <2>2
      <3>2. b \in Buffer /\ b.loaded = r.loaded /\ b.tick = r.tick /\ b.sent = r.sent
            /\ b.changes = r.changes /\ b.version = r.version
        BY <1>2, <3>1 DEF Buffer
      <3>3. r.sent = r.tick /\ r.changes = None /\ r.version > 0
        BY <1>1, <1>2, <1>4, <2>2 DEF Recorded
      <3> QED
        BY <1>4, <3>2, <3>3
    <2> QED
      BY <2>1, <2>2
  <1>8. uses' \in 0..MaxUses /\ uses <= uses'
    BY <1>4, Using
  <1>9. /\ buffer' \in [Docs -> Buffer] /\ Buffers'
        /\ LastSent' = [LastSent EXCEPT ![d] = r.tick] /\ Ticks' = Ticks
    BY <1>1, <1>6, <1>7, <1>8, Flushes
  <1>10. /\ input \in Seq(Lines) /\ ChangeLine(d) \in Lines /\ Carries(d, ChangeLine(d))
         /\ l \in Lines
    <2>1. r.tick \in Texts
      BY <1>2 DEF Buffer
    <2> QED
      BY <1>1, <1>3, <1>4, <2>1, Typed, IsLine, ChangeCarries DEF Carries
  <1>11. /\ Append(input, ChangeLine(d)) \in Seq(Lines) /\ Append(input, l) \in Seq(Lines)
         /\ pending => input' = Append(Append(input, ChangeLine(d)), l)
    <2>1. input \o <<ChangeLine(d), l>> = Append(Append(input, ChangeLine(d)), l)
      BY <1>10, TwoLines
    <2> QED
      BY <1>6, <1>10, <2>1, AppendTo
  <1>12. input' \in Seq(Lines)
    BY <1>6, <1>10, <1>11, AppendTo
  <1>13. Inv'
    BY <1>4, <1>8, <1>9, <1>12, EditorStep DEF Inv, TypeOK
  <1>14. ASSUME Texted PROVE Texted'
    <2>1. PICK e : e = [LastSent EXCEPT ![d] = r.tick]
      OBVIOUS
    <2>2. e \in [Docs -> Texts \union {None}] /\ e[d] = r.tick
      BY <1>1, <1>10, <1>14, <2>1, GoodCarries
    <2>3. PICK q \in Seq(Lines) : /\ Good(q, e, Ticks) /\ input' = Append(q, l)
      <3>1. CASE pending
        <4>1. /\ Append(input, ChangeLine(d)) \in Seq(Lines)
              /\ Good(Append(input, ChangeLine(d)), e, Ticks)
          BY <1>1, <1>10, <1>14, <2>1, GoodCarries
        <4> QED
          BY <1>11, <3>1, <4>1
      <3>2. CASE ~pending
        <4>1. LastSent \in [Docs -> Texts \union {None}] /\ LastSent[d] = r.tick
          <5>1. r.version > 0 /\ r.sent = r.tick
            BY <1>1, <1>2, <1>4, <3>2 DEF Recorded
          <5> QED
            BY <1>1, <5>1, Typed
        <4>2. e = LastSent
          BY <2>1, <4>1
        <4>3. Good(input, e, Ticks)
          BY <1>14, <4>2 DEF Texted
        <4> QED
          BY <1>6, <1>10, <3>2, <4>3
      <3> QED
        BY <3>1, <3>2
    <2>4. Good(Append(q, l), e, Ticks) /\ Append(q, l) \in Seq(Lines)
      BY <1>1, <1>3, <2>2, <2>3, GoodRequest
    <2>5. Good(input', LastSent', Ticks')
      BY <1>9, <2>1, <2>3, <2>4
    <2>6. Ticks' \in [Docs -> Texts]
      BY <1>9, Typed
    <2> QED
      BY <1>4, <1>12, <1>14, <2>5, <2>6, EditorTexted
  <1> QED
    BY <1>13, <1>14

\* A completion has its text flushed when it is not the one that was sent last.
LEMMA CompleteStep ==
  ASSUME Inv, NEW d \in Docs, Complete(d)
  PROVE  Inv' /\ (Texted => Texted')
  <1>1. PICK pending \in BOOLEAN : pending <=> buffer[d].sent # buffer[d].tick
    OBVIOUS
  <1>2. UsesText(d, "ask", pending)
    BY <1>1 DEF Complete, UsesText
  <1> QED
    BY <1>1, <1>2, UsesTextStep

\* A save looks at the timer, which is armed while anything is pending.
LEMMA SaveBufferStep ==
  ASSUME Inv, NEW d \in Docs, SaveBuffer(d)
  PROVE  Inv' /\ (Texted => Texted')
  <1>1. buffer[d] \in Buffer /\ Recorded(buffer[d], uses)
    BY Typed
  <1>2. buffer[d].timer \in BOOLEAN
    BY <1>1 DEF Buffer
  <1>3. PICK pending \in BOOLEAN : pending = buffer[d].timer
    BY <1>2
  <1>4. UsesText(d, "save", pending)
    BY <1>3 DEF SaveBuffer
  <1>5. ~pending /\ buffer[d].loaded => buffer[d].sent = buffer[d].tick
    BY <1>1, <1>3 DEF Recorded
  <1> QED
    BY <1>4, <1>5, UsesTextStep

\* OnBufClose forgets what was sent.
LEMMA CloseBufferStep ==
  ASSUME Inv, NEW d \in Docs, CloseBuffer(d)
  PROVE  Inv' /\ (Texted => Texted')
  <1>1. PICK r : r = buffer[d]
    OBVIOUS
  <1>2. r \in Buffer /\ Recorded(r, uses)
    BY <1>1, Typed
  <1>3. PICK l : l = Line("close", d, None, None)
    OBVIOUS
  <1>4. PICK b : b = [Unloaded EXCEPT !.tick = r.tick]
    OBVIOUS
  <1>5. /\ r.loaded /\ Used
        /\ buffer' = [buffer EXCEPT ![d] = b] /\ input' = Append(input, l)
        /\ UNCHANGED <<kind, caps, reopens, attempts, starting, uriFt, asking, alive, events,
                       serverVars>>
    BY <1>1, <1>3, <1>4 DEF CloseBuffer
  <1>6. b \in Buffer /\ ~b.loaded /\ b.tick = r.tick /\ b.version = 0 /\ ~b.timer
    <2>1. r.tick \in Texts
      BY <1>2 DEF Buffer
    <2>2. b = [loaded |-> FALSE, tick |-> r.tick, version |-> 0, sent |-> None,
               changes |-> None, timer |-> FALSE]
      BY <1>4 DEF Unloaded
    <2>3. None \in Texts \union {None} /\ 0 \in 0..3
      OBVIOUS
    <2>4. b \in Buffer
      BY <2>1, <2>2, <2>3 DEF Buffer
    <2> QED
      BY <2>2, <2>4
  <1>7. uses' \in 0..MaxUses /\ uses <= uses'
    BY <1>5, Using
  <1>8. Recorded(b, uses')
    <2>1. r.tick \in Nat /\ uses \in Nat /\ uses' \in Nat /\ r.tick <= uses
      BY <1>2, <1>7, Typed, Numbers DEF Buffer, Recorded
    <2>2. b.tick <= uses'
      BY <1>6, <1>7, <2>1
    <2> QED
      BY <1>6, <2>2 DEF Recorded
  <1>9. /\ buffer' \in [Docs -> Buffer] /\ Buffers'
        /\ LastSent' = [LastSent EXCEPT ![d] = IF b.version > 0 THEN b.sent ELSE None]
        /\ Ticks' = [Ticks EXCEPT ![d] = b.tick]
    BY <1>5, <1>6, <1>7, <1>8, OneBuffer
  <1>10. Ticks' = Ticks /\ LastSent' = [LastSent EXCEPT ![d] = None]
    <2>1. Ticks \in [Docs -> Texts] /\ Ticks[d] = r.tick
      BY <1>1, Typed
    <2> QED
      BY <1>6, <1>9, <2>1
  <1>11. input \in Seq(Lines) /\ l \in Lines
    BY <1>3, Typed, IsClose
  <1>12. input' \in Seq(Lines)
    BY <1>5, <1>11, AppendTo
  <1>13. Inv'
    BY <1>5, <1>7, <1>9, <1>12, EditorStep DEF Inv, TypeOK
  <1>14. ASSUME Texted PROVE Texted'
    <2>1. PICK e, f, t : e = LastSent /\ f = [LastSent EXCEPT ![d] = None] /\ t = Ticks
      OBVIOUS
    <2>2. /\ e \in [Docs -> Texts \union {None}] /\ asking \subseteq Lines
          /\ \A c \in Docs : t[c] \in Texts
      BY <2>1, Typed
    <2>3. /\ f \in [Docs -> Texts \union {None}] /\ f[d] = None
          /\ \A c \in Docs : c # d => f[c] = e[c]
      BY <2>1, <2>2
    <2>4. l.type = "close" /\ l.doc = d
      BY <1>3, LineFields
    <2>5. Good(input, e, t)
      BY <1>14, <2>1 DEF Texted
    <2>6. /\ l.type = "delta" => e[l.doc] # None /\ l.from = e[l.doc]
          /\ l.type \in {"save", "ask"} => e[l.doc] # None /\ l.text = e[l.doc]
          /\ l.type # "close" => l.text = t[l.doc]
          /\ \A c \in Docs : f[c] = IF l.type = "close" /\ c = l.doc THEN None
                                    ELSE IF l.type \in Sync /\ c = l.doc THEN l.text ELSE e[c]
      BY <2>3, <2>4 DEF Sync
    <2>7. Good(Append(input, l), f, t)
      BY <1>11, <2>2, <2>3, <2>5, <2>6, GoodAppend
    <2>8. Good(input', LastSent', Ticks')
      BY <1>5, <1>10, <2>1, <2>7
    <2>9. Ticks' \in [Docs -> Texts]
      BY <1>10, Typed
    <2> QED
      BY <1>5, <1>12, <1>14, <2>8, <2>9, EditorTexted
  <1> QED
    BY <1>13, <1>14

\* The editor neither writes a line nor changes a buffer.
LEMMA IdleEditor ==
  ASSUME Inv, UNCHANGED <<kind, buffer, uses, input, starting, uriFt, asking, alive, serverVars>>,
         caps' \in BOOLEAN, reopens' \in Nat, attempts' \in 0..MaxRestarts,
         events' \in Seq({"running", "stopped", "error"})
  PROVE  Inv' /\ (Texted => Texted')
  <1>1. /\ buffer \in [Docs -> Buffer] /\ uses \in 0..MaxUses /\ input \in Seq(Lines)
        /\ Ticks \in [Docs -> Texts]
    BY Typed
  <1>2. buffer' \in [Docs -> Buffer] /\ uses' \in 0..MaxUses /\ input' \in Seq(Lines)
    BY <1>1
  <1>3. Buffers'
    BY DEF Inv, Buffers, Recorded
  <1>4. Inv'
    BY <1>2, <1>3, EditorStep
  <1>5. LastSent' = LastSent /\ Ticks' = Ticks
    BY DEF LastSent, Ticks
  <1>6. PICK u \in [Docs -> Texts] : u = Ticks
    BY <1>1
  <1>7. \A d \in Docs : Ticks[d] <= u[d]
    BY <1>6, Numbers
  <1>8. Texted => Texted'
    BY <1>5, <1>6, <1>7, EditsTexted
  <1> QED
    BY <1>4, <1>8

\* A stop is answered by a restart as long as some are left.
LEMMA ReadEventStep ==
  ASSUME Inv, ReadEvent
  PROVE  Inv' /\ (Texted => Texted')
  <1>1. /\ events # <<>> /\ events' = Tail(events)
        /\ events \in Seq({"running", "stopped", "error"})
        /\ caps \in BOOLEAN /\ reopens \in Nat /\ attempts \in 0..MaxRestarts
        /\ MaxRestarts \in Nat
    BY Numbers DEF ReadEvent, Inv, TypeOK
  <1>2. events' \in Seq({"running", "stopped", "error"})
    BY <1>1, TailOf
  <1>3. /\ caps' \in BOOLEAN
        /\ (reopens' = reopens /\ attempts' = attempts)
           \/ (attempts < MaxRestarts /\ reopens' = reopens + 1 /\ attempts' = attempts + 1)
    <2>1. CASE Head(events) = "stopped"
      <3>1. PICK n \in {0, 1} :
              n = IF (\E d \in Docs : buffer[d].loaded) /\ MayRestart THEN 1 ELSE 0
        OBVIOUS
      <3>2. caps' = FALSE /\ reopens' = reopens + n /\ attempts' = attempts + n
        BY <2>1, <3>1 DEF ReadEvent
      <3>3. n = 1 => attempts < MaxRestarts
        BY <3>1 DEF MayRestart
      <3>4. caps' \in BOOLEAN
        BY <3>2
      <3>5. reopens + 0 = reopens /\ attempts + 0 = attempts
        BY <1>1
      <3>6. n = 0 \/ n = 1
        OBVIOUS
      <3> QED
        BY <3>2, <3>3, <3>4, <3>5, <3>6
    <2>2. CASE Head(events) # "stopped"
      BY <1>1, <2>2 DEF ReadEvent
    <2> QED
      BY <2>1, <2>2
  <1>4. reopens' \in Nat /\ attempts' \in 0..MaxRestarts
    BY <1>1, <1>3
  <1>5. UNCHANGED <<kind, buffer, uses, input, starting, uriFt, asking, alive, serverVars>>
    BY DEF ReadEvent
  <1> QED
    BY <1>2, <1>3, <1>4, <1>5, IdleEditor

\* The count of restarts starts again.
LEMMA MinutePassesStep ==
  ASSUME Inv, MinutePasses
  PROVE  Inv' /\ (Texted => Texted')
  <1>1. UNCHANGED <<kind, buffer, uses, input, starting, uriFt, asking, alive, serverVars,
                    caps, reopens, events>>
    BY DEF MinutePasses, daemonVars
  <1>2. /\ caps' \in BOOLEAN /\ reopens' \in Nat
        /\ events' \in Seq({"running", "stopped", "error"})
    BY <1>1 DEF Inv, TypeOK
  <1>3. attempts' \in 0..MaxRestarts
    BY Numbers DEF MinutePasses
  <1> QED
    BY <1>1, <1>2, <1>3, IdleEditor

\* The loaded buffers, one after the other.
LEMMA SeqOfSet ==
  ASSUME NEW S, IsFiniteSet(S), NEW s, s = SetToSeq(S)
  PROVE  /\ s \in Seq(S) /\ Len(s) \in Nat
         /\ \A i \in 1 .. Len(s) : s[i] \in S
         /\ \A i, j \in 1 .. Len(s) : s[i] = s[j] => i = j
         /\ \A x \in S : \E i \in 1 .. Len(s) : s[i] = x
  <1> DEFINE n == Cardinality(S)
  <1>1. n \in Nat /\ ExistsBijection(1 .. n, S)
    BY FS_CardinalityType
  <1>2. \E f \in [1 .. n -> S] : IsInjective(f)
    BY <1>1 DEF ExistsBijection, Bijection, Injection
  <1>3. s \in [1 .. n -> S] /\ IsInjective(s)
    BY <1>2 DEF SetToSeq
  <1>4. s \in Injection(1 .. n, S)
    BY <1>3 DEF Injection
  <1>5. IsFiniteSet(1 .. n) /\ Cardinality(1 .. n) = n
    BY <1>1, FS_Interval
  <1>6. s \in Surjection(1 .. n, S)
    BY <1>4, <1>5, FS_Injection
  <1> HIDE DEF n
  <1>7. s \in Seq(S) /\ Len(s) = n
    BY <1>1, <1>3
  <1>8. \A i, j \in 1 .. n : s[i] = s[j] => i = j
    BY <1>3 DEF IsInjective
  <1>9. \A x \in S : \E i \in 1 .. n : s[i] = x
    BY <1>6 DEF Surjection
  <1> QED
    BY <1>1, <1>3, <1>7, <1>8, <1>9

\* ReopenBuffersForFiletypes opens every loaded buffer again with its present text.
LEMMA ReopenTimerStep ==
  ASSUME Inv, ReopenTimer
  PROVE  Inv' /\ (Texted => Texted')
  <1>1. PICK again \in SUBSET Docs : again = {d \in Docs : buffer[d].loaded}
    OBVIOUS
  <1>2. PICK lines : lines = SetToSeq(again)
    OBVIOUS
  <1>3. PICK r : r = [i \in 1..Len(lines) |-> OpenLine(lines[i])]
    OBVIOUS
  <1>4. /\ reopens > 0 /\ reopens' = reopens - 1
        /\ buffer' = [d \in Docs |-> IF d \in again THEN Sent(buffer[d]) ELSE buffer[d]]
        /\ input' = input \o r
        /\ UNCHANGED <<kind, caps, attempts, uses, starting, uriFt, asking, alive, events,
                       serverVars>>
    BY <1>1, <1>2, <1>3 DEF ReopenTimer
  <1>5. /\ Len(lines) \in Nat
        /\ \A i \in 1 .. Len(lines) : lines[i] \in again
        /\ \A i, j \in 1 .. Len(lines) : lines[i] = lines[j] => i = j
        /\ \A x \in again : \E i \in 1 .. Len(lines) : lines[i] = x
    <2>1. IsFiniteSet(again)
      BY SyncAssumption, FS_Subset
    <2> QED
      BY <1>2, <2>1, SeqOfSet
  <1>6. \A d \in Docs : buffer[d] \in Buffer /\ Recorded(buffer[d], uses)
    BY Typed
  <1>7. \A d \in Docs : /\ OpenLine(d) \in Lines /\ OpenLine(d).doc = d
                        /\ OpenLine(d).type = "open" /\ OpenLine(d).text = Ticks[d]
    <2> SUFFICES ASSUME NEW d \in Docs
                 PROVE  /\ OpenLine(d) \in Lines /\ OpenLine(d).doc = d
                        /\ OpenLine(d).type = "open" /\ OpenLine(d).text = Ticks[d]
      OBVIOUS
    <2> QED
      BY OpenCarries, Typed, LineFields DEF Carries, OpenLine
  <1>8. r \in Seq(Lines) /\ Len(r) = Len(lines)
        /\ \A i \in 1 .. Len(r) : r[i] = OpenLine(lines[i])
    BY <1>3, <1>5, <1>7
  <1>9. \A d \in Docs : /\ buffer'[d] \in Buffer /\ Recorded(buffer'[d], uses)
                        /\ buffer'[d].tick = buffer[d].tick
                        /\ (IF buffer'[d].version > 0 THEN buffer'[d].sent ELSE None)
                             = IF d \in again THEN Ticks[d] ELSE LastSent[d]
    <2> SUFFICES ASSUME NEW d \in Docs
                 PROVE  /\ buffer'[d] \in Buffer /\ Recorded(buffer'[d], uses)
                        /\ buffer'[d].tick = buffer[d].tick
                        /\ (IF buffer'[d].version > 0 THEN buffer'[d].sent ELSE None)
                             = IF d \in again THEN Ticks[d] ELSE LastSent[d]
      OBVIOUS
    <2>1. CASE d \in again
      <3>1. PICK b : b = buffer[d]
        OBVIOUS
      <3>2. PICK s : s = Sent(b)
        OBVIOUS
      <3>3. b \in Buffer /\ Recorded(b, uses) /\ b.loaded /\ buffer'[d] = s /\ Ticks[d] = b.tick
        BY <1>1, <1>4, <1>6, <2>1, <3>1, <3>2, Typed
      <3>4. /\ s \in Buffer /\ s.tick = b.tick /\ s.sent = b.tick /\ s.changes = None
            /\ s.version \in 1..3 /\ s.loaded
        BY <3>2, <3>3, SentFields
      <3>5. b.tick \in Nat /\ b.tick <= uses /\ b.tick # None
        BY <3>3, Numbers DEF Buffer, Recorded
      <3>6. Recorded(s, uses)
        BY <3>4, <3>5 DEF Recorded
      <3> QED
        BY <2>1, <3>1, <3>3, <3>4, <3>6
    <2>2. CASE d \notin again
      BY <1>4, <1>6, <2>2, Typed
    <2> QED
      BY <2>1, <2>2
  <1>10. buffer' \in [Docs -> Buffer] /\ Buffers'
    <2>1. \A d \in Docs : Recorded(buffer[d], uses)'
      BY <1>4, <1>9 DEF Recorded
    <2>2. buffer' \in [Docs -> Buffer]
      BY <1>4, <1>9
    <2> QED
      BY <2>1, <2>2 DEF Buffers
  <1>11. input' \in Seq(Lines) /\ input \in Seq(Lines) /\ asking \subseteq Lines
    BY <1>4, <1>8, Typed
  <1>12. Inv'
    <2>1. /\ reopens' \in Nat /\ caps' \in BOOLEAN /\ attempts' \in 0..MaxRestarts
          /\ uses' \in 0..MaxUses /\ events' \in Seq({"running", "stopped", "error"})
      BY <1>4 DEF Inv, TypeOK
    <2> QED
      BY <1>4, <1>10, <1>11, <2>1, EditorStep
  <1>13. Ticks' = Ticks
         /\ LastSent' = [d \in Docs |-> IF d \in again THEN Ticks[d] ELSE LastSent[d]]
    BY <1>9 DEF Ticks, LastSent
  <1>14. ASSUME Texted PROVE Texted'
    <2>1. PICK e, f, t : /\ e = LastSent /\ t = Ticks
                         /\ f = [d \in Docs |-> IF d \in again THEN Ticks[d] ELSE LastSent[d]]
      OBVIOUS
    <2>2. e \in [Docs -> Texts \union {None}] /\ t \in [Docs -> Texts]
      BY <2>1, Typed
    <2>3. /\ f \in [Docs -> Texts \union {None}]
          /\ \A d \in Docs : f[d] = IF d \in again THEN t[d] ELSE e[d]
      BY <2>1, <2>2
    <2>4. /\ \A i \in 1 .. Len(r) : /\ r[i].type = "open" /\ r[i].doc \in again
                                    /\ r[i].text = t[r[i].doc]
          /\ \A i, j \in 1 .. Len(r) : r[i].doc = r[j].doc => i = j
          /\ \A d \in again : \E i \in 1 .. Len(r) : r[i].doc = d
      <3>1. \A i \in 1 .. Len(r) : /\ r[i].doc = lines[i] /\ lines[i] \in again
                                   /\ r[i].type = "open" /\ r[i].text = t[lines[i]]
        BY <1>1, <1>5, <1>7, <1>8, <2>1
      <3> QED
        BY <1>5, <1>8, <3>1
    <2>5. Good(input, e, t) /\ \A d \in Docs : t[d] \in Texts
      BY <1>14, <2>1, <2>2 DEF Texted
    <2>6. Good(input \o r, f, t)
      BY <1>8, <1>11, <2>3, <2>4, <2>5, GoodOpens
    <2>7. Good(input', f, t) /\ LastSent' = f /\ Ticks' = t
      BY <1>4, <1>13, <2>1, <2>6
    <2> QED
      BY <1>4, <1>11, <1>14, <2>2, <2>7, EditorTexted
  <1> QED
    BY <1>12, <1>14

-----------------------------------------------------------------------------
(* The daemon and the server.                                              *)

\* What a line makes of the text that the server has of its document.
LEMMA AppliedIs ==
  ASSUME NEW l \in Lines
  PROVE  /\ l.type = "open" => Applied(l) = l.text
         /\ l.type = "full" => Applied(l) = IF copy[l.doc] = Closed THEN Closed ELSE l.text
         /\ l.type = "delta" => Applied(l) = IF copy[l.doc] = Closed THEN Closed
                                  ELSE IF kind = "incremental" /\ copy[l.doc] = l.from
                                         THEN l.text ELSE Wrong
         /\ l.type = "close" => Applied(l) = Closed
         /\ l.type \in {"save", "ask"} => Applied(l) = copy[l.doc]
  BY DEF Applied

\* A line is forwarded: only a live client of a process that runs has an effect,
\* on the text of its document.
LEMMA Forwarded ==
  ASSUME Inv, NEW l \in Lines, Forward(l), up' = up
  PROVE  /\ alive' \in BOOLEAN /\ (alive' => alive)
         /\ copy' \in [Docs -> Texts \union {Closed, Wrong}] /\ checked' \in Lines \union {NoLine}
         /\ \A d \in Docs : d # l.doc => copy'[d] = copy[d]
         /\ alive /\ up => copy'[l.doc] = Applied(l)
         /\ l.type \in {"save", "ask"} => copy' = copy
         /\ checked' # checked => /\ alive /\ up /\ checked' = l
                                  /\ l.type \in {"save", "ask"}
  <1>1. /\ copy \in [Docs -> Texts \union {Closed, Wrong}] /\ alive \in BOOLEAN /\ up \in BOOLEAN
        /\ checked \in Lines \union {NoLine}
    BY Typed DEF Inv, TypeOK
  <1>2. /\ l.doc \in Docs /\ l.text \in Texts \union {None}
        /\ l.type \in {"open", "full", "delta", "close", "save", "ask"}
        /\ l.type # "close" => l.text \in Texts
    BY LineTypes
  <1>3. Applied(l) \in Texts \union {Closed, Wrong}
    <2>1. copy[l.doc] \in Texts \union {Closed, Wrong}
      BY <1>1, <1>2
    <2> QED
      BY <1>2, <2>1, AppliedIs
  <1>4. CASE ~alive \/ ~up
    <2>1. copy' = copy /\ checked' = checked /\ alive' \in BOOLEAN /\ (alive' => alive)
      BY <1>1, <1>4 DEF Forward
    <2> QED
      BY <1>1, <1>4, <2>1
  <1>5. CASE alive /\ up
    <2>1. /\ copy' = [copy EXCEPT ![l.doc] = Applied(l)] /\ alive' = alive
          /\ checked' = IF l.type \in {"save", "ask"} THEN l ELSE checked
      BY <1>5 DEF Forward
    <2>2. /\ copy' \in [Docs -> Texts \union {Closed, Wrong}] /\ copy'[l.doc] = Applied(l)
          /\ \A d \in Docs : d # l.doc => copy'[d] = copy[d]
      BY <1>1, <1>2, <1>3, <2>1
    <2>3. l.type \in {"save", "ask"} => copy' = copy
      <3>1. l.type \in {"save", "ask"} => Applied(l) = copy[l.doc]
        BY AppliedIs
      <3> QED
        BY <1>1, <1>2, <2>1, <3>1
    <2> QED
      BY <1>1, <1>5, <2>1, <2>2, <2>3
  <1> QED
    BY <1>1, <1>4, <1>5

\* The daemon and the server leave the editor alone.
LEMMA DaemonStep ==
  ASSUME Inv, UNCHANGED <<kind, editorVars>>, Loop',
         input' \in Seq(Lines), starting' \in Lines \union {NoLine}, uriFt' \subseteq Docs,
         asking' \subseteq Lines, alive' \in BOOLEAN,
         events' \in Seq({"running", "stopped", "error"}), session' \in Nat, up' \in BOOLEAN,
         ended' \subseteq 1..session', copy' \in [Docs -> Texts \union {Closed, Wrong}],
         checked' \in Lines \union {NoLine}
  PROVE  /\ Inv' /\ LastSent' = LastSent /\ Ticks' = Ticks
  <1>1. UNCHANGED <<kind, buffer, caps, reopens, attempts, uses>>
    BY DEF editorVars
  <1>2. TypeOK'
    BY <1>1 DEF Inv, TypeOK
  <1>3. Buffers'
    BY <1>1 DEF Inv, Buffers, Recorded
  <1>4. LastSent' = LastSent /\ Ticks' = Ticks
    BY <1>1 DEF LastSent, Ticks
  <1> QED
    BY <1>2, <1>3, <1>4 DEF Inv

\* The types of what such a step does not touch.
LEMMA DaemonTypes ==
  ASSUME Inv
  PROVE  /\ input \in Seq(Lines) /\ starting \in Lines \union {NoLine} /\ uriFt \subseteq Docs
         /\ asking \subseteq Lines /\ alive \in BOOLEAN
         /\ events \in Seq({"running", "stopped", "error"}) /\ session \in Nat /\ up \in BOOLEAN
         /\ ended \subseteq 1..session /\ copy \in [Docs -> Texts \union {Closed, Wrong}]
         /\ checked \in Lines \union {NoLine}
  BY DEF Inv, TypeOK

\* A line is read: what it says of its document is what the server has of it.
LEMMA ReadTexted ==
  ASSUME Inv, Texted, Inv', LastSent' = LastSent, Ticks' = Ticks,
         input # <<>>, starting = NoLine, input' = Tail(input),
         NEW l, l = input[1], \A a \in asking' : a \in asking \/ a = l,
         \A d \in Docs : ~Speaks(input, 1, d) =>
            /\ starting' # NoLine => starting'.doc # d
            /\ starting' = NoLine /\ alive' /\ up' => alive /\ up /\ copy'[d] = copy[d],
         \A d \in Docs : Speaks(input, 1, d) => Fits(d, l.text)'
  PROVE  Texted'
  <1>1. PICK q, e, t : q \in Seq(Lines) /\ q = input /\ e = LastSent /\ t = Ticks /\ l = q[1]
    BY Typed
  <1>2. /\ Good(q, e, t) /\ q # <<>> /\ asking \subseteq Lines /\ l \in Lines
        /\ 1 \in 1 .. Len(q)
    <2>1. Len(q) \in Nat \ {0} /\ q[1] \in Lines
      BY <1>1, TailOf
    <2> QED
      BY <1>1, <2>1, Typed DEF Texted
  <1>3. \A d \in Docs : ~Speaks(q, 1, d) =>
          /\ starting' # NoLine => starting'.doc # d
          /\ starting' = NoLine /\ alive' /\ up' => alive /\ up /\ copy'[d] = copy[d]
    BY <1>1
  <1>4. \A d \in Docs : \A x : ~Speaks(q, 1, d) /\ Fits(d, x) => Fits(d, x)'
    BY <1>3 DEF Fits
  <1>5. \A d \in Docs : Speaks(q, 1, d) => Fits(d, l.text)'
    BY <1>1
  <1>6. Good(Tail(q), e, t)'
    BY <1>1, <1>2, <1>4, <1>5, GoodTail
  <1>7. Asked'
    <2> SUFFICES ASSUME NEW a \in asking'
                 PROVE  /\ alive' /\ up' => copy'[a.doc] = Closed \/ copy'[a.doc] >= a.text
                        /\ starting' # NoLine /\ starting'.doc = a.doc => starting'.text >= a.text
      BY DEF Asked
    <2>1. a \in Lines /\ a.type = "ask" /\ (starting' # NoLine => ~alive' /\ starting'.type = "open")
      BY DEF Inv, TypeOK, Loop
    <2>2. a.doc \in Docs /\ a.text \in Texts
      BY <2>1, LineTypes
    <2>3. /\ copy'[a.doc] \in Texts \union {Closed, Wrong}
          /\ starting' # NoLine => starting'.text \in Texts
      <3>1. starting' \in Lines \union {NoLine} /\ copy' \in [Docs -> Texts \union {Closed, Wrong}]
        BY DEF Inv, TypeOK
      <3> QED
        BY <2>1, <2>2, <3>1, LineTypes
    <2>4. CASE Speaks(q, 1, a.doc)
      <3>1. l.doc = a.doc /\ l.type \in Sync
        BY <1>1, <2>4 DEF Speaks
      <3>2. a \in asking
        BY <1>1, <2>1, <3>1 DEF Sync
      <3>3. l.type # "close" => l.text >= a.text
        BY <1>1, <1>2, <3>1, <3>2 DEF Good
      <3>4. l.type = "close" => l.text = None
        BY <1>2, LineTypes
      <3>5. /\ starting' # NoLine /\ starting'.doc = a.doc => starting'.text = l.text
            /\ starting' = NoLine /\ alive' /\ up' => copy'[a.doc] \in {Closed, l.text}
        BY <1>5, <2>2, <2>4 DEF Fits
      <3>6. starting' # NoLine /\ starting'.doc = a.doc => starting'.text >= a.text
        BY <2>3, <3>3, <3>4, <3>5, Numbers
      <3>7. alive' /\ up' => copy'[a.doc] = Closed \/ copy'[a.doc] >= a.text
        <4>1. ASSUME alive', up', copy'[a.doc] # Closed PROVE copy'[a.doc] >= a.text
          <5>1. copy'[a.doc] = l.text
            BY <2>1, <3>5, <4>1
          <5>2. l.type # "close"
            BY <2>3, <3>4, <5>1, Numbers
          <5> QED
            BY <3>3, <5>1, <5>2
        <4> QED
          BY <4>1
      <3> QED
        BY <3>6, <3>7
    <2>5. CASE ~Speaks(q, 1, a.doc)
      <3>1. /\ starting' # NoLine => starting'.doc # a.doc
            /\ starting' = NoLine /\ alive' /\ up' =>
                 alive /\ up /\ copy'[a.doc] = copy[a.doc]
        BY <1>3, <2>2, <2>5
      <3>2. CASE a \in asking
        <4>1. alive /\ up => copy[a.doc] = Closed \/ copy[a.doc] >= a.text
          BY <3>2 DEF Texted, Asked
        <4> QED
          BY <2>1, <3>1, <4>1
      <3>3. CASE a = l
        <4>1. Latest(q, a.doc, 1, a.text)
          BY <1>1, <1>2, <2>1, <3>3 DEF Good, LinkedAt
        <4>2. Fits(a.doc, a.text)
          BY <4>1 DEF Latest
        <4>3. alive /\ up => copy[a.doc] = Closed \/ copy[a.doc] = a.text
          BY <4>2 DEF Fits
        <4>4. a.text >= a.text
          BY <2>2, Numbers
        <4> QED
          BY <2>1, <3>1, <4>3, <4>4
      <3> QED
        BY <1>1, <3>2, <3>3
    <2> QED
      BY <2>4, <2>5
  <1>8. input' = Tail(q) /\ LastSent' = e /\ Ticks' = t
    BY <1>1
  <1> QED
    BY <1>6, <1>7, <1>8 DEF Texted

\* No line is read.
LEMMA ServerTexted ==
  ASSUME Inv, Texted, LastSent' = LastSent, Ticks' = Ticks, input' = input,
         asking' \subseteq asking, Asked',
         \A d \in Docs : \A x : Fits(d, x) => Fits(d, x)'
  PROVE  Texted'
  <1>1. PICK q, e, t : q \in Seq(Lines) /\ q = input /\ e = LastSent /\ t = Ticks
    BY Typed
  <1>2. \A d \in Docs : t[d] \in Int /\ t[d] <= t[d]
    <2>1. \A d \in Docs : t[d] \in Int
      BY <1>1, Typed, Numbers
    <2> QED
      BY <2>1
  <1>3. Good(q, e, t) /\ asking \subseteq Lines
    BY <1>1, Typed DEF Texted
  <1>4. Good(q, e, t)'
    BY <1>1, <1>2, <1>3, GoodLater
  <1> QED
    BY <1>1, <1>4 DEF Texted

\* The head of the lines, when one is read.
LEMMA HeadIs ==
  ASSUME Inv, input # <<>>
  PROVE  /\ Head(input) = input[1] /\ Head(input) \in Lines /\ Tail(input) \in Seq(Lines)
         /\ 1 \in 1 .. Len(input)
  BY Typed, TailOf

\* What is forwarded is what the texts say it should be: a change finds the text
\* that it starts from, a save the text that was saved.
LEMMA HeadApplies ==
  ASSUME Inv, Texted, kind = "incremental", input # <<>>, starting = NoLine, alive, up,
         NEW l, l = Head(input)
  PROVE  /\ l.type \in Sync => Applied(l) \in {Closed, l.text}
         /\ l.type \in {"save", "ask"} => copy[l.doc] \in {Closed, l.text}
  <1>1. l \in Lines /\ l = input[1] /\ 1 \in 1 .. Len(input)
    BY HeadIs
  <1>2. LinkedAt(input, 1)
    BY <1>1 DEF Texted, Good
  <1>3. \A d \in Docs : \A x : Latest(input, d, 1, x) => copy[d] \in {Closed, x}
    BY DEF Latest, Fits
  <1>4. l.doc \in Docs
    BY <1>1, LineTypes
  <1>5. l.type = "delta" => copy[l.doc] \in {Closed, l.from}
    BY <1>1, <1>2, <1>3, <1>4 DEF LinkedAt
  <1>6. l.type \in {"save", "ask"} => copy[l.doc] \in {Closed, l.text}
    BY <1>1, <1>2, <1>3, <1>4 DEF LinkedAt
  <1>7. l.type \in Sync => Applied(l) \in {Closed, l.text}
    BY <1>1, <1>5, AppliedIs DEF Sync
  <1> QED
    BY <1>6, <1>7

\* A line is forwarded to the server that runs, or is for a document that it has
\* not got open.
LEMMA ForwardTexted ==
  ASSUME Inv, Texted, Inv', kind = "incremental", LastSent' = LastSent, Ticks' = Ticks,
         input # <<>>, starting = NoLine, starting' = NoLine, input' = Tail(input), up' = up,
         NEW l, l = Head(input), \A a \in asking' : a \in asking \/ a = l,
         \/ Forward(l)
         \/ /\ UNCHANGED <<alive, copy>>
            /\ l.type \in Sync /\ alive /\ up => copy[l.doc] = Closed
  PROVE  Texted'
  <1>1. l \in Lines /\ l = input[1]
    BY HeadIs
  <1>2. /\ alive' => alive
        /\ \A d \in Docs : d # l.doc => copy'[d] = copy[d]
        /\ l.type \in {"save", "ask"} => copy' = copy
        /\ l.type \in Sync /\ alive /\ up => copy'[l.doc] \in {Closed, l.text}
    <2>1. CASE Forward(l)
      <3>1. /\ alive' => alive
            /\ \A d \in Docs : d # l.doc => copy'[d] = copy[d]
            /\ l.type \in {"save", "ask"} => copy' = copy
            /\ alive /\ up => copy'[l.doc] = Applied(l)
        BY <1>1, <2>1, Forwarded
      <3>2. l.type \in Sync /\ alive /\ up => Applied(l) \in {Closed, l.text}
        BY HeadApplies
      <3> QED
        BY <3>1, <3>2
    <2>2. CASE UNCHANGED <<alive, copy>> /\ (l.type \in Sync /\ alive /\ up => copy[l.doc] = Closed)
      BY <2>2
    <2> QED
      BY <2>1, <2>2
  <1>3. l.type \in Sync \/ l.type \in {"save", "ask"}
    BY <1>1, LineTypes DEF Sync
  <1>4. ASSUME NEW d \in Docs, ~Speaks(input, 1, d)
        PROVE  alive' /\ up' => alive /\ up /\ copy'[d] = copy[d]
    <2>1. d # l.doc \/ l.type \in {"save", "ask"}
      BY <1>1, <1>3, <1>4 DEF Speaks
    <2> QED
      BY <1>2, <2>1
  <1>5. ASSUME NEW d \in Docs, Speaks(input, 1, d)
        PROVE  Fits(d, l.text)'
    <2>1. d = l.doc /\ l.type \in Sync
      BY <1>1, <1>5 DEF Speaks
    <2>2. alive' /\ up' => copy'[d] \in {Closed, l.text}
      BY <1>2, <2>1
    <2> QED
      BY <2>2 DEF Fits
  <1> QED
    BY <1>1, <1>4, <1>5, ReadTexted

\* A didOpen reaches a live client, or starts a server with its text.
LEMMA ReadOpenStep ==
  ASSUME Inv, ReadOpen
  PROVE  Inv' /\ (kind = "incremental" /\ Texted => Texted')
  <1>1. PICK l : l = Head(input)
    OBVIOUS
  <1>2. /\ starting = NoLine /\ input # <<>> /\ l.type = "open" /\ input' = Tail(input)
        /\ uriFt' = uriFt \union {l.doc}
        /\ \/ alive /\ Forward(l) /\ starting' = starting
           \/ ~alive /\ starting' = l /\ UNCHANGED <<alive, copy, checked>>
        /\ UNCHANGED <<kind, editorVars, asking, events, session, up, ended>>
    BY <1>1 DEF ReadOpen, Reads
  <1>3. l \in Lines /\ l = input[1] /\ input' \in Seq(Lines) /\ l.doc \in Docs
    BY <1>1, <1>2, HeadIs, LineTypes
  <1>4. /\ alive' \in BOOLEAN /\ (alive' => alive)
        /\ copy' \in [Docs -> Texts \union {Closed, Wrong}] /\ checked' \in Lines \union {NoLine}
        /\ \A d \in Docs : d # l.doc => copy'[d] = copy[d]
        /\ starting' \in Lines \union {NoLine}
        /\ starting' # NoLine => starting' = l /\ ~alive'
    BY <1>2, <1>3, Forwarded, DaemonTypes
  <1>5. Loop'
    <2>1. starting' # NoLine => starting'.type = "open" /\ ~alive' /\ starting'.doc \in uriFt'
      BY <1>2, <1>4
    <2>2. alive' /\ up' => \A d \in Docs : copy'[d] # Closed => d \in uriFt'
      <3> SUFFICES ASSUME alive', up', NEW d \in Docs, copy'[d] # Closed PROVE d \in uriFt'
        OBVIOUS
      <3>1. alive /\ up
        BY <1>2, <1>4
      <3>2. \A c \in Docs : copy[c] # Closed => c \in uriFt
        BY <3>1 DEF Inv, Loop
      <3> QED
        BY <1>2, <1>4, <3>2
    <2>3. (\A a \in asking' : a.type = "ask") /\ (up' => session' > 0)
      BY <1>2 DEF Inv, Loop
    <2> QED
      BY <2>1, <2>2, <2>3 DEF Loop
  <1>6. Inv' /\ LastSent' = LastSent /\ Ticks' = Ticks
    <2>1. uriFt' \subseteq Docs
      BY <1>2, <1>3, DaemonTypes
    <2> QED
      BY <1>2, <1>3, <1>4, <1>5, <2>1, DaemonTypes, DaemonStep
  <1>7. ASSUME kind = "incremental", Texted PROVE Texted'
    <2>1. CASE alive /\ Forward(l) /\ starting' = starting
      BY <1>1, <1>2, <1>6, <1>7, <2>1, ForwardTexted
    <2>2. CASE ~alive /\ starting' = l /\ UNCHANGED <<alive, copy, checked>>
      <3>1. l # NoLine
        BY <1>3, LineTypes
      <3>2. ASSUME NEW d \in Docs, ~Speaks(input, 1, d) PROVE starting'.doc # d
        BY <1>2, <1>3, <2>2, <3>2 DEF Speaks, Sync
      <3>3. ASSUME NEW d \in Docs, Speaks(input, 1, d) PROVE Fits(d, l.text)'
        BY <2>2, <3>1 DEF Fits
      <3> QED
        BY <1>2, <1>3, <1>6, <1>7, <2>2, <3>1, <3>2, <3>3, ReadTexted
    <2> QED
      BY <1>2, <2>1, <2>2
  <1> QED
    BY <1>6, <1>7

\* A change, a save or a close of a document that is known is forwarded.
LEMMA ReadChangeStep ==
  ASSUME Inv, ReadChange
  PROVE  Inv' /\ (kind = "incremental" /\ Texted => Texted')
  <1>1. PICK l : l = Head(input)
    OBVIOUS
  <1>2. /\ starting = NoLine /\ input # <<>> /\ l.type \in {"delta", "full", "save"}
        /\ input' = Tail(input)
        /\ \/ l.doc \in uriFt /\ Forward(l)
           \/ l.doc \notin uriFt /\ UNCHANGED <<alive, copy, checked>>
        /\ UNCHANGED <<kind, editorVars, starting, uriFt, asking, events, session, up, ended>>
    BY <1>1 DEF ReadChange, Reads
  <1>3. l \in Lines /\ input' \in Seq(Lines) /\ l.doc \in Docs
    BY <1>1, <1>2, HeadIs, LineTypes
  <1>4. /\ alive' \in BOOLEAN /\ (alive' => alive)
        /\ copy' \in [Docs -> Texts \union {Closed, Wrong}] /\ checked' \in Lines \union {NoLine}
        /\ \A d \in Docs : d # l.doc => copy'[d] = copy[d]
        /\ l.doc \notin uriFt => copy' = copy
    BY <1>2, <1>3, Forwarded, DaemonTypes
  <1>5. Loop'
    <2>1. ASSUME alive', up', NEW d \in Docs, copy'[d] # Closed PROVE d \in uriFt'
      <3>1. alive /\ up
        BY <1>2, <1>4, <2>1
      <3>2. \A c \in Docs : copy[c] # Closed => c \in uriFt
        BY <3>1 DEF Inv, Loop
      <3> QED
        BY <1>2, <1>4, <2>1, <3>2
    <2>2. (\A a \in asking' : a.type = "ask") /\ (up' => session' > 0)
      BY <1>2 DEF Inv, Loop
    <2> QED
      BY <1>2, <2>1, <2>2 DEF Loop
  <1>6. Inv' /\ LastSent' = LastSent /\ Ticks' = Ticks
    BY <1>2, <1>3, <1>4, <1>5, DaemonTypes, DaemonStep
  <1>7. ASSUME kind = "incremental", Texted PROVE Texted'
    <2>1. l.doc \notin uriFt /\ alive /\ up => copy[l.doc] = Closed
      BY <1>3 DEF Inv, Loop
    <2> QED
      BY <1>1, <1>2, <1>6, <1>7, <2>1, ForwardTexted
  <1> QED
    BY <1>6, <1>7

\* A document that is closed is forgotten by the daemon as well as by the server.
LEMMA ReadCloseStep ==
  ASSUME Inv, ReadClose
  PROVE  Inv' /\ (kind = "incremental" /\ Texted => Texted')
  <1>1. PICK l : l = Head(input)
    OBVIOUS
  <1>2. /\ starting = NoLine /\ input # <<>> /\ l.type = "close" /\ input' = Tail(input)
        /\ uriFt' = uriFt \ {l.doc}
        /\ \/ l.doc \in uriFt /\ Forward(l)
           \/ l.doc \notin uriFt /\ UNCHANGED <<alive, copy, checked>>
        /\ UNCHANGED <<kind, editorVars, starting, asking, events, session, up, ended>>
    BY <1>1 DEF ReadClose, Reads
  <1>3. l \in Lines /\ input' \in Seq(Lines) /\ l.doc \in Docs
    BY <1>1, <1>2, HeadIs, LineTypes
  <1>4. /\ alive' \in BOOLEAN /\ (alive' => alive)
        /\ copy' \in [Docs -> Texts \union {Closed, Wrong}] /\ checked' \in Lines \union {NoLine}
        /\ \A d \in Docs : d # l.doc => copy'[d] = copy[d]
        /\ l.doc \notin uriFt => copy' = copy
        /\ l.doc \in uriFt /\ alive /\ up => copy'[l.doc] = Closed
    BY <1>2, <1>3, Forwarded, DaemonTypes, AppliedIs
  <1>5. Loop'
    <2>1. ASSUME alive', up', NEW d \in Docs, copy'[d] # Closed PROVE d \in uriFt'
      <3>1. alive /\ up
        BY <1>2, <1>4, <2>1
      <3>2. \A c \in Docs : copy[c] # Closed => c \in uriFt
        BY <3>1 DEF Inv, Loop
      <3>3. d # l.doc
        BY <1>3, <1>4, <2>1, <3>1, <3>2
      <3> QED
        BY <1>2, <1>4, <2>1, <3>2, <3>3
    <2>2. (\A a \in asking' : a.type = "ask") /\ (up' => session' > 0)
      BY <1>2 DEF Inv, Loop
    <2> QED
      BY <1>2, <2>1, <2>2 DEF Loop
  <1>6. Inv' /\ LastSent' = LastSent /\ Ticks' = Ticks
    <2>1. uriFt' \subseteq Docs
      BY <1>2, DaemonTypes
    <2> QED
      BY <1>2, <1>3, <1>4, <1>5, <2>1, DaemonTypes, DaemonStep
  <1>7. ASSUME kind = "incremental", Texted PROVE Texted'
    <2>1. l.doc \notin uriFt /\ alive /\ up => copy[l.doc] = Closed
      BY <1>3 DEF Inv, Loop
    <2> QED
      BY <1>1, <1>2, <1>6, <1>7, <2>1, ForwardTexted
  <1> QED
    BY <1>6, <1>7

\* A completion is spawned while the server has its text, or will.
LEMMA ReadAskStep ==
  ASSUME Inv, ReadAsk
  PROVE  Inv' /\ (kind = "incremental" /\ Texted => Texted')
  <1>1. PICK l : l = Head(input)
    OBVIOUS
  <1>2. /\ starting = NoLine /\ input # <<>> /\ l.type = "ask" /\ input' = Tail(input)
        /\ asking' = asking \union {l}
        /\ UNCHANGED <<kind, editorVars, starting, uriFt, alive, events, serverVars>>
    BY <1>1 DEF ReadAsk, Reads
  <1>3. UNCHANGED <<session, up, ended, copy, checked>>
    BY <1>2 DEF serverVars
  <1>4. l \in Lines /\ input' \in Seq(Lines)
    BY <1>1, <1>2, HeadIs
  <1>5. Loop'
    BY <1>2, <1>3 DEF Inv, Loop
  <1>6. Inv' /\ LastSent' = LastSent /\ Ticks' = Ticks
    <2>1. asking' \subseteq Lines
      BY <1>2, <1>4, DaemonTypes
    <2> QED
      BY <1>2, <1>3, <1>4, <1>5, <2>1, DaemonTypes, DaemonStep
  <1>7. ASSUME kind = "incremental", Texted PROVE Texted'
    <2>1. l.type \notin Sync
      BY <1>2 DEF Sync
    <2> QED
      BY <1>1, <1>2, <1>3, <1>6, <1>7, <2>1, ForwardTexted
  <1> QED
    BY <1>6, <1>7

\* A server is started with the document that called for it, and no other.
LEMMA StartedStep ==
  ASSUME Inv, Started
  PROVE  Inv' /\ (Texted => Texted')
  <1>1. /\ starting # NoLine /\ session' = session + 1 /\ up' = TRUE /\ alive' = TRUE
        /\ copy' = [d \in Docs |-> IF d = starting.doc THEN starting.text ELSE Closed]
        /\ events' = Append(events, "running") /\ starting' = NoLine
        /\ UNCHANGED <<kind, editorVars, input, uriFt, asking, ended, checked>>
    BY DEF Started
  <1>2. /\ starting \in Lines /\ starting.type = "open" /\ starting.doc \in uriFt
        /\ starting.text \in Texts
    BY <1>1, DaemonTypes, LineTypes DEF Inv, Loop
  <1>3. copy' \in [Docs -> Texts \union {Closed, Wrong}]
    BY <1>1, <1>2
  <1>4. session' \in Nat /\ session' > 0 /\ ended' \subseteq 1..session'
    BY <1>1, DaemonTypes
  <1>5. Loop'
    BY <1>1, <1>2, <1>4 DEF Inv, Loop
  <1>6. Inv' /\ LastSent' = LastSent /\ Ticks' = Ticks
    <2>1. /\ events' \in Seq({"running", "stopped", "error"}) /\ up' \in BOOLEAN
          /\ alive' \in BOOLEAN /\ starting' \in Lines \union {NoLine}
      BY <1>1, DaemonTypes
    <2> QED
      BY <1>1, <1>3, <1>4, <1>5, <2>1, DaemonTypes, DaemonStep
  <1>7. ASSUME Texted PROVE Texted'
    <2>1. \A d \in Docs : \A x : Fits(d, x) => Fits(d, x)'
      BY <1>1 DEF Fits
    <2>2. Asked'
      <3>1. \A a \in asking : a.doc = starting.doc => starting.text >= a.text
        BY <1>1, <1>7 DEF Texted, Asked
      <3>2. \A a \in asking : a.doc \in Docs
        BY DaemonTypes, LineTypes
      <3> QED
        BY <1>1, <3>1, <3>2 DEF Asked
    <2> QED
      BY <1>1, <1>6, <1>7, <2>1, <2>2, ServerTexted
  <1> QED
    BY <1>6, <1>7

\* A failed start leaves no server, as there was none.
LEMMA StartFailsStep ==
  ASSUME Inv, StartFails
  PROVE  Inv' /\ (Texted => Texted')
  <1>1. /\ starting # NoLine /\ events' = Append(events, "error") /\ starting' = NoLine
        /\ UNCHANGED <<kind, editorVars, input, uriFt, asking, alive>>
        /\ UNCHANGED <<session, up, ended, copy, checked>>
    BY DEF StartFails, serverVars
  <1>2. ~alive
    BY <1>1 DEF Inv, Loop
  <1>3. Loop'
    BY <1>1, <1>2 DEF Inv, Loop
  <1>4. Inv' /\ LastSent' = LastSent /\ Ticks' = Ticks
    <2>1. events' \in Seq({"running", "stopped", "error"})
      BY <1>1, DaemonTypes
    <2> QED
      BY <1>1, <1>3, <2>1, DaemonTypes, DaemonStep
  <1>5. ASSUME Texted PROVE Texted'
    <2>1. \A d \in Docs : \A x : Fits(d, x) => Fits(d, x)'
      BY <1>1, <1>2 DEF Fits
    <2>2. Asked'
      BY <1>1, <1>2 DEF Asked
    <2> QED
      BY <1>1, <1>4, <1>5, <2>1, <2>2, ServerTexted
  <1> QED
    BY <1>4, <1>5

\* A completion that is written late changes no text.
LEMMA AskStep ==
  ASSUME Inv, NEW l \in asking, Ask(l)
  PROVE  Inv' /\ (Texted => Texted')
  <1>1. /\ asking' = asking \ {l} /\ Forward(l)
        /\ UNCHANGED <<kind, editorVars, input, starting, uriFt, events, session, up, ended>>
    BY DEF Ask
  <1>2. l \in Lines /\ l.type = "ask"
    BY DaemonTypes DEF Inv, Loop
  <1>3. /\ alive' \in BOOLEAN /\ (alive' => alive) /\ copy' = copy
        /\ checked' \in Lines \union {NoLine}
    BY <1>1, <1>2, Forwarded
  <1>4. Loop'
    BY <1>1, <1>3 DEF Inv, Loop
  <1>5. Inv' /\ LastSent' = LastSent /\ Ticks' = Ticks
    <2>1. asking' \subseteq Lines /\ copy' \in [Docs -> Texts \union {Closed, Wrong}]
      BY <1>1, <1>3, DaemonTypes
    <2> QED
      BY <1>1, <1>3, <1>4, <2>1, DaemonTypes, DaemonStep
  <1>6. ASSUME Texted PROVE Texted'
    <2>1. \A d \in Docs : \A x : Fits(d, x) => Fits(d, x)'
      BY <1>1, <1>3 DEF Fits
    <2>2. Asked'
      BY <1>1, <1>3, <1>6 DEF Texted, Asked
    <2> QED
      BY <1>1, <1>5, <1>6, <2>1, <2>2, ServerTexted
  <1> QED
    BY <1>5, <1>6

\* A server process ends, which is noticed, and told later.
LEMMA EndStep ==
  ASSUME Inv, Dies \/ Noticed \/ \E s \in ended : SaysStopped(s)
  PROVE  Inv' /\ (Texted => Texted')
  <1>1. /\ UNCHANGED <<kind, editorVars, input, starting, uriFt, asking>>
        /\ UNCHANGED <<session, copy, checked>>
        /\ alive' \in BOOLEAN /\ (alive' => alive) /\ up' \in BOOLEAN /\ (up' => up)
        /\ events' \in Seq({"running", "stopped", "error"})
        /\ ended' \subseteq 1..session'
    <2>1. CASE Dies
      <3>1. up /\ ended' = ended \union {session} /\ session' = session /\ up' = FALSE
        BY <2>1 DEF Dies
      <3>2. session \in 1..session
        BY <3>1, DaemonTypes DEF Inv, Loop
      <3>3. ended' \subseteq 1..session'
        BY <3>1, <3>2, DaemonTypes
      <3> QED
        BY <2>1, <3>1, <3>3, DaemonTypes DEF Dies, daemonVars
    <2>2. CASE Noticed
      BY <2>2, DaemonTypes DEF Noticed, serverVars
    <2>3. CASE \E s \in ended : SaysStopped(s)
      <3>1. PICK s \in ended : SaysStopped(s)
        BY <2>3
      <3> QED
        BY <3>1, DaemonTypes DEF SaysStopped
    <2> QED
      BY <2>1, <2>2, <2>3
  <1>2. Loop'
    BY <1>1 DEF Inv, Loop
  <1>3. Inv' /\ LastSent' = LastSent /\ Ticks' = Ticks
    <2>1. copy' \in [Docs -> Texts \union {Closed, Wrong}]
      BY <1>1, DaemonTypes
    <2> QED
      BY <1>1, <1>2, <2>1, DaemonTypes, DaemonStep
  <1>4. ASSUME Texted PROVE Texted'
    <2>1. \A d \in Docs : \A x : Fits(d, x) => Fits(d, x)'
      BY <1>1 DEF Fits
    <2>2. Asked'
      BY <1>1, <1>4 DEF Texted, Asked
    <2> QED
      BY <1>1, <1>3, <1>4, <2>1, <2>2, ServerTexted
  <1> QED
    BY <1>3, <1>4

-----------------------------------------------------------------------------
(* The invariant.                                                          *)

\* Nothing is sent, recorded or opened at first.
LEMMA Start ==
  ASSUME Init
  PROVE  Inv /\ Texted
  <1>1. /\ kind \in Kinds /\ buffer = [d \in Docs |-> Unloaded]
        /\ caps = FALSE /\ reopens = 0 /\ attempts = 0 /\ uses = 0
        /\ input = <<>> /\ starting = NoLine /\ uriFt = {} /\ asking = {}
        /\ alive = FALSE /\ events = <<>> /\ session = 0 /\ up = FALSE /\ ended = {}
        /\ copy = [d \in Docs |-> Closed] /\ checked = NoLine
    BY DEF Init
  <1>2. Unloaded \in Buffer /\ Recorded(Unloaded, 0) /\ Unloaded.tick = 0 /\ Unloaded.version = 0
    <2>1. 0 \in Texts /\ 0 \in 0..3 /\ None \in Texts \union {None}
      BY Numbers
    <2> QED
      BY <2>1 DEF Unloaded, Buffer, Recorded
  <1>3. buffer \in [Docs -> Buffer] /\ Buffers
    BY <1>1, <1>2 DEF Buffers
  <1>4. /\ attempts \in 0..MaxRestarts /\ uses \in 0..MaxUses /\ input \in Seq(Lines)
        /\ events \in Seq({"running", "stopped", "error"})
        /\ copy \in [Docs -> Texts \union {Closed, Wrong}] /\ reopens \in Nat /\ session \in Nat
    BY <1>1, Numbers
  <1>5. TypeOK
    BY <1>1, <1>3, <1>4 DEF TypeOK, Buffer
  <1>6. Loop
    BY <1>1 DEF Loop
  <1>7. \A d \in Docs : LastSent[d] = None
    BY <1>1, <1>2 DEF LastSent
  <1>8. Len(input) = 0 /\ 1 .. Len(input) = {}
    BY <1>1
  <1>9. Good(input, LastSent, Ticks)
    BY <1>1, <1>7, <1>8 DEF Good
  <1>10. Asked
    BY <1>1 DEF Asked
  <1> QED
    BY <1>3, <1>5, <1>6, <1>9, <1>10 DEF Inv, Texted

\* A step that changes nothing.
LEMMA Stutter ==
  ASSUME Inv, UNCHANGED vars
  PROVE  Inv' /\ (Texted => Texted')
  <1>1. UNCHANGED <<kind, buffer, caps, reopens, attempts, uses, input, starting, uriFt, asking,
                    alive, events>> /\ UNCHANGED serverVars
    BY DEF vars, editorVars, daemonVars
  <1>2. /\ caps' \in BOOLEAN /\ reopens' \in Nat /\ attempts' \in 0..MaxRestarts
        /\ events' \in Seq({"running", "stopped", "error"})
    BY <1>1 DEF Inv, TypeOK
  <1> QED
    BY <1>1, <1>2, IdleEditor

\* Every step preserves the invariant, and with incremental changes what it says of texts.
LEMMA EachStep ==
  ASSUME Inv, [Next]_vars
  PROVE  Inv' /\ (kind = "incremental" /\ Texted => Texted')
  <1>1. CASE \E d \in Docs : \/ OpenBuffer(d) \/ Edit(d) \/ TimerFires(d) \/ Complete(d)
                             \/ SaveBuffer(d) \/ CloseBuffer(d)
    BY <1>1, OpenBufferStep, EditStep, TimerFiresStep, CompleteStep, SaveBufferStep,
       CloseBufferStep
  <1>2. CASE ReadEvent \/ MinutePasses \/ ReopenTimer
    BY <1>2, ReadEventStep, MinutePassesStep, ReopenTimerStep
  <1>3. CASE ReadOpen \/ ReadChange \/ ReadClose \/ ReadAsk
    BY <1>3, ReadOpenStep, ReadChangeStep, ReadCloseStep, ReadAskStep
  <1>4. CASE Started \/ StartFails \/ \E l \in asking : Ask(l)
    BY <1>4, StartedStep, StartFailsStep, AskStep
  <1>5. CASE Dies \/ Noticed \/ \E s \in ended : SaysStopped(s)
    BY <1>5, EndStep
  <1>6. CASE UNCHANGED vars
    BY <1>6, Stutter
  <1> QED
    BY <1>1, <1>2, <1>3, <1>4, <1>5, <1>6 DEF Next

\* Every buffer, line and process keeps its type; what is recorded of a loaded
\* buffer leads from the text that was sent last to its text; and a server has
\* only documents open of which the daemon knows the filetype.
THEOREM Inductive == Spec => []Inv
  <1>1. Init => Inv
    BY Start
  <1>2. Inv /\ [Next]_vars => Inv'
    BY EachStep
  <1> QED
    BY <1>1, <1>2, PTL DEF Spec

\* The kind of synchronisation that was negotiated stays.
LEMMA KindStays ==
  ASSUME [Next]_vars
  PROVE  kind' = kind
  <1>1. CASE UNCHANGED vars
    BY <1>1 DEF vars
  <1>2. CASE Next
    <2>1. CASE \E d \in Docs : \/ OpenBuffer(d) \/ Edit(d) \/ TimerFires(d) \/ Complete(d)
                               \/ SaveBuffer(d) \/ CloseBuffer(d)
      BY <2>1 DEF OpenBuffer, Edit, TimerFires, Complete, SaveBuffer, UsesText, CloseBuffer
    <2>2. CASE ReadEvent \/ MinutePasses \/ ReopenTimer
      BY <2>2 DEF ReadEvent, MinutePasses, ReopenTimer
    <2>3. CASE ReadOpen \/ ReadChange \/ ReadClose \/ ReadAsk
      BY <2>3 DEF ReadOpen, ReadChange, ReadClose, ReadAsk
    <2>4. CASE Started \/ StartFails \/ \E l \in asking : Ask(l)
      BY <2>4 DEF Started, StartFails, Ask
    <2>5. CASE Dies \/ Noticed \/ \E s \in ended : SaysStopped(s)
      BY <2>5 DEF Dies, Noticed, SaysStopped
    <2> QED
      BY <1>2, <2>1, <2>2, <2>3, <2>4, <2>5 DEF Next
  <1> QED
    BY <1>1, <1>2

\* The lines that are on their way to a server that takes incremental changes
\* make of its texts those of the buffers: each starts from the text that the
\* one before it left, whatever was restarted or opened again in between
\* (SendDidChange, SendDidOpen, did_change).
THEOREM TextsFollow == Spec /\ kind = "incremental" => [](Inv /\ kind = "incremental" /\ Texted)
  <1> DEFINE J == Inv /\ kind = "incremental" /\ Texted
  <1>1. Init /\ kind = "incremental" => J
    BY Start
  <1>2. J /\ [Next]_vars => J'
    BY EachStep, KindStays
  <1> QED
    BY <1>1, <1>2, PTL DEF Spec

\* Every variable has its type, and a server is not restarted more often than it
\* may be.
THEOREM TypeCorrect == Spec => []TypeOK
  <1>1. Inv => TypeOK
    BY DEF Inv
  <1> QED
    BY <1>1, Inductive, PTL

\* With no timer armed and nothing left to read, a running server that takes
\* incremental changes has the text of every buffer that it has open.
THEOREM NoEditIsLost == Spec /\ kind = "incremental" => []TextsAgree
  <1>1. ASSUME Inv, Texted PROVE TextsAgree
    <2> SUFFICES ASSUME NEW d \in Docs, Settled(d), copy[d] # Closed
                 PROVE  copy[d] = buffer[d].tick
      BY DEF TextsAgree
    <2>1. /\ buffer[d].loaded /\ ~buffer[d].timer /\ starting = NoLine /\ alive /\ up
          /\ \A i \in 1..Len(input) : input[i].doc # d
      BY DEF Settled
    <2>2. /\ Recorded(buffer[d], uses) /\ buffer[d] \in Buffer /\ input \in Seq(Lines)
          /\ LastSent[d] = IF buffer[d].version > 0 THEN buffer[d].sent ELSE None
      BY <1>1, Typed
    <2>3. LastSent[d] = buffer[d].tick /\ LastSent[d] # None
      BY <2>1, <2>2 DEF Recorded
    <2>4. Latest(input, d, Len(input) + 1, LastSent[d])
      BY <1>1, <2>3 DEF Texted, Good
    <2>5. 1 .. ((Len(input) + 1) - 1) = 1 .. Len(input)
      BY <2>2
    <2>6. Fits(d, LastSent[d])
      BY <2>1, <2>4, <2>5 DEF Latest, Speaks
    <2> QED
      BY <2>1, <2>3, <2>6 DEF Fits
  <1> QED
    BY <1>1, TextsFollow, PTL

\* A server that takes incremental changes has the text that was saved when a
\* save reaches it, and the text of a completion, or a later one, when that does.
THEOREM ServedInOrder == Spec /\ kind = "incremental" => ServedOnItsText
  <1> DEFINE Served == checked' # checked /\ copy'[checked'.doc] # Closed =>
               IF checked'.type = "save" THEN copy'[checked'.doc] = checked'.text
                                         ELSE copy'[checked'.doc] >= checked'.text
  <1>1. ASSUME Inv, kind = "incremental", Texted, Next PROVE Served
    <2> SUFFICES ASSUME checked' # checked, copy'[checked'.doc] # Closed
                 PROVE  IF checked'.type = "save" THEN copy'[checked'.doc] = checked'.text
                                                  ELSE copy'[checked'.doc] >= checked'.text
      OBVIOUS
    <2>1. ReadOpen \/ ReadChange \/ ReadClose \/ \E l \in asking : Ask(l)
      <3>1. CASE \E d \in Docs : \/ OpenBuffer(d) \/ Edit(d) \/ TimerFires(d) \/ Complete(d)
                                 \/ SaveBuffer(d) \/ CloseBuffer(d)
        BY <3>1 DEF OpenBuffer, Edit, TimerFires, Complete, SaveBuffer, UsesText, CloseBuffer,
                    serverVars
      <3>2. CASE ReadEvent \/ MinutePasses \/ ReopenTimer
        BY <3>2 DEF ReadEvent, MinutePasses, ReopenTimer, serverVars
      <3>3. CASE Started \/ StartFails \/ ReadAsk
        BY <3>3 DEF Started, StartFails, ReadAsk, serverVars
      <3>4. CASE Dies \/ Noticed \/ \E s \in ended : SaysStopped(s)
        BY <3>4 DEF Dies, Noticed, SaysStopped, serverVars
      <3> QED
        BY <1>1, <3>1, <3>2, <3>3, <3>4 DEF Next
    <2>2. CASE ReadOpen \/ ReadChange \/ ReadClose
      <3>1. PICK l : l = Head(input)
        OBVIOUS
      <3>2. /\ input # <<>> /\ starting = NoLine /\ up' = up /\ Forward(l)
            /\ l.type \in Sync \/ l.type = "save"
        BY <2>2, <3>1 DEF ReadOpen, ReadChange, ReadClose, Reads, Sync
      <3>3. l \in Lines
        BY <3>1, <3>2, HeadIs, <1>1
      <3>4. /\ alive /\ up /\ checked' = l /\ l.type \in {"save", "ask"} /\ copy' = copy
        BY <1>1, <3>2, <3>3, Forwarded
      <3>5. l.type = "save" /\ copy[l.doc] \in {Closed, l.text}
        <4>1. l.type = "save"
          BY <3>2, <3>4 DEF Sync
        <4> QED
          BY <1>1, <3>1, <3>2, <3>4, <4>1, HeadApplies
      <3> QED
        BY <3>4, <3>5
    <2>3. CASE \E l \in asking : Ask(l)
      <3>1. PICK l \in asking : Ask(l)
        BY <2>3
      <3>2. l \in Lines /\ l.type = "ask" /\ Forward(l) /\ up' = up
        BY <1>1, <3>1, DaemonTypes DEF Ask, Inv, Loop
      <3>3. alive /\ up /\ checked' = l /\ copy' = copy
        BY <1>1, <3>2, Forwarded
      <3>4. copy[l.doc] = Closed \/ copy[l.doc] >= l.text
        BY <1>1, <3>1, <3>3 DEF Texted, Asked
      <3> QED
        BY <3>2, <3>3, <3>4
    <2> QED
      BY <2>1, <2>2, <2>3
  <1>2. Inv /\ kind = "incremental" /\ Texted /\ [Next]_vars => [Served]_vars
    BY <1>1
  <1> QED
    BY <1>2, TextsFollow, PTL DEF Spec, ServedOnItsText
===============================================================================
