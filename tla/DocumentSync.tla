----------------------------- MODULE DocumentSync -----------------------------
(***************************************************************************)
(* Keeping the language server's copy of the buffers right, across server  *)
(* crashes: the editor's document synchronisation and crash restart        *)
(* (src/autoload/simplecc.vim), the daemon's loop and server registry      *)
(* (src/src/simplecc/simplecc_daemon.rs, registry.rs), the forwarding of   *)
(* texts and the dispatcher of one client (lsp/client.rs), and the server. *)
(*                                                                         *)
(* There is one server, for one filetype.  A text is represented by the    *)
(* number of edits that made it; a recorded change leads from one text to  *)
(* another and makes nonsense of any other.  Vim reports an edit to the    *)
(* change listener and raises TextChanged before it runs anything else.    *)
(***************************************************************************)
EXTENDS Integers, Sequences, SequencesExt

CONSTANTS
    Docs,         \* the documents
    Kinds,        \* what the server may negotiate: "incremental", "full"
    MaxRestarts,  \* restarts per minute of a crashed server: 3 in the code
    MaxUses,      \* bound on what the user does
    MaxDeaths,    \* bound on the deaths of server processes
    MaxInput      \* bound on unread request lines

ASSUME SyncAssumption ==
    /\ IsFiniteSet(Docs)
    /\ Kinds \subseteq {"incremental", "full"}
    /\ {MaxRestarts, MaxUses, MaxDeaths, MaxInput} \subseteq Nat

VARIABLES
    kind,         \* the server's text synchronisation
    (* the editor *)
    buffer,       \* per document, see Unloaded
    caps,         \* s_server_caps has the server: it is believed to run
    reopens,      \* armed timers for ReopenBuffersForFiletypes()
    attempts,     \* s_server_restarts[server].count
    uses,         \* what the user has done so far
    (* the daemon *)
    input,        \* request lines not yet read
    starting,     \* the didOpen that is starting a server, or NoLine
    uriFt,        \* uri_ft: documents whose filetype is known
    asking,       \* spawned completion tasks, by the line they serve
    alive,        \* the registry has a client and its alive flag is set
    events,       \* status events on their way to the editor
    (* server processes *)
    session,      \* number of the newest process
    up,           \* it runs
    ended,        \* processes that ended and whose "stopped" is still to be sent
    copy,         \* the newest process's text of each document
    checked       \* the last save or completion the server processed

editorVars == <<buffer, caps, reopens, attempts, uses>>
daemonVars == <<input, starting, uriFt, asking, alive, events>>
serverVars == <<session, up, ended, copy, checked>>
vars == <<kind, editorVars, daemonVars, serverVars>>

None   == 0 - 1
Closed == 0 - 2
Wrong  == 0 - 3
Texts  == 0..MaxUses

(* tick stands for the text, version for s_doc_versions, sent for
   s_doc_changedticks, and changes for s_pending_changes: the text that the
   recorded changes start from.  The listener is registered while the version
   is known. *)
Unloaded == [loaded |-> FALSE, tick |-> 0, version |-> 0, sent |-> None,
             changes |-> None, timer |-> FALSE]
NoLine   == [type |-> "none"]
Line(type, d, from, text) == [type |-> type, doc |-> d, from |-> from, text |-> text]

Init ==
    /\ kind \in Kinds
    /\ buffer = [d \in Docs |-> Unloaded]
    /\ caps = FALSE /\ reopens = 0 /\ attempts = 0 /\ uses = 0
    /\ input = <<>> /\ starting = NoLine /\ uriFt = {} /\ asking = {}
    /\ alive = FALSE /\ events = <<>>
    /\ session = 0 /\ up = FALSE /\ ended = {}
    /\ copy = [d \in Docs |-> Closed] /\ checked = NoLine

-----------------------------------------------------------------------------
(* The editor. *)

(* SendDidOpen, and SendDidChange likewise: whatever was recorded is in the
   text that is sent.  Versions above 2 are all alike. *)
SentKeepingChanges(b) ==                                      \* mutant
    [b EXCEPT !.version = IF @ < 3 THEN @ + 1 ELSE @, !.sent = b.tick]
Sent(b) ==
    [b EXCEPT !.version = IF @ < 3 THEN @ + 1 ELSE @, !.changes = None, !.sent = b.tick]

OpenLine(d) == Line("open", d, None, buffer[d].tick)

(* SendDidChange: the document is opened if it is not, and the first two
   versions are sent in full. *)
ChangeLine(d) ==
    LET b == buffer[d] IN
    IF b.version = 0 THEN OpenLine(d)
    ELSE IF b.changes # None /\ b.version >= 2 THEN Line("delta", d, b.changes, b.tick)
    ELSE Line("full", d, None, b.tick)

Room == Len(input) < MaxInput
Used == uses < MaxUses /\ uses' = uses + 1

(* OnBufOpen. *)
OpenBuffer(d) ==
    /\ ~buffer[d].loaded /\ Room /\ Used
    /\ buffer' = [buffer EXCEPT ![d] = [Sent(@) EXCEPT !.loaded = TRUE]]
    /\ input' = Append(input, OpenLine(d))
    /\ UNCHANGED <<kind, caps, reopens, attempts, starting, uriFt, asking, alive, events,
                   serverVars>>

(* The listener and OnTextChanged. *)
Edit(d) ==
    /\ buffer[d].loaded /\ Used
    /\ buffer' = [buffer EXCEPT ![d].tick = @ + 1, ![d].timer = TRUE,
                                ![d].changes = IF @ = None THEN buffer[d].tick ELSE @]
    /\ UNCHANGED <<kind, caps, reopens, attempts, daemonVars, serverVars>>

TimerFires(d) ==
    /\ buffer[d].timer /\ Room
    /\ buffer' = [buffer EXCEPT ![d] = [Sent(@) EXCEPT !.timer = FALSE]]
    /\ input' = Append(input, ChangeLine(d))
    /\ UNCHANGED <<kind, caps, reopens, attempts, uses, starting, uriFt, asking, alive, events,
                   serverVars>>

(* RequestCompletion and OnBufSave: text that is still pending goes first. *)
UsesTextUnflushed(d, type, pending) ==                        \* mutant
    /\ buffer[d].loaded /\ Room /\ Used
    /\ input' = Append(input, Line(type, d, None, buffer[d].tick))
    /\ UNCHANGED <<kind, buffer, caps, reopens, attempts, starting, uriFt, asking, alive, events,
                   serverVars>>
UsesText(d, type, pending) ==
    /\ buffer[d].loaded /\ Room /\ Used
    /\ LET request == Line(type, d, None, buffer[d].tick) IN
       IF pending
         THEN /\ buffer' = [buffer EXCEPT ![d] = [Sent(@) EXCEPT !.timer = FALSE]]
              /\ input' = input \o <<ChangeLine(d), request>>
         ELSE /\ buffer' = [buffer EXCEPT ![d].timer = FALSE]
              /\ input' = Append(input, request)
    /\ UNCHANGED <<kind, caps, reopens, attempts, starting, uriFt, asking, alive, events,
                   serverVars>>
Complete(d)   == UsesText(d, "ask", buffer[d].sent # buffer[d].tick)
SaveBuffer(d) == UsesText(d, "save", buffer[d].timer)

(* OnBufClose. *)
CloseBuffer(d) ==
    /\ buffer[d].loaded /\ Room /\ Used
    /\ buffer' = [buffer EXCEPT ![d] = [Unloaded EXCEPT !.tick = buffer[d].tick]]
    /\ input' = Append(input, Line("close", d, None, None))
    /\ UNCHANGED <<kind, caps, reopens, attempts, starting, uriFt, asking, alive, events,
                   serverVars>>

(* OnServerStatus.  A crashed server is restarted by opening its buffers again,
   MaxRestarts times unless a minute passes in between. *)
MayRestartOnceMore == attempts <= MaxRestarts                 \* mutant
MayRestart == attempts < MaxRestarts
ReadEvent ==
    /\ events # <<>> /\ events' = Tail(events)
    /\ IF Head(events) = "stopped"
         THEN LET again == (\E d \in Docs : buffer[d].loaded) /\ MayRestart
              IN  /\ caps' = FALSE
                  /\ reopens'  = reopens + (IF again THEN 1 ELSE 0)
                  /\ attempts' = attempts + (IF again THEN 1 ELSE 0)
         ELSE /\ caps' = (caps \/ Head(events) = "running")
              /\ UNCHANGED <<reopens, attempts>>
    /\ UNCHANGED <<kind, buffer, uses, input, starting, uriFt, asking, alive, serverVars>>

MinutePasses ==
    /\ attempts > 0 /\ reopens = 0 /\ attempts' = 0
    /\ UNCHANGED <<kind, buffer, caps, reopens, uses, daemonVars, serverVars>>

(* ReopenBuffersForFiletypes. *)
ReopenTimerOnlyUnknown ==                                     \* mutant
    /\ reopens > 0 /\ reopens' = reopens - 1
    /\ UNCHANGED <<kind, buffer, caps, attempts, uses, daemonVars, serverVars>>
ReopenTimer ==
    /\ reopens > 0 /\ Room
    /\ reopens' = reopens - 1
    /\ LET again == {d \in Docs : buffer[d].loaded}
           lines == SetToSeq(again)
       IN  /\ buffer' = [d \in Docs |-> IF d \in again THEN Sent(buffer[d]) ELSE buffer[d]]
           /\ input' = input \o [i \in 1..Len(lines) |-> OpenLine(lines[i])]
    /\ UNCHANGED <<kind, caps, attempts, uses, starting, uriFt, asking, alive, events, serverVars>>

-----------------------------------------------------------------------------
(* The server's copy. *)

(* did_change sends recorded changes to a server that takes them; for any other
   it has no text to send, and sends an empty one. *)
Applied(line) ==
    CASE line.type = "open"  -> line.text
      [] line.type = "full"  -> IF copy[line.doc] = Closed THEN Closed ELSE line.text
      [] line.type = "delta" -> IF copy[line.doc] = Closed THEN Closed
                                ELSE IF kind = "incremental" /\ copy[line.doc] = line.from
                                       THEN line.text ELSE Wrong
      [] line.type = "close" -> Closed
      [] OTHER               -> copy[line.doc]

(* A notification: a live client writes it, and a process that runs processes
   it.  A write to a process that has ended may be noticed. *)
Forward(line) ==
    IF ~alive THEN UNCHANGED <<alive, copy, checked>>
    ELSE IF ~up THEN alive' \in BOOLEAN /\ UNCHANGED <<copy, checked>>
    ELSE /\ copy' = [copy EXCEPT ![line.doc] = Applied(line)]
         /\ checked' = IF line.type \in {"save", "ask"} THEN line ELSE checked
         /\ UNCHANGED alive

-----------------------------------------------------------------------------
(* The daemon.  The loop runs a document notification to its end before it
   reads the next line. *)

Reads(type) ==
    /\ starting = NoLine /\ input # <<>> /\ Head(input).type = type
    /\ input' = Tail(input)

(* DidOpen: ensure_server() drops a dead client and starts a new one. *)
ReadOpen ==
    /\ Reads("open")
    /\ uriFt' = uriFt \union {Head(input).doc}
    /\ IF alive THEN Forward(Head(input)) /\ UNCHANGED starting
                ELSE starting' = Head(input) /\ UNCHANGED <<alive, copy, checked>>
    /\ UNCHANGED <<kind, editorVars, asking, events, session, up, ended>>

(* The server's handshake succeeds: it is announced, and the document opened. *)
Started ==
    /\ starting # NoLine
    /\ session' = session + 1 /\ up' = TRUE /\ alive' = TRUE
    /\ copy' = [d \in Docs |-> IF d = starting.doc THEN starting.text ELSE Closed]
    /\ events' = Append(events, "running")
    /\ starting' = NoLine
    /\ UNCHANGED <<kind, editorVars, input, uriFt, asking, ended, checked>>

(* ... or fails: no client is kept, and nobody reads its events. *)
StartFails ==
    /\ starting # NoLine
    /\ events' = Append(events, "error")
    /\ starting' = NoLine
    /\ UNCHANGED <<kind, editorVars, input, uriFt, asking, alive, serverVars>>

ReadChange ==
    /\ Reads("delta") \/ Reads("full") \/ Reads("save")
    /\ IF Head(input).doc \in uriFt THEN Forward(Head(input))
                                    ELSE UNCHANGED <<alive, copy, checked>>
    /\ UNCHANGED <<kind, editorVars, starting, uriFt, asking, events, session, up, ended>>

ReadClose ==
    /\ Reads("close")
    /\ uriFt' = uriFt \ {Head(input).doc}
    /\ IF Head(input).doc \in uriFt THEN Forward(Head(input))
                                    ELSE UNCHANGED <<alive, copy, checked>>
    /\ UNCHANGED <<kind, editorVars, starting, asking, events, session, up, ended>>

(* A completion is spawned, and written to the server at some later time. *)
ReadAsk ==
    /\ Reads("ask")
    /\ asking' = asking \union {Head(input)}
    /\ UNCHANGED <<kind, editorVars, starting, uriFt, alive, events, serverVars>>

Ask(line) ==
    /\ line \in asking /\ asking' = asking \ {line}
    /\ Forward(line)
    /\ UNCHANGED <<kind, editorVars, input, starting, uriFt, events, session, up, ended>>

-----------------------------------------------------------------------------
(* The end of a server process. *)

Dies ==
    /\ up /\ session <= MaxDeaths
    /\ up' = FALSE /\ ended' = ended \union {session}
    /\ UNCHANGED <<kind, editorVars, daemonVars, session, copy, checked>>

(* The dispatcher sees the end of the stream, and only after up to two seconds
   for reaping the process says so. *)
Noticed ==
    /\ alive /\ ~up /\ alive' = FALSE
    /\ UNCHANGED <<kind, editorVars, input, starting, uriFt, asking, events, serverVars>>

SaysStopped(s) ==
    /\ s \in ended /\ ~(s = session /\ alive)
    /\ ended' = ended \ {s}
    /\ events' = Append(events, "stopped")
    /\ UNCHANGED <<kind, editorVars, input, starting, uriFt, asking, alive,
                   session, up, copy, checked>>

-----------------------------------------------------------------------------
Next ==
    \/ \E d \in Docs : \/ OpenBuffer(d) \/ Edit(d) \/ TimerFires(d) \/ Complete(d)
                       \/ SaveBuffer(d) \/ CloseBuffer(d)
    \/ ReadEvent \/ MinutePasses \/ ReopenTimer
    \/ ReadOpen \/ Started \/ StartFails \/ ReadChange \/ ReadClose \/ ReadAsk
    \/ \E line \in asking : Ask(line)
    \/ Dies \/ Noticed \/ \E s \in ended : SaysStopped(s)

Spec == Init /\ [][Next]_vars

(* Timers fire, the daemon and its tasks run, ended processes are reaped, and the
   editor reads its channel; the user and the servers' deaths are not fair. *)
FairSpec ==
    /\ Spec
    /\ WF_vars(ReadEvent) /\ WF_vars(ReopenTimer)
    /\ WF_vars(ReadOpen \/ Started \/ StartFails \/ ReadChange \/ ReadClose \/ ReadAsk)
    /\ WF_vars(Noticed) /\ WF_vars(\E s \in ended : SaysStopped(s))

-----------------------------------------------------------------------------
(* Every variable has its type, and a server is not restarted more often than
   it may be (the limit in ScheduleServerRestart). *)
Lines ==
    [type : {"open", "full", "save", "ask"}, doc : Docs, from : {None}, text : Texts]
        \union [type : {"delta"}, doc : Docs, from : Texts, text : Texts]
        \union [type : {"close"}, doc : Docs, from : {None}, text : {None}]

TypeOK ==
    /\ kind \in Kinds
    /\ buffer \in [Docs -> [loaded : BOOLEAN, tick : Texts, version : 0..3,
                            sent : Texts \union {None}, changes : Texts \union {None},
                            timer : BOOLEAN]]
    /\ caps \in BOOLEAN /\ reopens \in Nat /\ attempts \in 0..MaxRestarts
    /\ uses \in 0..MaxUses
    /\ input \in Seq(Lines) /\ starting \in Lines \union {NoLine}
    /\ uriFt \subseteq Docs /\ asking \subseteq Lines /\ alive \in BOOLEAN
    /\ events \in Seq({"running", "stopped", "error"})
    /\ session \in Nat /\ up \in BOOLEAN /\ ended \subseteq 1..session
    /\ copy \in [Docs -> Texts \union {Closed, Wrong}]
    /\ checked \in Lines \union {NoLine}

(* Once everything written has been read and no timer is armed, a running server
   that has the document open has the text of the buffer: no edit is lost, sent
   twice or applied to another text, through full and incremental changes,
   restarts and repeated didOpens (SendDidOpen, SendDidChange, did_change). *)
Settled(d) ==
    /\ buffer[d].loaded /\ ~buffer[d].timer
    /\ \A i \in 1..Len(input) : input[i].doc # d
    /\ starting = NoLine /\ alive /\ up
TextsAgree ==
    \A d \in Docs : Settled(d) /\ copy[d] # Closed => copy[d] = buffer[d].tick

(* A save reaches a server whose text is the one that was saved, and a
   completion one whose text is the one it was asked on or a later one
   (FlushDidChange in OnBufSave, SyncDocumentForCompletion, the daemon's loop). *)
ServedOnItsText ==
    [][checked' # checked /\ copy'[checked'.doc] # Closed =>
         IF checked'.type = "save" THEN copy'[checked'.doc] = checked'.text
                                   ELSE copy'[checked'.doc] >= checked'.text]_vars

(* After a crash every loaded document is opened again in a running server,
   unless the restarts of the minute are used up or a start fails
   (ScheduleServerRestart, ReopenBuffersForFiletypes, ensure_server). *)
AllServed == \A d \in Docs : buffer[d].loaded => alive /\ up /\ copy[d] # Closed
GaveUp ==
    \/ "error" \in ToSet(events)
    \/ events # <<>> /\ Head(events) = "stopped" /\ ~MayRestart
ServerComesBack == ended # {} ~> AllServed \/ GaveUp
=============================================================================
