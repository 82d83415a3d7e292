--------------------------- MODULE LspRequestsProofs ---------------------------
(* Theorems about LspRequests, for any calls, keys and number of barriers. *)
EXTENDS LspRequests, TLAPS

(* A cancellation of a displaced request names a call, and a call that has
   not yet taken its key is not carrying a cancellation: what TypeOK needs of
   the messages that are appended to the wire. *)
CancelsNameCalls ==
    \A t \in Calls :
        /\ job[t] = "cancelPrev" => prev[t] \in Calls
        /\ pc[t] \in {"idle", "begin", "insert", "lock"} => job[t] = "request"

TypeInv == TypeOK /\ CancelsNameCalls

(* The inductive form of TypeOK holds initially. *)
LEMMA TypeInit == Init => TypeInv
  <1> SUFFICES ASSUME Init PROVE TypeInv
    OBVIOUS
  <1>1. CancelsNameCalls
    BY DEF Init, CancelsNameCalls
  <1>2. wire \in Seq(Message) /\ barriers \in 0..MaxBarriers
    BY CallsAssumption DEF Init
  <1>3. /\ pc \in [Calls -> PCs] /\ job \in [Calls -> Jobs]
        /\ prev \in [Calls -> Calls \union {NoCall}]
        /\ latest \in [Keys -> Calls \union {NoCall}]
    BY DEF Init, PCs, Jobs
  <1> QED
    BY <1>1, <1>2, <1>3 DEF Init, TypeInv, TypeOK

(* Every message a call may write is a message. *)
LEMMA MessageType ==
  ASSUME TypeInv, NEW t \in Calls
  PROVE  MessageOf(t) \in Message
  BY DEF TypeInv, TypeOK, CancelsNameCalls, MessageOf, Message, Jobs

(* Returning from a call, and from send_message, keeps the types of the
   variables it assigns. *)
LEMMA ReturnType ==
  ASSUME TypeInv, NEW t \in Calls, NEW r \in {"ok", "error", "superseded"}, Return(t, r)
  PROVE  /\ pc' \in [Calls -> PCs] /\ job' \in [Calls -> Jobs]
         /\ outcome' \in [Calls -> {"none", "ok", "error", "superseded", "aborted"}]
         /\ \A u \in Calls \ {t} : pc'[u] = pc[u] /\ job'[u] = job[u]
         /\ pc'[t] \in {"check", "done"} /\ (job'[t] = job[t] \/ job'[t] = "exit")
  BY DEF TypeInv, TypeOK, Return, PCs, Jobs

\* What comes after the write keeps the types.
LEMMA AfterSendType ==
  ASSUME TypeInv, NEW t \in Calls, NEW ok \in BOOLEAN, AfterSend(t, ok)
  PROVE  /\ pc' \in [Calls -> PCs] /\ job' \in [Calls -> Jobs]
         /\ outcome' \in [Calls -> {"none", "ok", "error", "superseded", "aborted"}]
         /\ latest' \in [Keys -> Calls \union {NoCall}]
         /\ latestLock' \in Calls \union {NoCall}
         /\ \A u \in Calls \ {t} : pc'[u] = pc[u] /\ job'[u] = job[u]
         /\ pc'[t] \notin {"idle", "begin", "insert", "lock"}
         /\ job'[t] = "cancelPrev" => job[t] = "cancelPrev"
  <1>1. CASE job[t] = "notify" \/ (job[t] = "cancelOwn" /\ Kind[t] # "latest")
    <2> DEFINE r == IF job[t] = "notify" /\ ok THEN "ok" ELSE "error"
    <2>1. Return(t, r) /\ UNCHANGED <<latest, latestLock>>
      BY <1>1 DEF AfterSend
    <2> HIDE DEF r
    <2>2. r \in {"ok", "error", "superseded"}
      BY DEF r
    <2> QED
      BY <1>1, <2>1, <2>2, ReturnType DEF TypeInv, TypeOK
  <1>2. CASE job[t] = "request"
    BY <1>2 DEF AfterSend, TypeInv, TypeOK, OwnsKey, PCs, Jobs
  <1>3. CASE job[t] \in {"cancelPrev", "exit", "retire"}
    BY <1>3 DEF AfterSend, TypeInv, TypeOK, PCs, Jobs
  <1>4. CASE job[t] = "cancelOwn" /\ Kind[t] = "latest"
    BY <1>4 DEF AfterSend, TypeInv, TypeOK, PCs, Jobs
  <1> QED
    BY <1>1, <1>2, <1>3, <1>4 DEF TypeInv, TypeOK, Jobs

(* Every step keeps the inductive form of TypeOK. *)
LEMMA TypeStep == TypeInv /\ [Next]_vars => TypeInv'
  <1> SUFFICES ASSUME TypeInv, [Next]_vars PROVE TypeInv'
    OBVIOUS
  <1> USE DEF TypeInv
  <1>1. ASSUME NEW t \in Calls, BeginRequest(t) PROVE TypeInv'
    <2>1. CASE alive
      BY <1>1, <2>1 DEF BeginRequest, TypeOK, CancelsNameCalls, PCs, Jobs,
                        clientVars, serverVars, daemonVars
    <2>2. CASE ~alive
      <3>1. Return(t, "error")
        BY <1>1, <2>2 DEF BeginRequest
      <3> QED
        BY <1>1, <3>1, ReturnType DEF BeginRequest, TypeOK, CancelsNameCalls,
                                      clientVars, serverVars, daemonVars
    <2> QED
      BY <2>1, <2>2
  <1>2. ASSUME NEW t \in Calls, BeginNotify(t) \/ BeginShutdown(t) PROVE TypeInv'
    <2>1. CASE BeginNotify(t)
      BY <2>1 DEF BeginNotify, TypeOK, CancelsNameCalls, PCs, Jobs,
                  clientVars, serverVars, daemonVars
    <2>2. CASE BeginShutdown(t)
      BY <2>2 DEF BeginShutdown, TypeOK, CancelsNameCalls, PCs, Jobs,
                  clientVars, serverVars, daemonVars
    <2> QED
      BY <1>2, <2>1, <2>2
  <1>3. ASSUME NEW t \in Calls, Insert(t) PROVE TypeInv'
    BY <1>3 DEF Insert, TypeOK, CancelsNameCalls, PCs, Jobs, serverVars, daemonVars
  <1>4. ASSUME NEW t \in Calls, YieldToNewer(t) PROVE TypeInv'
    BY <1>4 DEF YieldToNewer, TypeOK, CancelsNameCalls, PCs, Jobs,
                clientVars, serverVars, daemonVars
  <1>5. ASSUME NEW t \in Calls, LoseRace(t) \/ Forget(t) PROVE TypeInv'
    <2>1. Return(t, "superseded") \/ Return(t, "error")
      BY <1>5 DEF LoseRace, Forget
    <2> QED
      BY <1>5, <2>1, ReturnType DEF LoseRace, Forget, TypeOK, CancelsNameCalls,
                                    serverVars, daemonVars
  <1>6. ASSUME NEW t \in Calls, TakeKey(t) PROVE TypeInv'
    BY <1>6, CallsAssumption DEF TakeKey, TypeOK, CancelsNameCalls, PCs, Jobs,
                                 serverVars, daemonVars
  <1>7. ASSUME NEW t \in Calls, CancelPrevious(t) PROVE TypeInv'
    BY <1>7 DEF CancelPrevious, ClosedBy, TypeOK, CancelsNameCalls, PCs, Jobs,
                serverVars, daemonVars
  <1>8. ASSUME NEW t \in Calls, CheckAlive(t) PROVE TypeInv'
    <2>1. CASE alive
      BY <1>8, <2>1 DEF CheckAlive, TypeOK, CancelsNameCalls, PCs, Jobs,
                        serverVars, daemonVars
    <2>2. CASE ~alive
      <3>1. AfterSend(t, FALSE)
        BY <1>8, <2>2 DEF CheckAlive
      <3> QED
        BY <1>8, <3>1, AfterSendType DEF CheckAlive, TypeOK, CancelsNameCalls,
                                         serverVars, daemonVars
    <2> QED
      BY <2>1, <2>2
  <1>9. ASSUME NEW t \in Calls, Write(t) PROVE TypeInv'
    <2>1. wire' \in Seq(Message)
      BY <1>9, MessageType DEF Write, TypeOK
    <2>2. AfterSend(t, TRUE)
      BY <1>9 DEF Write
    <2> QED
      BY <1>9, <2>1, <2>2, AfterSendType
         DEF Write, TypeOK, CancelsNameCalls, daemonVars
  <1>10. ASSUME NEW t \in Calls, WriteFails(t) \/ FlagDead(t) \/ ClearPending(t)
         PROVE TypeInv'
    <2>0. CASE WriteFails(t)
      BY <2>0 DEF WriteFails, TypeOK, CancelsNameCalls, PCs, Jobs,
                  clientVars, serverVars, daemonVars
    <2>1. CASE FlagDead(t)
      BY <2>1
         DEF FlagDead, TypeOK, CancelsNameCalls, PCs, Jobs, serverVars, daemonVars
    <2>2. CASE ClearPending(t)
      <3>1. chan' \in [Calls -> {"none", "open", "value", "closed", "dropped"}]
        BY <2>2 DEF ClearPending, ClosedBy, TypeOK
      <3>2. pc' \in [Calls -> PCs]
        BY <2>2 DEF ClearPending, TypeOK, PCs
      <3>3. CancelsNameCalls'
        BY <2>2 DEF ClearPending, TypeOK, CancelsNameCalls
      <3> QED
        BY <2>2, <3>1, <3>2, <3>3 DEF ClearPending, TypeOK, serverVars, daemonVars
    <2> QED
      BY <1>10, <2>0, <2>1, <2>2
  <1>11. ASSUME NEW t \in Calls, Terminate(t) PROVE TypeInv'
    BY <1>11, AfterSendType DEF Terminate, TypeOK, CancelsNameCalls,
                                serverVars, daemonVars
  <1>12. ASSUME NEW t \in Calls, Answered(t) \/ Dropped(t) PROVE TypeInv'
    <2>1. CASE Kind[t] = "latest"
      BY <1>12, <2>1 DEF Answered, Dropped, TypeOK, CancelsNameCalls, PCs, Jobs,
                         clientVars, serverVars, daemonVars
    <2>2. CASE Kind[t] # "latest"
      <3>1. Return(t, "ok") \/ Return(t, "error")
        BY <1>12, <2>2 DEF Answered, Dropped
      <3> QED
        BY <1>12, <3>1, ReturnType DEF Answered, Dropped, TypeOK, CancelsNameCalls,
                                       clientVars, serverVars, daemonVars
    <2> QED
      BY <2>1, <2>2
  <1>13. ASSUME NEW t \in Calls, Timeout(t) PROVE TypeInv'
    BY <1>13 DEF Timeout, TypeOK, CancelsNameCalls, PCs, Jobs,
                 clientVars, serverVars, daemonVars
  <1>14. ASSUME NEW t \in Calls, CancelOwn(t) PROVE TypeInv'
    <2>1. CASE t \in pending \/ Kind[t] = "latest"
      BY <1>14, <2>1 DEF CancelOwn, TypeOK, CancelsNameCalls, PCs, Jobs,
                         serverVars, daemonVars
    <2>2. CASE t \notin pending /\ Kind[t] # "latest"
      <3>1. Return(t, "error")
        BY <1>14, <2>2 DEF CancelOwn
      <3> QED
        BY <1>14, <3>1, ReturnType DEF CancelOwn, TypeOK, CancelsNameCalls,
                                       serverVars, daemonVars
    <2> QED
      BY <2>1, <2>2
  <1>15. ASSUME NEW t \in Calls, Settle(t) PROVE TypeInv'
    <2>1. Return(t, "error") \/ Return(t, "superseded") \/ Return(t, "ok")
      BY <1>15 DEF Settle
    <2>2. latest' \in [Keys -> Calls \union {NoCall}]
      BY <1>15 DEF Settle, TypeOK
    <2> QED
      BY <1>15, <2>1, <2>2, ReturnType DEF Settle, TypeOK, CancelsNameCalls,
                                           serverVars, daemonVars
  <1>16. ASSUME NEW t \in Calls, Deliver(t) PROVE TypeInv'
    BY <1>16 DEF Deliver, TypeOK, CancelsNameCalls, serverVars, daemonVars
  <1>17. CASE DispatcherFlagDead \/ DispatcherClearPending \/ DispatcherTerminate
    BY <1>17
       DEF DispatcherFlagDead, DispatcherClearPending, DispatcherTerminate,
           ClosedBy,
                 TypeOK, CancelsNameCalls, callVars, serverVars, daemonVars
  <1>18. CASE ServerClosesStdin \/ ServerClosesStdout
    BY <1>18 DEF ServerClosesStdin, ServerClosesStdout, TypeOK, CancelsNameCalls,
                 callVars, clientVars, daemonVars
  <1>19. CASE Barrier
    <2>1. barriers' \in 0..MaxBarriers
      BY <1>19, CallsAssumption DEF Barrier, TypeOK
    <2> QED
      BY <1>19, <2>1
         DEF Barrier, Aborted, Active, TypeOK, CancelsNameCalls, PCs, Jobs,
             serverVars
  <1>20. CASE UNCHANGED vars
    BY <1>20
       DEF vars, callVars, clientVars, serverVars, daemonVars, TypeOK,
           CancelsNameCalls
  <1> QED
    BY <1>1, <1>2, <1>3, <1>4, <1>5, <1>6, <1>7, <1>8, <1>9, <1>10, <1>11, <1>12,
       <1>13, <1>14, <1>15, <1>16, <1>17, <1>18, <1>19, <1>20 DEF Next

(* Type correctness of the request engine. *)
THEOREM TypeCorrect == Spec => []TypeOK
  <1>1. Spec => []TypeInv
    BY TypeInit, TypeStep, PTL DEF Spec
  <1>2. TypeInv => TypeOK
    BY DEF TypeInv
  <1> QED
    BY <1>1, <1>2, PTL

-----------------------------------------------------------------------------
(* No waiter is stranded: a call that has passed its alive check with a
   registered channel is covered either by the flag or by whoever dropped it. *)

(* The dispatcher stops reading only for a client already marked dead. *)
ReadingWhileAlive == alive => disp = "run"

StrandInv == ReadingWhileAlive /\ NoStrandedWaiter

(* A step that leaves alive and the dispatcher as they are, registers nobody,
   and moves only one call, which is not about to clear the map and which
   enters neither "write" nor "wait" unless it was in one of them before,
   strands nobody. *)
LEMMA QuietStep ==
  ASSUME TypeInv, StrandInv, NEW t \in Calls,
         pending' \subseteq pending, alive' = alive, disp' = disp,
         \A u \in Calls \ {t} : pc'[u] = pc[u],
         pc[t] # "clear",
         pc'[t] \in {"write", "wait"} => alive \/ pc[t] = "write"
  PROVE  StrandInv'
  BY DEF StrandInv, ReadingWhileAlive, NoStrandedWaiter, Clearing, TypeInv, TypeOK

\* Every step preserves the two facts about a reader and its waiters.
LEMMA StrandStep ==
  TypeInv /\ StrandInv /\ [Next]_vars => StrandInv'
  <1> SUFFICES ASSUME TypeInv, StrandInv, [Next]_vars PROVE StrandInv'
    OBVIOUS
  <1> USE DEF StrandInv, ReadingWhileAlive
  <1>0. pc \in [Calls -> PCs] /\ pending \subseteq Calls
    BY DEF TypeInv, TypeOK
  <1>1. ASSUME NEW t \in Calls, Insert(t) PROVE StrandInv'
    BY <1>0, <1>1 DEF Insert, NoStrandedWaiter, Clearing
  <1>2. ASSUME NEW t \in Calls,
               \/ BeginRequest(t) \/ LoseRace(t) \/ Forget(t)
               \/ Answered(t) \/ Dropped(t) \/ CancelOwn(t) \/ Settle(t)
        PROVE StrandInv'
    <2>1. /\ \A u \in Calls \ {t} : pc'[u] = pc[u]
          /\ pc'[t] \in {"insert", "check", "settle", "done"}
      BY <1>0, <1>2
         DEF BeginRequest, LoseRace, Forget, Answered, Dropped, CancelOwn,
                        Settle, Return
    <2>2. pending' \subseteq pending /\ alive' = alive /\ disp' = disp /\ pc[t] # "clear"
      BY <1>2 DEF BeginRequest, LoseRace, Forget, Answered, Dropped, CancelOwn,
                  Settle, clientVars
    <2> QED
      BY <2>1, <2>2, QuietStep
  <1>3. ASSUME NEW t \in Calls,
               \/ BeginNotify(t) \/ BeginShutdown(t) \/ YieldToNewer(t) \/ TakeKey(t)
               \/ CancelPrevious(t) \/ WriteFails(t) \/ Timeout(t)
        PROVE StrandInv'
    <2>1. /\ \A u \in Calls \ {t} : pc'[u] = pc[u]
          /\ pc'[t] \notin {"write", "wait"}
      BY <1>0, <1>3 DEF BeginNotify, BeginShutdown, YieldToNewer, TakeKey,
                        CancelPrevious, WriteFails, Timeout
    <2>2. pending' \subseteq pending /\ alive' = alive /\ disp' = disp /\ pc[t] # "clear"
      BY <1>3 DEF BeginNotify, BeginShutdown, YieldToNewer, TakeKey,
                  CancelPrevious, WriteFails, Timeout, clientVars
    <2> QED
      BY <2>1, <2>2, QuietStep
  <1>4. ASSUME NEW t \in Calls, CheckAlive(t) \/ Write(t) \/ Terminate(t)
        PROVE StrandInv'
    <2>1. ASSUME NEW ok \in BOOLEAN, AfterSend(t, ok)
          PROVE  /\ \A u \in Calls \ {t} : pc'[u] = pc[u]
                 /\ pc'[t] \in {"write", "wait"} => ok
      BY <1>0, <2>1 DEF AfterSend, Return
    <2>2. /\ \A u \in Calls \ {t} : pc'[u] = pc[u]
          /\ pc'[t] \in {"write", "wait"} => alive \/ pc[t] = "write"
      BY <1>0, <1>4, <2>1 DEF CheckAlive, Write, Terminate
    <2>3. pending' \subseteq pending /\ alive' = alive /\ disp' = disp /\ pc[t] # "clear"
      BY <1>4 DEF CheckAlive, Write, Terminate
    <2> QED
      BY <2>2, <2>3, QuietStep
  <1>5. ASSUME NEW t \in Calls, FlagDead(t) PROVE StrandInv'
    BY <1>0, <1>5 DEF FlagDead, NoStrandedWaiter, Clearing
  <1>6. ASSUME NEW t \in Calls, ClearPending(t) PROVE StrandInv'
    BY <1>6 DEF ClearPending, NoStrandedWaiter
  <1>7. ASSUME NEW t \in Calls, Deliver(t) PROVE StrandInv'
    BY <1>7 DEF Deliver, NoStrandedWaiter, Clearing
  <1>8. CASE Dispatcher
    BY <1>8 DEF Dispatcher, DispatcherFlagDead, DispatcherClearPending,
                DispatcherTerminate, callVars, NoStrandedWaiter, Clearing
  <1>9. CASE ServerClosesStdin \/ ServerClosesStdout \/ UNCHANGED vars
    BY <1>9 DEF ServerClosesStdin, ServerClosesStdout, vars, callVars, clientVars,
                NoStrandedWaiter, Clearing
  <1>10. CASE Barrier
    BY <1>0, <1>10 DEF Barrier, Aborted, Active, NoStrandedWaiter
  <1> QED
    BY <1>1, <1>2, <1>3, <1>4, <1>5, <1>6, <1>7, <1>8, <1>9, <1>10
       DEF Next, Dispatcher

(* However calls, disconnects, failed writes and barriers interleave, no call
   waits on a registered channel of a dead client that nobody is going to
   close (client.rs: dropping every sender wakes all pending requests). *)
THEOREM NoWaiterStranded == Spec => []NoStrandedWaiter
  <1>1. Init => StrandInv
    BY DEF Init, StrandInv, ReadingWhileAlive, NoStrandedWaiter
  <1>2. Spec => []TypeInv
    BY TypeInit, TypeStep, PTL DEF Spec
  <1>3. StrandInv => NoStrandedWaiter
    BY DEF StrandInv
  <1> QED
    BY <1>1, <1>2, <1>3, StrandStep, PTL DEF Spec

-----------------------------------------------------------------------------
(* While no barrier aborts a task, no cancellation precedes its request.    *)
(* The lock on latest_requests carries the argument: a registered request   *)
(* has been written unless its owner still holds the lock, so whoever gets  *)
(* the lock next displaces only written requests.                           *)

RegisteredIsWritten ==
    \A k \in Keys : latest[k] # NoCall =>
        /\ Kind[latest[k]] = "latest" /\ Key[latest[k]] = k
        /\ Requested(latest[k]) \/ latestLock = latest[k]

DisplacedIsWritten ==
    \A t \in Calls :
        /\ pc[t] = "lock" => Kind[t] = "latest"
        /\ pc[t] = "cancelPrev" \/ job[t] = "cancelPrev"
              => prev[t] \in Calls /\ Requested(prev[t])

WaitingIsWritten ==
    \A t \in Calls :
        pc[t] \in {"wait", "expired"} \/ job[t] = "cancelOwn" => Requested(t)

CancelInv == /\ CancelAfterRequest /\ RegisteredIsWritten
             /\ DisplacedIsWritten /\ WaitingIsWritten

(* Only Write changes the wire, by appending its call's message. *)
LEMMA WireStep ==
  ASSUME TypeInv, [Next]_vars
  PROVE  \/ UNCHANGED wire
         \/ \E t \in Calls : Write(t) /\ wire' = Append(wire, MessageOf(t))
  BY DEF Next, vars, BeginRequest, BeginNotify, BeginShutdown, Insert, YieldToNewer,
         LoseRace, TakeKey, CancelPrevious, CheckAlive, Write, WriteFails, FlagDead,
         ClearPending, Terminate, Forget, Answered, Dropped, Timeout, CancelOwn,
         Settle, Deliver, DispatcherFlagDead, DispatcherClearPending,
         DispatcherTerminate, ServerClosesStdin, ServerClosesStdout, Barrier, serverVars

(* What has been written stays written. *)
LEMMA WrittenStays ==
  ASSUME TypeInv, [Next]_vars, NEW t \in Calls, Requested(t)
  PROVE  Requested(t)'
  <1>1. CASE UNCHANGED wire
    BY <1>1 DEF Requested, Written
  <1>2. ASSUME NEW u \in Calls, wire' = Append(wire, MessageOf(u)) PROVE Requested(t)'
    <2>1. wire \in Seq(Message) /\ MessageOf(u) \in Message
      BY MessageType DEF TypeInv, TypeOK
    <2> QED
      BY <1>2, <2>1 DEF Requested, Written
  <1> QED
    BY <1>1, <1>2, WireStep

(* A request that is written has been requested. *)
LEMMA WriteRequests ==
  ASSUME TypeInv, NEW t \in Calls, Write(t), job[t] = "request"
  PROVE  Requested(t)'
  <1>1. wire \in Seq(Message) /\ [type |-> "request", of |-> t] \in Message
    BY DEF TypeInv, TypeOK, Message
  <1>2. wire' = Append(wire, [type |-> "request", of |-> t])
    BY DEF Write, MessageOf
  <1>3. /\ Len(wire) + 1 \in 1..Len(wire')
        /\ wire'[Len(wire) + 1] = [type |-> "request", of |-> t]
    BY <1>1, <1>2
  <1> QED
    BY <1>3 DEF Requested, Written

\* A cancellation is written after the request it cancels.
LEMMA CancelOrderStep ==
  ASSUME TypeInv, CancelInv, [Next]_vars
  PROVE  CancelAfterRequest'
  <1>1. CASE UNCHANGED wire
    BY <1>1 DEF CancelInv, CancelAfterRequest
  <1>2. ASSUME NEW t \in Calls, Write(t), wire' = Append(wire, MessageOf(t))
        PROVE  CancelAfterRequest'
    <2>1. wire \in Seq(Message) /\ MessageOf(t) \in Message
      BY MessageType DEF TypeInv, TypeOK
    <2>2. MessageOf(t).type = "cancel" => Requested(MessageOf(t).of)
      <3>1. CASE job[t] = "cancelPrev"
        <4>1. MessageOf(t) = [type |-> "cancel", of |-> prev[t]]
          BY <3>1 DEF MessageOf
        <4> QED
          BY <3>1, <4>1 DEF CancelInv, DisplacedIsWritten
      <3>2. CASE job[t] = "cancelOwn"
        <4>1. MessageOf(t) = [type |-> "cancel", of |-> t]
          BY <3>2 DEF MessageOf
        <4> QED
          BY <3>2, <4>1 DEF CancelInv, WaitingIsWritten
      <3>3. CASE job[t] \notin {"cancelPrev", "cancelOwn"}
        <4>1. MessageOf(t).type # "cancel"
          BY <3>3 DEF MessageOf
        <4> QED
          BY <4>1
      <3> QED
        BY <3>1, <3>2, <3>3
    <2>3. SUFFICES ASSUME NEW i \in 1..Len(wire'), wire'[i].type = "cancel"
                   PROVE  \E j \in 1..(i - 1) :
                             wire'[j] = [type |-> "request", of |-> wire'[i].of]
      BY DEF CancelAfterRequest
    <2>4. CASE i \in 1..Len(wire)
      <3>1. wire'[i] = wire[i] /\ \A j \in 1..(i - 1) : wire'[j] = wire[j]
        BY <1>2, <2>1, <2>4
      <3>2. PICK j \in 1..(i - 1) : wire[j] = [type |-> "request", of |-> wire[i].of]
        BY <2>3, <2>4, <3>1 DEF CancelInv, CancelAfterRequest
      <3> QED
        BY <3>1, <3>2
    <2>5. CASE i = Len(wire) + 1
      <3>1. wire'[i] = MessageOf(t) /\ \A j \in 1..Len(wire) : wire'[j] = wire[j]
        BY <1>2, <2>1, <2>5
      <3>2. PICK j \in 1..Len(wire) :
                   wire[j] = [type |-> "request", of |-> MessageOf(t).of]
        BY <2>2, <2>3, <3>1 DEF Requested, Written
      <3> QED
        BY <2>1, <2>5, <3>1, <3>2
    <2> QED
      BY <1>2, <2>1, <2>4, <2>5
  <1> QED
    BY <1>1, <1>2, WireStep

(* The number of barriers only grows, so while it is 0 there was none. *)
LEMMA NoBarrier ==
  ASSUME TypeInv, [Next]_vars, barriers' = 0
  PROVE  barriers = 0 /\ ~Barrier
  <1>1. barriers \in Nat
    BY CallsAssumption DEF TypeInv, TypeOK
  <1>2. ~Barrier
    BY <1>1 DEF Barrier
  <1>3. UNCHANGED barriers
    <2>1. ASSUME NEW t \in Calls,
                 \/ BeginRequest(t) \/ BeginNotify(t) \/ BeginShutdown(t)
                 \/ Insert(t) \/ YieldToNewer(t) \/ LoseRace(t) \/ TakeKey(t)
                 \/ CancelPrevious(t) \/ CheckAlive(t)
          PROVE  UNCHANGED barriers
      BY <2>1
         DEF BeginRequest, BeginNotify, BeginShutdown, Insert, TakeKey, YieldToNewer,
           LoseRace, CancelPrevious, CheckAlive, clientVars, serverVars, callVars,
           daemonVars
    <2>2. ASSUME NEW t \in Calls,
                 \/ Write(t) \/ WriteFails(t) \/ FlagDead(t) \/ ClearPending(t)
                 \/ Terminate(t) \/ Forget(t)
          PROVE  UNCHANGED barriers
      BY <2>2
         DEF Write, WriteFails, AfterSend, FlagDead, ClearPending, Terminate, Forget,
           clientVars, serverVars, callVars, daemonVars
    <2>3. ASSUME NEW t \in Calls,
                 \/ Answered(t) \/ Dropped(t) \/ Timeout(t) \/ CancelOwn(t)
                 \/ Settle(t) \/ Deliver(t)
          PROVE  UNCHANGED barriers
      BY <2>3
         DEF Answered, Dropped, Timeout, CancelOwn, Settle, Deliver, clientVars,
           serverVars, callVars, daemonVars
    <2>4. ASSUME \/ DispatcherFlagDead \/ DispatcherClearPending \/ DispatcherTerminate
                 \/ ServerClosesStdin \/ ServerClosesStdout \/ UNCHANGED vars
          PROVE  UNCHANGED barriers
      BY <2>4
         DEF vars, DispatcherFlagDead, DispatcherClearPending, DispatcherTerminate,
           ServerClosesStdin, ServerClosesStdout, clientVars, serverVars, callVars,
           daemonVars
    <2> QED
      BY <1>2, <2>1, <2>2, <2>3, <2>4 DEF Next
  <1> QED
    BY <1>2, <1>3

(* Only the holder of the lock, or a call that takes it, changes the map of
   registered requests; the lock is given up by a written request, or with
   the registration. *)
LEMMA RegisteredStep ==
  ASSUME ~Barrier, TypeInv, CancelInv, [Next]_vars
  PROVE  RegisteredIsWritten'
  <1>0. /\ latest \in [Keys -> Calls \union {NoCall}]
        /\ \A u \in Calls : Requested(u) => Requested(u)'
    BY WrittenStays DEF TypeInv, TypeOK
  <1>1. CASE UNCHANGED <<latest, latestLock>>
    BY <1>0, <1>1 DEF CancelInv, RegisteredIsWritten
  <1>2. ASSUME NEW t \in Calls, TakeKey(t) PROVE RegisteredIsWritten'
    <2>1. Kind[t] = "latest" /\ Key[t] \in Keys
      BY <1>2, CallsAssumption DEF TakeKey, CancelInv, DisplacedIsWritten
    <2> QED
      BY <1>0, <1>2, <2>1 DEF TakeKey, CancelInv, RegisteredIsWritten
  <1>3. ASSUME NEW t \in Calls, Settle(t) PROVE RegisteredIsWritten'
    BY <1>0, <1>3 DEF Settle, CancelInv, RegisteredIsWritten
  <1>4. ASSUME NEW t \in Calls, NEW ok \in BOOLEAN, AfterSend(t, ok),
               ok => Write(t)
        PROVE  RegisteredIsWritten'
    <2>1. CASE job[t] # "request"
      <3>1. UNCHANGED <<latest, latestLock>>
        BY <1>4, <2>1 DEF AfterSend
      <3> QED
        BY <1>1, <3>1
    <2>2. CASE job[t] = "request" /\ ok
      <3>1. Requested(t)'
        BY <1>4, <2>2, WriteRequests
      <3>2. latest' = latest /\ latestLock' = IF latestLock = t THEN NoCall ELSE latestLock
        BY <1>4, <2>2 DEF AfterSend
      <3> QED
        BY <1>0, <3>1, <3>2 DEF CancelInv, RegisteredIsWritten
    <2>3. CASE job[t] = "request" /\ ~ok
      <3>1. /\ latest' = IF OwnsKey(t) THEN [latest EXCEPT ![Key[t]] = NoCall] ELSE latest
            /\ latestLock' = IF latestLock = t THEN NoCall ELSE latestLock
        BY <1>4, <2>3 DEF AfterSend
      <3>2. ASSUME NEW k \in Keys, latest'[k] # NoCall PROVE latest'[k] = latest[k] /\ latest[k] # t
        BY <1>0, <3>1, <3>2 DEF OwnsKey, CancelInv, RegisteredIsWritten
      <3> QED
        BY <1>0, <3>1, <3>2 DEF CancelInv, RegisteredIsWritten
    <2> QED
      BY <2>1, <2>2, <2>3
  <1>5. \/ UNCHANGED <<latest, latestLock>>
        \/ \E t \in Calls : TakeKey(t) \/ Settle(t)
        \/ \E t \in Calls : AfterSend(t, FALSE) \/ (AfterSend(t, TRUE) /\ Write(t))
    BY DEF Next, vars, BeginRequest, BeginNotify, BeginShutdown, Insert,
         YieldToNewer, LoseRace, CancelPrevious, CheckAlive, Write, WriteFails, FlagDead,
         ClearPending, Terminate, Forget, Answered, Dropped, Timeout, CancelOwn,
         Deliver, DispatcherFlagDead, DispatcherClearPending,
         DispatcherTerminate, ServerClosesStdin, ServerClosesStdout, clientVars
  <1> QED
    BY <1>1, <1>2, <1>3, <1>4, <1>5

(* What a step may do to the position of a call, for the two conjuncts below. *)
LEMMA MovesOf ==
  ASSUME ~Barrier, TypeInv, [Next]_vars, NEW u \in Calls
  PROVE  /\ pc'[u] = "lock" => pc[u] = "lock" \/ Kind[u] = "latest"
         /\ pc'[u] = "cancelPrev" => pc[u] = "cancelPrev" \/ TakeKey(u)
         /\ job'[u] = "cancelPrev" => job[u] = "cancelPrev" \/ pc[u] = "cancelPrev"
         /\ prev'[u] = prev[u] \/ TakeKey(u)
         /\ pc'[u] = "wait" => pc[u] = "wait" \/ (Write(u) /\ job[u] = "request")
         /\ pc'[u] = "expired" => pc[u] \in {"wait", "expired"}
         /\ job'[u] = "cancelOwn" => job[u] = "cancelOwn" \/ pc[u] = "expired"
  <1> DEFINE Goal ==
         /\ pc'[u] = "lock" => pc[u] = "lock" \/ Kind[u] = "latest"
         /\ pc'[u] = "cancelPrev" => pc[u] = "cancelPrev" \/ TakeKey(u)
         /\ job'[u] = "cancelPrev" => job[u] = "cancelPrev" \/ pc[u] = "cancelPrev"
         /\ prev'[u] = prev[u] \/ TakeKey(u)
         /\ pc'[u] = "wait" => pc[u] = "wait" \/ (Write(u) /\ job[u] = "request")
         /\ pc'[u] = "expired" => pc[u] \in {"wait", "expired"}
         /\ job'[u] = "cancelOwn" => job[u] = "cancelOwn" \/ pc[u] = "expired"
  <1>0. /\ pc \in [Calls -> PCs] /\ job \in [Calls -> Jobs]
        /\ prev \in [Calls -> Calls \union {NoCall}]
    BY DEF TypeInv, TypeOK
  <1>1. ASSUME NEW t \in Calls,
               \/ BeginRequest(t) \/ BeginNotify(t) \/ BeginShutdown(t) \/ LoseRace(t)
               \/ Forget(t) \/ Answered(t) \/ Dropped(t) \/ Settle(t)
        PROVE Goal
    BY <1>0, <1>1 DEF BeginRequest, BeginNotify, BeginShutdown, LoseRace, Forget,
                      Answered, Dropped, Settle, Return
  <1>2. ASSUME NEW t \in Calls,
               \/ Insert(t) \/ YieldToNewer(t) \/ TakeKey(t) \/ CancelPrevious(t)
               \/ WriteFails(t) \/ FlagDead(t) \/ ClearPending(t)
        PROVE Goal
    BY <1>0, <1>2 DEF Insert, YieldToNewer, TakeKey, CancelPrevious, WriteFails,
                      FlagDead, ClearPending
  <1>3. ASSUME NEW t \in Calls, Timeout(t) \/ CancelOwn(t) PROVE Goal
    BY <1>0, <1>3 DEF Timeout, CancelOwn, Return
  <1>4. ASSUME NEW t \in Calls, NEW ok \in BOOLEAN, AfterSend(t, ok), UNCHANGED prev,
               ok => Write(t)
        PROVE Goal
    BY <1>0, <1>4 DEF AfterSend, Return
  <1>5. ASSUME NEW t \in Calls, CheckAlive(t) \/ Write(t) \/ Terminate(t) PROVE Goal
    <2>1. CASE CheckAlive(t) /\ alive
      BY <1>0, <2>1 DEF CheckAlive
    <2>2. CASE AfterSend(t, FALSE) /\ UNCHANGED prev
      BY <1>4, <2>2
    <2>3. CASE Write(t)
      BY <1>4, <2>3 DEF Write
    <2> QED
      BY <1>5, <2>1, <2>2, <2>3 DEF CheckAlive, Terminate
  <1>6. CASE \/ \E t \in Calls : Deliver(t)
             \/ DispatcherFlagDead \/ DispatcherClearPending \/ DispatcherTerminate
             \/ ServerClosesStdin \/ ServerClosesStdout \/ UNCHANGED vars
    BY <1>6
       DEF Deliver, DispatcherFlagDead, DispatcherClearPending, DispatcherTerminate,
                ServerClosesStdin, ServerClosesStdout, vars, callVars
  <1> QED
    BY <1>1, <1>2, <1>3, <1>5, <1>6 DEF Next

\* Outside a barrier every step preserves the invariant about cancellations.
LEMMA CancelInvStep ==
  ASSUME ~Barrier, TypeInv, CancelInv, [Next]_vars
  PROVE  CancelInv'
  <1>0. \A u \in Calls : Requested(u) => Requested(u)'
    BY WrittenStays
  <1>1. ASSUME NEW t \in Calls, TakeKey(t)
        PROVE  /\ prev'[t] = latest[Key[t]] /\ job'[t] # "cancelPrev"
               /\ pc'[t] = "cancelPrev" => latest[Key[t]] \in Calls /\ Requested(latest[Key[t]])
    <2>1. Key[t] \in Keys /\ job[t] = "request" /\ latest[Key[t]] \in Calls \union {NoCall}
      BY <1>1, CallsAssumption DEF TakeKey, TypeInv, TypeOK, CancelsNameCalls
    <2>2. /\ prev'[t] = latest[Key[t]] /\ job'[t] = job[t] /\ latestLock = NoCall
          /\ pc'[t] = "cancelPrev" => latest[Key[t]] # NoCall
      BY <1>1 DEF TakeKey, TypeInv, TypeOK
    <2> QED
      BY <2>1, <2>2 DEF CancelInv, RegisteredIsWritten
  <1>2. DisplacedIsWritten'
    <2>0. ASSUME NEW u \in Calls, NEW p \in Calls, prev'[u] = p, Requested(p)
          PROVE  Requested(prev[u])'
      <3>1. Requested(p)'
        BY <1>0, <2>0
      <3> QED
        BY <2>0, <3>1 DEF Requested, Written
    <2> SUFFICES ASSUME NEW u \in Calls
                 PROVE  /\ pc'[u] = "lock" => Kind[u] = "latest"
                        /\ pc'[u] = "cancelPrev" \/ job'[u] = "cancelPrev"
                              => prev'[u] \in Calls /\ Requested(prev[u])'
      BY DEF DisplacedIsWritten
    <2>1. CASE TakeKey(u)
      <3>1. pc'[u] # "lock"
        BY <2>1 DEF TakeKey, TypeInv, TypeOK
      <3> QED
        BY <1>1, <2>0, <2>1, <3>1
    <2>2. CASE ~TakeKey(u)
      <3>1. prev'[u] = prev[u]
        BY <2>2, MovesOf
      <3>2. pc'[u] = "cancelPrev" \/ job'[u] = "cancelPrev"
              => prev[u] \in Calls /\ Requested(prev[u])
        BY <2>2, MovesOf DEF CancelInv, DisplacedIsWritten
      <3>3. pc'[u] = "lock" => Kind[u] = "latest"
        BY MovesOf DEF CancelInv, DisplacedIsWritten
      <3> QED
        BY <2>0, <3>1, <3>2, <3>3
    <2> QED
      BY <2>1, <2>2
  <1>3. WaitingIsWritten'
    <2> SUFFICES ASSUME NEW u \in Calls,
                        pc'[u] \in {"wait", "expired"} \/ job'[u] = "cancelOwn"
                 PROVE  Requested(u)'
      BY DEF WaitingIsWritten
    <2>1. CASE Write(u) /\ job[u] = "request"
      BY <2>1, WriteRequests
    <2>2. CASE ~(Write(u) /\ job[u] = "request")
      BY <1>0, <2>2, MovesOf DEF CancelInv, WaitingIsWritten
    <2> QED
      BY <2>1, <2>2
  <1> QED
    BY <1>2, <1>3, CancelOrderStep, RegisteredStep DEF CancelInv

(* As long as no barrier has aborted a task, the server has not received the
   cancellation of a request it had not received: client.rs, "never
   cancel-before-send".  (After a barrier it may: see the run
   lsp_requests_aborted.) *)
THEOREM NeverCancelBeforeSend == Spec => []CancelOrder
  <1> DEFINE Inv == TypeInv /\ (barriers = 0 => CancelInv)
  <1>1. Init => Inv
    BY TypeInit, CallsAssumption DEF Init, CancelInv, CancelAfterRequest,
                           RegisteredIsWritten, DisplacedIsWritten, WaitingIsWritten
  <1>2. Inv /\ [Next]_vars => Inv'
    <2> SUFFICES ASSUME Inv, [Next]_vars PROVE Inv'
      OBVIOUS
    <2>1. TypeInv'
      BY TypeStep
    <2>2. ASSUME barriers' = 0 PROVE CancelInv'
      BY <2>2, NoBarrier, CancelInvStep
    <2> QED
      BY <2>1, <2>2
  <1>3. Inv => CancelOrder
    BY DEF CancelInv, CancelOrder
  <1> QED
    BY <1>1, <1>2, <1>3, PTL DEF Spec

-----------------------------------------------------------------------------
(* The latest-wins requests.  Such a call is fresh until it takes its key,  *)
(* holds the lock until its request is written or given up, is then sent    *)
(* until it settles, and is over.                                           *)

(* Where a call is before it has its key, and inside send_message. *)
Early   == {"idle", "begin", "insert", "lock", "loseRace"}
Sending == {"check", "write", "flag", "clear", "terminate"}

Holding(t) ==
    pc[t] = "cancelPrev" \/ (pc[t] \in Sending /\ job[t] \in {"request", "cancelPrev"})
Sent(t) ==
    pc[t] \in {"wait", "expired", "settle"} \/ (pc[t] \in Sending /\ job[t] = "cancelOwn")
Fresh(t) == pc[t] \in Early
Over(t)  == pc[t] \in {"forget", "done"}

(* Which calls carry which messages, and which calls ever use the map of latest
   requests. *)
KindInv ==
    \A t \in Calls :
        /\ job[t] = "notify" => Kind[t] = "notify"
        /\ job[t] \in {"exit", "retire"} => Kind[t] = "shutdown"
        /\ pc[t] \in {"lock", "loseRace", "cancelPrev", "settle"} => Kind[t] = "latest"
        /\ pc[t] = "begin" => Kind[t] = "shutdown"
        /\ pc[t] = "cancelPrev" => job[t] = "request"

(* Only t moves. *)
Frame(t) ==
    \A u \in Calls \ {t} : pc'[u] = pc[u] /\ job'[u] = job[u] /\ outcome'[u] = outcome[u]

(* No latest-wins request is written. *)
SaysNothing ==
    \/ UNCHANGED wire
    \/ \E m \in Message : /\ wire' = Append(wire, m)
                          /\ m.type = "request" => Kind[m.of] # "latest"

(* The steps, as the map of latest requests sees them: nothing to see ... *)
Still == UNCHANGED <<pc, job, outcome, latest, latestLock, wire>>

(* A call that uses no key: it can only give a lock up. *)
OtherKind(t) ==
    /\ Kind[t] # "latest" /\ Frame(t) /\ SaysNothing /\ UNCHANGED latest
    /\ latestLock' = latestLock \/ (latestLock = t /\ latestLock' = NoCall)
    /\ ~Fresh(t) => ~Fresh(t)'
    /\ outcome'[t] # "superseded" \/ outcome'[t] = outcome[t]

(* A latest-wins call that stays in its phase. *)
Keeps(t) ==
    /\ Kind[t] = "latest" /\ Frame(t) /\ SaysNothing /\ UNCHANGED <<latest, latestLock>>
    /\ \/ Fresh(t) /\ Fresh(t)'
       \/ Holding(t) /\ Holding(t)'
       \/ Sent(t) /\ Sent(t)'
       \/ Over(t) /\ Over(t)'
    /\ pc'[t] = "loseRace" => Outranked(t)
    /\ outcome'[t] \in {outcome[t], "error"}

(* ... that ends before it had its key. *)
Quits(t) ==
    /\ Kind[t] = "latest" /\ Frame(t) /\ UNCHANGED <<latest, latestLock, wire>>
    /\ Fresh(t) /\ Over(t)'
    /\ outcome'[t] = "error" \/ (pc[t] = "loseRace" /\ outcome'[t] = "superseded")

(* ... that registers as the newest of its key. *)
TakesKey(t) ==
    /\ Kind[t] = "latest" /\ Frame(t) /\ UNCHANGED wire /\ outcome'[t] = outcome[t]
    /\ Fresh(t) /\ Holding(t)' /\ latestLock = NoCall /\ ~Outranked(t)
    /\ latestLock' = t /\ latest' = [latest EXCEPT ![Key[t]] = t]

(* ... whose request is written. *)
Sends(t) ==
    /\ Kind[t] = "latest" /\ Frame(t) /\ UNCHANGED latest /\ outcome'[t] = outcome[t]
    /\ Holding(t) /\ Sent(t)' /\ wire' = Append(wire, [type |-> "request", of |-> t])
    /\ latestLock' = IF latestLock = t THEN NoCall ELSE latestLock

(* ... whose request could not be written. *)
GivesUp(t) ==
    /\ Kind[t] = "latest" /\ Frame(t) /\ UNCHANGED wire /\ outcome'[t] = outcome[t]
    /\ Holding(t) /\ Over(t)'
    /\ latest' = IF OwnsKey(t) THEN [latest EXCEPT ![Key[t]] = NoCall] ELSE latest
    /\ latestLock' = IF latestLock = t THEN NoCall ELSE latestLock

(* ... that comes back from its answer, timeout or disconnect. *)
Settles(t) ==
    /\ Kind[t] = "latest" /\ Frame(t) /\ UNCHANGED <<wire, latestLock>>
    /\ Sent(t) /\ Over(t)' /\ latestLock = NoCall
    /\ latest' = IF OwnsKey(t) THEN [latest EXCEPT ![Key[t]] = NoCall] ELSE latest
    /\ outcome'[t] = "superseded" => ~OwnsKey(t)
    /\ outcome'[t] = "ok" => OwnsKey(t)

(* One of these. *)
Moves(t) ==
    \/ OtherKind(t) \/ Keeps(t) \/ Quits(t) \/ TakesKey(t)
    \/ Sends(t) \/ GivesUp(t) \/ Settles(t)

(* What Return does to a call of each kind. *)
LEMMA Returns ==
  ASSUME TypeInv, NEW t \in Calls, NEW r, Return(t, r)
  PROVE  /\ Frame(t) /\ outcome'[t] = r
         /\ Kind[t] # "shutdown" => pc'[t] = "done" /\ job'[t] = job[t]
         /\ Kind[t] = "shutdown" => pc'[t] = "check" /\ job'[t] = "exit"
  BY DEF TypeInv, TypeOK, Return, Frame

(* send_message, seen by a latest-wins call. *)
LEMMA SendMoves ==
  ASSUME TypeInv, KindInv, NEW t \in Calls, NEW ok \in BOOLEAN, AfterSend(t, ok), pc[t] \in Sending,
         IF ok THEN wire' = Append(wire, MessageOf(t)) ELSE UNCHANGED wire
  PROVE  Moves(t)
  <1>0. /\ pc \in [Calls -> PCs] /\ job \in [Calls -> Jobs] /\ outcome' \in [Calls -> {"none", "ok", "error", "superseded", "aborted"}]
        /\ outcome \in [Calls -> {"none", "ok", "error", "superseded", "aborted"}]
        /\ MessageOf(t) \in Message
    BY AfterSendType, MessageType DEF TypeInv, TypeOK
  <1>1. CASE job[t] = "request" /\ Kind[t] = "latest"
    <2>1. /\ pc'[t] = IF ok THEN "wait" ELSE "forget"
          /\ latest' = IF OwnsKey(t) /\ ~ok THEN [latest EXCEPT ![Key[t]] = NoCall] ELSE latest
          /\ latestLock' = IF latestLock = t THEN NoCall ELSE latestLock
          /\ Frame(t) /\ outcome'[t] = outcome[t]
      BY <1>0, <1>1 DEF AfterSend, Frame
    <2>2. CASE ok
      <3>1. MessageOf(t) = [type |-> "request", of |-> t]
        BY <1>1 DEF MessageOf
      <3> QED
        BY <1>1, <2>1, <2>2, <3>1 DEF Moves, Sends, Holding, Sent
    <2>3. CASE ~ok
      BY <1>1, <2>1, <2>3 DEF Moves, GivesUp, Holding, Over
    <2> QED
      BY <2>2, <2>3
  <1>2. CASE job[t] # "request" /\ Kind[t] = "latest"
    <2>1. job[t] \in {"cancelPrev", "cancelOwn"}
      BY <1>0, <1>2 DEF KindInv, Jobs
    <2>2. /\ UNCHANGED <<latest, latestLock>> /\ Frame(t) /\ outcome'[t] =
                         outcome[t]
          /\ job[t] = "cancelPrev" => job'[t] = "request" /\ pc'[t] = "check"
          /\ job[t] = "cancelOwn" => pc'[t] = "settle"
      BY <1>0, <1>2, <2>1 DEF AfterSend, Frame
    <2>3. MessageOf(t).type = "cancel"
      BY <2>1 DEF MessageOf
    <2>4. SaysNothing
      BY <1>0, <2>3 DEF SaysNothing
    <2>5. pc'[t] # "loseRace" /\ ((Holding(t) /\ Holding(t)') \/ (Sent(t) /\ Sent(t)'))
      <3>1. CASE job[t] = "cancelPrev"
        <4>1. job'[t] = "request" /\ pc'[t] = "check"
          BY <2>2, <3>1
        <4>2. Holding(t) /\ Holding(t)'
          BY <3>1, <4>1 DEF Holding, Sending
        <4> QED
          BY <4>1, <4>2
      <3>2. CASE job[t] = "cancelOwn"
        <4>1. pc'[t] = "settle"
          BY <2>2, <3>2
        <4>2. Sent(t) /\ Sent(t)'
          BY <3>2, <4>1 DEF Sent, Sending
        <4> QED
          BY <4>1, <4>2
      <3> QED
        BY <2>1, <3>1, <3>2
    <2> QED
      BY <1>2, <2>2, <2>4, <2>5 DEF Moves, Keeps
  <1>3. CASE Kind[t] # "latest"
    <2>1. MessageOf(t).type = "request" => MessageOf(t).of = t
      BY <1>0 DEF MessageOf, Jobs
    <2>2. SaysNothing
      BY <1>0, <1>3, <2>1 DEF SaysNothing
    <2>3. latestLock' = latestLock \/ (latestLock = t /\ latestLock' = NoCall)
      BY <1>3 DEF AfterSend
    <2>4. UNCHANGED latest
      BY <1>3 DEF AfterSend, OwnsKey
    <2>5. Frame(t)
      BY <1>0 DEF AfterSend, Return, Frame
    <2>6. outcome'[t] # "superseded" \/ outcome'[t] = outcome[t]
      BY <1>0 DEF AfterSend, Return
    <2>7. ~Fresh(t)'
      BY <1>0 DEF AfterSend, Return, Fresh, Early
    <2> QED
      BY <1>3, <2>2, <2>3, <2>4, <2>5, <2>6, <2>7 DEF Moves, OtherKind
  <1> QED
    BY <1>1, <1>2, <1>3

(* Every step that is not a barrier moves at most one call, in one of these ways. *)
LEMMA Phases ==
  ASSUME TypeInv, KindInv, [Next]_vars
  PROVE  Still \/ Barrier \/ \E t \in Calls : Moves(t)
  <1>0. /\ pc \in [Calls -> PCs] /\ job \in [Calls -> Jobs]
        /\ outcome \in [Calls -> {"none", "ok", "error", "superseded", "aborted"}]
        /\ Kind \in [Calls -> {"plain", "latest", "notify", "shutdown"}]
    BY CallsAssumption DEF TypeInv, TypeOK
  <1>s. UNCHANGED wire => SaysNothing
    BY DEF SaysNothing
  <1>1. ASSUME NEW t \in Calls, BeginRequest(t) PROVE Moves(t)
    <2>1. UNCHANGED <<latest, latestLock, wire>>
      BY <1>1 DEF BeginRequest, clientVars, serverVars
    <2>2. Fresh(t) /\ pc[t] # "loseRace" /\ (Kind[t] = "latest" => Kind[t] # "shutdown")
      BY <1>1 DEF BeginRequest, Fresh, Early
    <2>3. CASE alive
      <3>1. Frame(t) /\ pc'[t] = "insert" /\ outcome'[t] = outcome[t]
        BY <1>0, <1>1, <2>3 DEF BeginRequest, Frame
      <3>2. Fresh(t)'
        BY <3>1 DEF Fresh, Early
      <3> QED
        BY <1>s, <2>1, <2>2, <3>1, <3>2 DEF Moves, OtherKind, Keeps
    <2>4. CASE ~alive
      <3>1. Return(t, "error")
        BY <1>1, <2>4 DEF BeginRequest
      <3>2. /\ Frame(t) /\ outcome'[t] = "error"
            /\ Kind[t] # "shutdown" => pc'[t] = "done"
        BY <3>1, Returns
      <3>3. Kind[t] = "latest" => Over(t)'
        BY <3>2 DEF Over
      <3> QED
        BY <1>s, <2>1, <2>2, <3>2, <3>3 DEF Moves, OtherKind, Quits
    <2> QED
      BY <2>3, <2>4
  <1>2. ASSUME NEW t \in Calls, BeginNotify(t) \/ BeginShutdown(t) PROVE Moves(t)
    <2>1. UNCHANGED <<latest, latestLock, wire>> /\ Kind[t] # "latest" /\ Frame(t)
          /\ outcome'[t] = outcome[t] /\ Fresh(t)
      BY <1>0, <1>2
         DEF BeginNotify, BeginShutdown, clientVars, serverVars, Frame, Fresh, Early
    <2> QED
      BY <1>s, <2>1 DEF Moves, OtherKind
  <1>3. ASSUME NEW t \in Calls, Insert(t) PROVE Moves(t)
    <2>1. /\ UNCHANGED <<latest, latestLock, wire>> /\ Frame(t)
          /\ outcome'[t] = outcome[t] /\ Fresh(t) /\ pc'[t] # "loseRace"
          /\ Kind[t] = "latest" => Fresh(t)'
      BY <1>0, <1>3 DEF Insert, serverVars, Frame, Fresh, Early
    <2> QED
      BY <1>s, <2>1 DEF Moves, OtherKind, Keeps
  <1>4. ASSUME NEW t \in Calls, YieldToNewer(t) PROVE Moves(t)
    <2>1. /\ UNCHANGED <<latest, latestLock, wire>> /\ Frame(t)
          /\ outcome'[t] = outcome[t] /\ Fresh(t) /\ Outranked(t)
          /\ Kind[t] = "latest" /\ Fresh(t)'
      BY <1>0, <1>4
         DEF YieldToNewer, clientVars, serverVars, Frame, Fresh, Early, KindInv
    <2> QED
      BY <1>s, <2>1 DEF Moves, Keeps
  <1>5. ASSUME NEW t \in Calls, LoseRace(t) PROVE Moves(t)
    <2>1. /\ UNCHANGED <<latest, latestLock, wire>> /\ Return(t, "superseded")
          /\ Kind[t] = "latest" /\ Fresh(t) /\ pc[t] = "loseRace"
      BY <1>0, <1>5 DEF LoseRace, serverVars, Fresh, Early, KindInv
    <2>2. Frame(t) /\ outcome'[t] = "superseded" /\ pc'[t] = "done"
      BY <2>1, Returns
    <2>3. Over(t)'
      BY <2>2 DEF Over
    <2> QED
      BY <2>1, <2>2, <2>3 DEF Moves, Quits
  <1>6. ASSUME NEW t \in Calls, TakeKey(t) PROVE Moves(t)
    <2>1. /\ UNCHANGED wire /\ Frame(t) /\ Fresh(t) /\ Kind[t] = "latest" /\ outcome'[t] = outcome[t]
          /\ latestLock = NoCall /\ ~Outranked(t) /\ latestLock' = t
          /\ latest' = [latest EXCEPT ![Key[t]] = t]
      BY <1>0, <1>6 DEF TakeKey, serverVars, Frame, Fresh, Early, KindInv
    <2>2. pc'[t] \in {"check", "cancelPrev"} /\ job'[t] = "request"
      BY <1>0, <1>6 DEF TakeKey, TypeInv, CancelsNameCalls
    <2>3. Holding(t)'
      BY <2>2 DEF Holding, Sending
    <2> QED
      BY <2>1, <2>3 DEF Moves, TakesKey
  <1>7. ASSUME NEW t \in Calls, CancelPrevious(t) PROVE Moves(t)
    <2>1. /\ UNCHANGED <<latest, latestLock, wire>> /\ Frame(t) /\ Kind[t] =
                         "latest"
          /\ outcome'[t] = outcome[t] /\ pc[t] = "cancelPrev" /\ pc'[t] = "check"
          /\ job'[t] \in {job[t], "cancelPrev"}
      BY <1>0, <1>7 DEF CancelPrevious, serverVars, Frame, KindInv
    <2>2. job'[t] \in {"request", "cancelPrev"}
      BY <2>1 DEF KindInv
    <2>3. Holding(t) /\ Holding(t)' /\ pc'[t] # "loseRace"
      BY <2>1, <2>2 DEF Holding, Sending
    <2> QED
      BY <1>s, <2>1, <2>3 DEF Moves, Keeps
  <1>8. ASSUME NEW t \in Calls, (CheckAlive(t) /\ alive) \/ WriteFails(t) \/ FlagDead(t) \/ ClearPending(t)
        PROVE Moves(t)
    <2>1. /\ UNCHANGED <<job, outcome, latest, latestLock, wire>>
          /\ pc[t] \in Sending /\ pc'[t] \in Sending /\ \A u \in Calls \ {t} : pc'[u] = pc[u]
      BY <1>0, <1>8
         DEF CheckAlive, WriteFails, FlagDead, ClearPending, clientVars, serverVars,
             Sending
    <2>2. Frame(t) /\ outcome'[t] = outcome[t] /\ job'[t] = job[t] /\ pc'[t] # "loseRace"
          /\ pc[t] \notin Early /\ pc'[t] \notin Early
      BY <2>1 DEF Frame, Sending, Early
    <2>3. CASE Kind[t] = "latest"
      <3>1. job[t] \in {"request", "cancelPrev", "cancelOwn"}
        BY <1>0, <2>3 DEF KindInv, Jobs
      <3>2. (Holding(t) /\ Holding(t)') \/ (Sent(t) /\ Sent(t)')
        BY <2>1, <2>2, <3>1 DEF Holding, Sent
      <3> QED
        BY <1>s, <2>1, <2>2, <2>3, <3>2 DEF Moves, Keeps
    <2>4. CASE Kind[t] # "latest"
      BY <1>s, <2>1, <2>2, <2>4 DEF Moves, OtherKind, Fresh
    <2> QED
      BY <2>3, <2>4
  <1>9. ASSUME NEW t \in Calls, (CheckAlive(t) /\ ~alive) \/ Write(t) \/ Terminate(t) PROVE Moves(t)
    <2>1. pc[t] \in Sending
      BY <1>9 DEF CheckAlive, Write, Terminate, Sending
    <2>2. CASE AfterSend(t, FALSE) /\ UNCHANGED wire
      BY <2>1, <2>2, SendMoves
    <2>3. CASE AfterSend(t, TRUE) /\ wire' = Append(wire, MessageOf(t))
      BY <2>1, <2>3, SendMoves
    <2> QED
      BY <1>9, <2>2, <2>3 DEF CheckAlive, Write, Terminate, serverVars
  <1>10. ASSUME NEW t \in Calls, Forget(t) PROVE Moves(t)
    <2>1. /\ UNCHANGED <<latest, latestLock, wire>> /\ Return(t, "error") /\ pc[t] =
                         "forget"
      BY <1>10 DEF Forget, serverVars
    <2>2. /\ Frame(t) /\ outcome'[t] = "error"
          /\ Kind[t] # "shutdown" => pc'[t] = "done"
          /\ Kind[t] = "shutdown" => pc'[t] = "check"
      BY <2>1, Returns
    <2>3. /\ Kind[t] = "latest" => Over(t) /\ Over(t)' /\ pc'[t] # "loseRace"
          /\ ~Fresh(t)'
      BY <2>1, <2>2 DEF Over, Fresh, Early
    <2> QED
      BY <1>s, <2>1, <2>2, <2>3 DEF Moves, Keeps, OtherKind
  <1>11. ASSUME NEW t \in Calls, Answered(t) \/ Dropped(t) \/ Timeout(t) \/ CancelOwn(t) PROVE Moves(t)
    <2>1. UNCHANGED <<latest, latestLock, wire>> /\ pc[t] \in {"wait", "expired"}
      BY <1>11 DEF Answered, Dropped, Timeout, CancelOwn, clientVars, serverVars
    <2>2. CASE Kind[t] = "latest"
      <3>1. Frame(t) /\ outcome'[t] = outcome[t]
            /\ (pc'[t] \in {"settle", "expired"} \/ (pc'[t] = "check" /\ job'[t] = "cancelOwn"))
        BY <1>0, <1>11, <2>2 DEF Answered, Dropped, Timeout, CancelOwn, Frame
      <3>2. Sent(t) /\ Sent(t)' /\ pc'[t] # "loseRace"
        BY <2>1, <3>1 DEF Sent, Sending
      <3> QED
        BY <1>s, <2>1, <2>2, <3>1, <3>2 DEF Moves, Keeps
    <2>3. CASE Kind[t] # "latest"
      <3>1. \/ Return(t, "ok") \/ Return(t, "error")
            \/ (Frame(t) /\ outcome'[t] = outcome[t] /\ pc'[t] \in {"expired", "check"})
        BY <1>0, <1>11, <2>3 DEF Answered, Dropped, Timeout, CancelOwn, Frame
      <3>2. /\ Frame(t) /\ outcome'[t] \in {"ok", "error", outcome[t]}
            /\ pc'[t] \in {"done", "check", "expired"}
        BY <3>1, Returns
      <3>3. ~Fresh(t)'
        BY <3>2 DEF Fresh, Early
      <3> QED
        BY <1>s, <2>1, <2>3, <3>2, <3>3 DEF Moves, OtherKind
    <2> QED
      BY <2>2, <2>3
  <1>12. ASSUME NEW t \in Calls, Settle(t) PROVE Moves(t)
    <2>1. /\ UNCHANGED <<latestLock, wire>> /\ latestLock = NoCall
          /\ Kind[t] = "latest" /\ pc[t] = "settle"
          /\ latest' = IF OwnsKey(t) THEN [latest EXCEPT ![Key[t]] = NoCall] ELSE latest
          /\ \/ Return(t, "error")
             \/ Return(t, "superseded") /\ ~OwnsKey(t)
             \/ Return(t, "ok") /\ OwnsKey(t)
      BY <1>12 DEF Settle, serverVars, KindInv
    <2>2. /\ Frame(t) /\ pc'[t] = "done"
          /\ outcome'[t] = "superseded" => ~OwnsKey(t)
          /\ outcome'[t] = "ok" => OwnsKey(t)
      BY <2>1, Returns
    <2>3. Sent(t) /\ Over(t)'
      BY <2>1, <2>2 DEF Sent, Over
    <2> QED
      BY <2>1, <2>2, <2>3 DEF Moves, Settles
  <1>13. CASE \/ \E t \in Calls : Deliver(t)
              \/ DispatcherFlagDead \/ DispatcherClearPending \/ DispatcherTerminate
              \/ ServerClosesStdin \/ ServerClosesStdout \/ UNCHANGED vars
    BY <1>13
       DEF Deliver, DispatcherFlagDead, DispatcherClearPending, DispatcherTerminate,
                 ServerClosesStdin, ServerClosesStdout, vars, callVars, clientVars, serverVars, Still
  <1>14. ASSUME NEW t \in Calls, CheckAlive(t) PROVE Moves(t)
    BY <1>8, <1>9, <1>14
  <1> QED
    BY <1>1, <1>2, <1>3, <1>4, <1>5, <1>6, <1>7, <1>8, <1>9, <1>10, <1>11, <1>12,
       <1>13, <1>14 DEF Next

(* Every step keeps the kinds of the calls and of their messages. *)
LEMMA KindStep ==
  ASSUME TypeInv, KindInv, [Next]_vars
  PROVE  KindInv'
  <1>0. /\ pc \in [Calls -> PCs] /\ job \in [Calls -> Jobs]
    BY DEF TypeInv, TypeOK
  <1>1. ASSUME NEW t \in Calls,
               \/ BeginRequest(t) \/ BeginNotify(t) \/ BeginShutdown(t) \/ LoseRace(t)
               \/ Forget(t) \/ Answered(t) \/ Dropped(t) \/ Settle(t)
        PROVE KindInv'
    BY <1>0, <1>1 DEF BeginRequest, BeginNotify, BeginShutdown, LoseRace, Forget,
                      Answered, Dropped, Settle, Return, KindInv
  <1>2. ASSUME NEW t \in Calls,
               \/ Insert(t) \/ YieldToNewer(t) \/ TakeKey(t) \/ CancelPrevious(t)
               \/ WriteFails(t) \/ FlagDead(t) \/ ClearPending(t)
        PROVE KindInv'
    BY <1>0, <1>2 DEF Insert, YieldToNewer, TakeKey, CancelPrevious, WriteFails,
                      FlagDead, ClearPending, KindInv, TypeInv, CancelsNameCalls
  <1>3. ASSUME NEW t \in Calls, Timeout(t) \/ CancelOwn(t) PROVE KindInv'
    BY <1>0, <1>3 DEF Timeout, CancelOwn, Return, KindInv
  <1>4. ASSUME NEW t \in Calls, NEW ok \in BOOLEAN, AfterSend(t, ok) PROVE KindInv'
    BY <1>0, <1>4 DEF AfterSend, Return, KindInv
  <1>5. ASSUME NEW t \in Calls, CheckAlive(t) \/ Write(t) \/ Terminate(t) PROVE KindInv'
    <2>1. CASE CheckAlive(t) /\ alive
      BY <1>0, <2>1 DEF CheckAlive, KindInv
    <2>2. CASE AfterSend(t, FALSE) \/ AfterSend(t, TRUE)
      BY <1>4, <2>2
    <2> QED
      BY <1>5, <2>1, <2>2 DEF CheckAlive, Write, Terminate
  <1>6. CASE \/ \E t \in Calls : Deliver(t)
             \/ DispatcherFlagDead \/ DispatcherClearPending \/ DispatcherTerminate
             \/ ServerClosesStdin \/ ServerClosesStdout \/ UNCHANGED vars
    BY <1>6
       DEF Deliver, DispatcherFlagDead, DispatcherClearPending, DispatcherTerminate,
                ServerClosesStdin, ServerClosesStdout, vars, callVars, KindInv
  <1>7. CASE Barrier
    BY <1>0, <1>7 DEF Barrier, KindInv
  <1> QED
    BY <1>1, <1>2, <1>3, <1>5, <1>6, <1>7 DEF Next

(* A call of t's key that the editor issued no earlier than t took the key over. *)
Replaced(t) ==
    \E u \in Calls \ {t} :
        Kind[u] = "latest" /\ Key[u] = Key[t] /\ SeqOf[u] >= SeqOf[t] /\ ~Fresh(u)

(* A registered call is a latest-wins call of that key, and had its turn. *)
Holders ==
    \A k \in Keys : latest[k] # NoCall =>
        /\ latest[k] \in Calls /\ Kind[latest[k]] = "latest" /\ Key[latest[k]] = k
        /\ ~Fresh(latest[k])

(* From its turn until its request is on the wire a call holds the lock and its key. *)
Locked ==
    \A t \in Calls : Kind[t] = "latest" /\ Holding(t) => latestLock = t /\ OwnsKey(t)

(* A call that lost its key, or the race for it, lost it to a newer one. *)
Displaced ==
    \A t \in Calls :
        /\ Kind[t] = "latest" /\ Sent(t) /\ ~OwnsKey(t) => Replaced(t)
        /\ pc[t] = "loseRace" \/ outcome[t] = "superseded" => Replaced(t)

(* What a registration says of the calls. *)
KeyInv == Holders /\ Locked /\ Displaced

(* The phases exclude each other. *)
LEMMA PhasesExclude ==
  ASSUME NEW t \in Calls
  PROVE  /\ Fresh(t)   => ~Holding(t) /\ ~Sent(t) /\ ~Over(t)
         /\ Holding(t) => ~Sent(t) /\ ~Over(t)
         /\ Sent(t)    => ~Over(t)
  BY DEF Fresh, Early, Holding, Sent, Over, Sending

(* A call that only others move stays in its phase. *)
LEMMA Framed ==
  ASSUME NEW t \in Calls, Frame(t), NEW u \in Calls \ {t}
  PROVE  /\ Fresh(u)' <=> Fresh(u)
         /\ Holding(u)' <=> Holding(u)
         /\ Sent(u)' <=> Sent(u)
         /\ Over(u)' <=> Over(u)
         /\ pc'[u] = pc[u] /\ outcome'[u] = outcome[u]
  BY DEF Frame, Fresh, Holding, Sent, Over

(* No call becomes fresh again, and so a replacement stands. *)
LEMMA ReplacedStays ==
  ASSUME TypeInv, KindInv, [Next]_vars
  PROVE  /\ \A u \in Calls : ~Fresh(u) => ~Fresh(u)'
         /\ \A t \in Calls : Replaced(t) => Replaced(t)'
  <1>1. ASSUME NEW u \in Calls, ~Fresh(u) PROVE ~Fresh(u)'
    <2>1. CASE Still
      BY <1>1, <2>1 DEF Still, Fresh
    <2>2. CASE Barrier
      BY <1>1, <2>2 DEF Barrier, Fresh, Early, Aborted, Active
    <2>3. ASSUME NEW t \in Calls, Moves(t), t # u PROVE ~Fresh(u)'
      <3>1. Frame(t)
        BY <2>3
           DEF Moves, OtherKind, Keeps, Quits, TakesKey, Sends, GivesUp, Settles
      <3> QED
        BY <1>1, <2>3, <3>1, Framed
    <2>4. CASE Moves(u)
      <3>1. (Holding(u)' \/ Sent(u)' \/ Over(u)') => ~Fresh(u)'
        BY DEF Fresh, Early, Holding, Sent, Over, Sending
      <3> QED
        BY <1>1, <2>4, <3>1
           DEF Moves, OtherKind, Keeps, Quits, TakesKey, Sends, GivesUp, Settles
    <2> QED
      BY <2>1, <2>2, <2>3, <2>4, Phases
  <1> QED
    BY <1>1 DEF Replaced

(* Every step, a barrier too, keeps what a registration says of the calls. *)
LEMMA KeyInvStep ==
  ASSUME TypeInv, KindInv, KeyInv, [Next]_vars
  PROVE  KeyInv'
  <1>0. /\ latest \in [Keys -> Calls \union {NoCall}] /\ Key \in [Calls -> Keys] /\ NoCall \notin Calls
        /\ SeqOf \in [Calls -> Nat]
    BY CallsAssumption DEF TypeInv, TypeOK
  <1>1. /\ \A u \in Calls : ~Fresh(u) => ~Fresh(u)'
        /\ \A t \in Calls : Replaced(t) => Replaced(t)'
    BY ReplacedStays
  <1>2. CASE Still
    <2>1. \A u \in Calls : /\ Fresh(u)' <=> Fresh(u)
                           /\ Holding(u)' <=> Holding(u)
                           /\ Sent(u)' <=> Sent(u)
                           /\ OwnsKey(u)' <=> OwnsKey(u)
      BY <1>2 DEF Still, Fresh, Holding, Sent, OwnsKey
    <2> QED
      BY <1>1, <1>2, <2>1 DEF KeyInv, Holders, Locked, Displaced, Still
  <1>3. CASE Barrier
    <2>1. \A u \in Calls : (Over(u)' \/ pc'[u] = "idle") /\ outcome'[u] \in {outcome[u], "aborted"}
      BY <1>3 DEF Barrier, Over, Aborted, Active
    <2>2. \A u \in Calls : ~Holding(u)' /\ ~Sent(u)' /\ pc'[u] # "loseRace"
      BY <2>1 DEF Holding, Sent, Over, Sending
    <2>3. latest' = latest
      BY <1>3 DEF Barrier
    <2> QED
      BY <1>1, <2>1, <2>2, <2>3 DEF KeyInv, Holders, Locked, Displaced
  <1>4. ASSUME NEW t \in Calls, Frame(t), UNCHANGED <<latest, latestLock>>,
               Fresh(t)' \/ (Holding(t) /\ Holding(t)') \/ (Sent(t) /\ Sent(t)') \/ Over(t)'
                         \/ Kind[t] # "latest",
               pc'[t] = "loseRace" \/ outcome'[t] = "superseded" => Replaced(t)'
        PROVE KeyInv'
    <2>1. \A u \in Calls : OwnsKey(u)' <=> OwnsKey(u)
      BY <1>4 DEF OwnsKey
    <2>2. \A u \in Calls : Kind[u] = "latest" => (Holding(u)' => Holding(u)) /\ (Sent(u)' => Sent(u))
      BY <1>4, Framed DEF Fresh, Early, Holding, Sent, Over, Sending
    <2>3. Holders' /\ Locked'
      BY <1>1, <1>4, <2>1, <2>2 DEF KeyInv, Holders, Locked
    <2>4. \A u \in Calls \ {t} : pc'[u] = pc[u] /\ outcome'[u] = outcome[u]
      BY <1>4 DEF Frame
    <2> QED
      BY <1>1, <1>4, <2>1, <2>2, <2>3, <2>4 DEF KeyInv, Displaced
  <1>5. ASSUME NEW t \in Calls, OtherKind(t) PROVE KeyInv'
    <2>1. /\ Kind[t] # "latest" /\ Frame(t) /\ latest' = latest
          /\ \A u \in Calls \ {t} : latestLock = u => latestLock' = u
      BY <1>0, <1>5 DEF OtherKind
    <2>2. \A u \in Calls : OwnsKey(u)' <=> OwnsKey(u)
      BY <2>1 DEF OwnsKey
    <2>3. \A u \in Calls : Kind[u] = "latest" => u # t /\ (Holding(u)' => Holding(u)) /\ (Sent(u)' => Sent(u))
      BY <2>1, Framed
    <2>4. Holders' /\ Locked'
      BY <1>1, <2>1, <2>2, <2>3 DEF KeyInv, Holders, Locked
    <2>5. \A u \in Calls \ {t} : pc'[u] = pc[u] /\ outcome'[u] = outcome[u]
      BY <2>1 DEF Frame
    <2>6. pc'[t] = "loseRace" \/ outcome'[t] = "superseded" => Replaced(t)
      <3>1. pc'[t] # "loseRace"
        BY <2>1, KindStep DEF KindInv
      <3> QED
        BY <1>5, <3>1 DEF OtherKind, KeyInv, Displaced
    <2> QED
      BY <1>1, <2>2, <2>3, <2>4, <2>5, <2>6 DEF KeyInv, Displaced
  <1>6. ASSUME NEW t \in Calls, Keeps(t) PROVE KeyInv'
    <2>1. ASSUME pc'[t] = "loseRace" PROVE Replaced(t)
      <3>1. Kind[t] = "latest" /\ latest[Key[t]] # NoCall /\ SeqOf[latest[Key[t]]] > SeqOf[t]
        BY <1>6, <2>1 DEF Keeps, Outranked
      <3>2. latest[Key[t]] \in Calls \ {t}
        BY <1>0, <3>1
      <3> QED
        BY <1>0, <3>1, <3>2 DEF KeyInv, Holders, Replaced
    <2>2. outcome'[t] = "superseded" => Replaced(t)
      BY <1>6 DEF Keeps, KeyInv, Displaced
    <2>3. Frame(t) /\ UNCHANGED <<latest, latestLock>>
      BY <1>6 DEF Keeps
    <2>4. Fresh(t)' \/ (Holding(t) /\ Holding(t)') \/ (Sent(t) /\ Sent(t)') \/ Over(t)'
      BY <1>6 DEF Keeps
    <2> QED
      BY <1>1, <1>4, <2>1, <2>2, <2>3, <2>4
  <1>7. ASSUME NEW t \in Calls, Quits(t) PROVE KeyInv'
    <2>1. outcome'[t] = "superseded" => Replaced(t)
      BY <1>7 DEF Quits, KeyInv, Displaced
    <2>2. pc'[t] # "loseRace"
      BY <1>7 DEF Quits, Over
    <2>3. Frame(t) /\ UNCHANGED <<latest, latestLock>> /\ Over(t)'
      BY <1>7 DEF Quits
    <2> QED
      BY <1>1, <1>4, <2>1, <2>2, <2>3
  <1>8. ASSUME NEW t \in Calls, TakesKey(t) PROVE KeyInv'
    <2>1. /\ Kind[t] = "latest" /\ Frame(t) /\ Fresh(t) /\ Holding(t)' /\ latestLock = NoCall
          /\ ~Outranked(t) /\ latestLock' = t /\ outcome'[t] = outcome[t]
          /\ \A k \in Keys : latest'[k] = IF k = Key[t] THEN t ELSE latest[k]
      BY <1>0, <1>8 DEF TakesKey
    <2>2. ~Fresh(t)' /\ ~Sent(t)' /\ pc'[t] # "loseRace"
      BY <2>1 DEF Fresh, Early, Holding, Sent, Sending
    <2>3. Holders'
      BY <1>0, <1>1, <2>1, <2>2 DEF KeyInv, Holders
    <2>4. OwnsKey(t)'
      BY <1>0, <2>1 DEF OwnsKey
    <2>5. Locked'
      <3>1. \A u \in Calls \ {t} : Kind[u] = "latest" => ~Holding(u)
        BY <1>0, <2>1 DEF KeyInv, Locked
      <3>2. \A u \in Calls \ {t} : Kind[u] = "latest" => ~Holding(u)'
        BY <2>1, <3>1, Framed
      <3> QED
        BY <2>1, <2>4, <3>2 DEF Locked
    <2>6. ASSUME NEW u \in Calls, Kind[u] = "latest", Sent(u)', ~OwnsKey(u)' PROVE Replaced(u)'
      <3>1. u # t /\ Sent(u)
        BY <2>1, <2>2, <2>6, Framed
      <3>2. CASE ~OwnsKey(u)
        BY <1>1, <2>6, <3>1, <3>2 DEF KeyInv, Displaced
      <3>3. CASE OwnsKey(u)
        <4>1. latest[Key[u]] = u /\ Key[u] \in Keys
          BY <1>0, <3>3 DEF OwnsKey
        <4>2. Key[u] = Key[t]
          BY <2>1, <2>6, <4>1 DEF OwnsKey
        <4>3. ~(SeqOf[u] > SeqOf[t])
          BY <1>0, <2>1, <4>1, <4>2 DEF Outranked
        <4>4. SeqOf[t] >= SeqOf[u]
          BY <1>0, <4>3
        <4> QED
          BY <2>1, <2>2, <3>1, <4>2, <4>4 DEF Replaced
      <3> QED
        BY <3>2, <3>3
    <2>7. ASSUME NEW u \in Calls, pc'[u] = "loseRace" \/ outcome'[u] = "superseded" PROVE Replaced(u)'
      <3>1. pc[u] = "loseRace" \/ outcome[u] = "superseded"
        BY <2>1, <2>2, <2>7, Framed
      <3> QED
        BY <1>1, <3>1 DEF KeyInv, Displaced
    <2> QED
      BY <2>3, <2>5, <2>6, <2>7 DEF KeyInv, Displaced
  <1>9. ASSUME NEW t \in Calls, Sends(t) PROVE KeyInv'
    <2>1. /\ Kind[t] = "latest" /\ Frame(t) /\ latest' = latest /\ Holding(t) /\ Sent(t)'
          /\ latestLock' = (IF latestLock = t THEN NoCall ELSE latestLock) /\ outcome'[t] = outcome[t]
      BY <1>9 DEF Sends
    <2>2. ~Holding(t)' /\ pc'[t] # "loseRace"
      BY <2>1 DEF Holding, Sent, Sending
    <2>3. \A u \in Calls : OwnsKey(u)' <=> OwnsKey(u)
      BY <2>1 DEF OwnsKey
    <2>4. OwnsKey(t)
      BY <2>1 DEF KeyInv, Locked
    <2>5. Holders'
      BY <1>1, <2>1 DEF KeyInv, Holders
    <2>6. Locked'
      BY <2>1, <2>2, <2>3, Framed DEF KeyInv, Locked
    <2>7. \A u \in Calls \ {t} : pc'[u] = pc[u] /\ outcome'[u] = outcome[u] /\ (Sent(u)' => Sent(u))
      BY <2>1, Framed
    <2> QED
      BY <1>1, <2>1, <2>2, <2>3, <2>4, <2>5, <2>6, <2>7 DEF KeyInv, Displaced
  <1>10. ASSUME NEW t \in Calls, GivesUp(t) \/ Settles(t) PROVE KeyInv'
    <2>1. /\ Kind[t] = "latest" /\ Frame(t) /\ Over(t)'
          /\ latest' = IF OwnsKey(t) THEN [latest EXCEPT ![Key[t]] = NoCall] ELSE latest
          /\ \A u \in Calls \ {t} : latestLock = u => latestLock' = u
          /\ outcome'[t] = "superseded" => outcome[t] = "superseded" \/ (Sent(t) /\ ~OwnsKey(t))
      BY <1>0, <1>10 DEF GivesUp, Settles
    <2>2. ~Holding(t)' /\ ~Sent(t)' /\ pc'[t] # "loseRace"
      BY <2>1 DEF Holding, Sent, Sending, Over
    <2>3. \A k \in Keys : latest'[k] = latest[k] \/ (latest[k] = t /\ latest'[k] = NoCall)
      BY <1>0, <2>1 DEF OwnsKey
    <2>4. \A u \in Calls \ {t} : OwnsKey(u)' <=> OwnsKey(u)
      BY <1>0, <2>3 DEF OwnsKey
    <2>5. Holders'
      BY <1>1, <2>3 DEF KeyInv, Holders
    <2>6. Locked'
      BY <2>1, <2>2, <2>4, Framed DEF KeyInv, Locked
    <2>7. \A u \in Calls \ {t} : pc'[u] = pc[u] /\ outcome'[u] = outcome[u] /\ (Sent(u)' => Sent(u))
      BY <2>1, Framed
    <2>8. outcome'[t] = "superseded" => Replaced(t)
      BY <2>1 DEF KeyInv, Displaced
    <2> QED
      BY <1>1, <2>2, <2>4, <2>5, <2>6, <2>7, <2>8 DEF KeyInv, Displaced
  <1> QED
    BY <1>2, <1>3, <1>5, <1>6, <1>7, <1>8, <1>9, <1>10, Phases DEF Moves

(* A request is written once, and only the newest written one of a key can own it. *)
Once ==
    \A t \in Calls : Kind[t] = "latest" /\ Requested(t) => Sent(t) \/ Over(t)

(* A later request of the same key has been written after t. *)
Overtaken(t) ==
    \E i, j \in 1..Len(wire) :
        /\ i < j /\ wire[i] = [type |-> "request", of |-> t]
        /\ wire[j].type = "request" /\ Kind[wire[j].of] = "latest" /\ Key[wire[j].of] = Key[t]

(* An overtaken request does not own its key. *)
Newest == \A t \in Calls : OwnsKey(t) => ~Overtaken(t)

(* The inductive invariant of latest_requests. *)
LatestInv == KindInv /\ KeyInv /\ Once /\ Newest

(* A message that is not a latest-wins request overtakes nobody and is nobody's. *)
LEMMA Said ==
  ASSUME TypeInv, SaysNothing, NEW t \in Calls, Kind[t] = "latest"
  PROVE  /\ Requested(t)' => Requested(t)
         /\ Overtaken(t)' => Overtaken(t)
  <1>1. CASE UNCHANGED wire
    BY <1>1 DEF Requested, Written, Overtaken
  <1>2. ASSUME NEW m \in Message, wire' = Append(wire, m), m.type = "request" => Kind[m.of] # "latest"
        PROVE  /\ Requested(t)' => Requested(t)
               /\ Overtaken(t)' => Overtaken(t)
    <2>1. wire \in Seq(Message)
      BY DEF TypeInv, TypeOK
    <2>2. /\ Len(wire') = Len(wire) + 1 /\ wire'[Len(wire) + 1] = m /\ Len(wire) \in Nat
          /\ \A i \in 1..Len(wire) : wire'[i] = wire[i]
      BY <1>2, <2>1
    <2>3. m # [type |-> "request", of |-> t]
      BY <1>2
    <2>4. ASSUME Requested(t)' PROVE Requested(t)
      BY <2>2, <2>3, <2>4 DEF Requested, Written
    <2>5. ASSUME Overtaken(t)' PROVE Overtaken(t)
      <3>1. PICK i, j \in 1..Len(wire') :
               /\ i < j /\ wire'[i] = [type |-> "request", of |-> t]
               /\ wire'[j].type = "request" /\ Kind[wire'[j].of] = "latest" /\ Key[wire'[j].of] = Key[t]
        BY <2>5 DEF Overtaken
      <3>2. j \in 1..Len(wire)
        <4>1. j # Len(wire) + 1
          BY <1>2, <2>2, <3>1
        <4> QED
          BY <2>2, <4>1
      <3>3. i \in 1..Len(wire)
        BY <2>2, <3>1, <3>2
      <3> QED
        BY <2>2, <3>1, <3>2, <3>3 DEF Overtaken
    <2> QED
      BY <2>4, <2>5
  <1> QED
    BY <1>1, <1>2 DEF SaysNothing

(* Only Sends writes a latest-wins request, and its call owns the key then. *)
LEMMA NewestStep ==
  ASSUME TypeInv, LatestInv, [Next]_vars
  PROVE  Once' /\ Newest'
  <1>0. /\ latest \in [Keys -> Calls \union {NoCall}] /\ Key \in [Calls -> Keys] /\ NoCall \notin Calls
        /\ wire \in Seq(Message)
    BY CallsAssumption DEF TypeInv, TypeOK
  <1>1. KeyInv' /\ (\A u \in Calls : OwnsKey(u) => Kind[u] = "latest")
        /\ (\A u \in Calls : OwnsKey(u)' => Kind[u] = "latest")
    BY KeyInvStep DEF LatestInv, OwnsKey
  <1>2. ASSUME NEW t \in Calls, Frame(t), SaysNothing,
               \A u \in Calls : OwnsKey(u)' => OwnsKey(u) \/ ~Requested(u),
               Kind[t] = "latest" =>
                  (Sent(t) /\ Sent(t)') \/ Over(t)' \/ (Fresh(t) /\ ~Requested(t)) \/ (Holding(t) /\ ~Requested(t))
        PROVE Once' /\ Newest'
    <2>1. Once'
      <3> SUFFICES ASSUME NEW u \in Calls, Kind[u] = "latest", Requested(u)' PROVE Sent(u)' \/ Over(u)'
        BY DEF Once
      <3>1. Requested(u)
        BY <1>2, Said
      <3>2. Sent(u) \/ Over(u)
        BY <3>1 DEF LatestInv, Once
      <3> QED
        BY <1>2, <3>1, <3>2, Framed
    <2>2. ASSUME NEW u \in Calls, ~Requested(u) PROVE ~Overtaken(u)
      BY <2>2 DEF Requested, Written, Overtaken
    <2>3. Newest'
      <3> SUFFICES ASSUME NEW u \in Calls, OwnsKey(u)' PROVE ~Overtaken(u)'
        BY DEF Newest
      <3>1. ~Overtaken(u)
        BY <1>2, <2>2 DEF LatestInv, Newest
      <3> QED
        BY <1>1, <1>2, <3>1, Said
    <2> QED
      BY <2>1, <2>3
  <1>3. UNCHANGED wire => SaysNothing
    BY DEF SaysNothing
  <1>4. \A u \in Calls : Kind[u] = "latest" /\ (Fresh(u) \/ Holding(u)) => ~Requested(u)
    BY PhasesExclude DEF LatestInv, Once
  <1>5. CASE Still
    BY <1>5
       DEF Still, LatestInv, Once, Newest, Requested, Written, Sent, Over, OwnsKey,
           Overtaken
  <1>6. CASE Barrier
    <2>1. UNCHANGED <<wire, latest>> /\ \A u \in Calls : pc[u] # "idle" => Over(u)'
      BY <1>6 DEF Barrier, serverVars, Over, Aborted, Active
    <2>2. \A u \in Calls : (Requested(u)' <=> Requested(u)) /\ (OwnsKey(u)' <=> OwnsKey(u))
                           /\ (Overtaken(u)' <=> Overtaken(u))
      BY <2>1 DEF Requested, Written, OwnsKey, Overtaken
    <2>3. \A u \in Calls : Sent(u) \/ Over(u) => pc[u] # "idle"
      BY DEF Sent, Over, Sending
    <2> QED
      BY <2>1, <2>2, <2>3 DEF LatestInv, Once, Newest
  <1>7. ASSUME NEW t \in Calls, OtherKind(t) PROVE Once' /\ Newest'
    <2>1. Frame(t) /\ SaysNothing /\ Kind[t] # "latest" /\ latest' = latest
      BY <1>7 DEF OtherKind
    <2>2. \A u \in Calls : OwnsKey(u)' => OwnsKey(u)
      BY <2>1 DEF OwnsKey
    <2> QED
      BY <1>2, <2>1, <2>2
  <1>8. ASSUME NEW t \in Calls, Keeps(t) PROVE Once' /\ Newest'
    <2>1. Frame(t) /\ SaysNothing /\ Kind[t] = "latest" /\ latest' = latest
      BY <1>8 DEF Keeps
    <2>2. \A u \in Calls : OwnsKey(u)' => OwnsKey(u)
      BY <2>1 DEF OwnsKey
    <2>3. (Sent(t) /\ Sent(t)') \/ Over(t)' \/ (Fresh(t) /\ ~Requested(t)) \/ (Holding(t) /\ ~Requested(t))
      BY <1>4, <1>8, <2>1 DEF Keeps
    <2> QED
      BY <1>2, <2>1, <2>2, <2>3
  <1>9. ASSUME NEW t \in Calls, Quits(t) PROVE Once' /\ Newest'
    <2>1. Frame(t) /\ SaysNothing /\ Over(t)' /\ latest' = latest
      BY <1>3, <1>9 DEF Quits
    <2>2. \A u \in Calls : OwnsKey(u)' => OwnsKey(u)
      BY <2>1 DEF OwnsKey
    <2> QED
      BY <1>2, <2>1, <2>2
  <1>10. ASSUME NEW t \in Calls, TakesKey(t) PROVE Once' /\ Newest'
    <2>1. /\ Frame(t) /\ SaysNothing /\ Fresh(t) /\ Kind[t] = "latest"
          /\ latest' = [latest EXCEPT ![Key[t]] = t]
      BY <1>3, <1>10 DEF TakesKey
    <2>2. ~Requested(t)
      BY <1>4, <2>1
    <2>3. \A u \in Calls : OwnsKey(u)' => OwnsKey(u) \/ u = t
      BY <1>0, <2>1 DEF OwnsKey
    <2> QED
      BY <1>2, <2>1, <2>2, <2>3
  <1>11. ASSUME NEW t \in Calls, GivesUp(t) \/ Settles(t) PROVE Once' /\ Newest'
    <2>1. /\ Frame(t) /\ SaysNothing /\ Over(t)'
          /\ latest' = IF OwnsKey(t) THEN [latest EXCEPT ![Key[t]] = NoCall] ELSE latest
      BY <1>3, <1>11 DEF GivesUp, Settles
    <2>2. \A u \in Calls : OwnsKey(u)' => OwnsKey(u)
      BY <1>0, <2>1 DEF OwnsKey
    <2> QED
      BY <1>2, <2>1, <2>2
  <1>12. ASSUME NEW t \in Calls, Sends(t) PROVE Once' /\ Newest'
    <2>0. DEFINE m == [type |-> "request", of |-> t]
    <2>1. /\ Frame(t) /\ Kind[t] = "latest" /\ latest' = latest /\ Holding(t) /\ Sent(t)'
          /\ wire' = Append(wire, m)
      BY <1>12 DEF Sends
    <2>2. /\ Len(wire') = Len(wire) + 1 /\ wire'[Len(wire) + 1] = m /\ Len(wire) \in Nat
          /\ \A i \in 1..Len(wire) : wire'[i] = wire[i]
      BY <1>0, <2>1 DEF Message
    <2>3. Once'
      <3> SUFFICES ASSUME NEW u \in Calls, Kind[u] = "latest", Requested(u)' PROVE Sent(u)' \/ Over(u)'
        BY DEF Once
      <3>1. CASE u = t
        BY <2>1, <3>1
      <3>2. CASE u # t
        <4>1. Requested(u)
          BY <2>2, <3>2 DEF Requested, Written
        <4>2. Sent(u) \/ Over(u)
          BY <4>1 DEF LatestInv, Once
        <4> QED
          BY <2>1, <3>2, <4>2, Framed
      <3> QED
        BY <3>1, <3>2
    <2>4. OwnsKey(t) /\ ~Requested(t)
      BY <1>4, <2>1 DEF LatestInv, KeyInv, Locked
    <2>5. Newest'
      <3> SUFFICES ASSUME NEW u \in Calls, OwnsKey(u)', Overtaken(u)' PROVE FALSE
        BY DEF Newest
      <3>1. OwnsKey(u) /\ ~Overtaken(u)
        BY <2>1 DEF OwnsKey, LatestInv, Newest
      <3>2. PICK i, j \in 1..Len(wire') :
               /\ i < j /\ wire'[i] = [type |-> "request", of |-> u]
               /\ wire'[j].type = "request" /\ Kind[wire'[j].of] = "latest" /\ Key[wire'[j].of] = Key[u]
        BY DEF Overtaken
      <3>3. j = Len(wire) + 1
        <4>1. SUFFICES ASSUME j \in 1..Len(wire) PROVE FALSE
          BY <2>2
        <4>2. i \in 1..Len(wire)
          BY <2>2, <3>2, <4>1
        <4> QED
          BY <2>2, <3>1, <3>2, <4>1, <4>2 DEF Overtaken
      <3>4. Key[t] = Key[u] /\ i \in 1..Len(wire)
        BY <2>2, <3>2, <3>3
      <3>5. u = t
        BY <2>4, <3>1, <3>4 DEF OwnsKey
      <3>6. Requested(t)
        BY <2>2, <3>2, <3>4, <3>5 DEF Requested, Written
      <3> QED
        BY <2>4, <3>6
    <2> QED
      BY <2>3, <2>5
  <1> QED
    BY <1>5, <1>6, <1>7, <1>8, <1>9, <1>10, <1>11, <1>12, Phases
       DEF LatestInv, Moves

(* The invariant of latest_requests holds, whatever barriers do. *)
LEMMA LatestInductive == Spec => [](TypeInv /\ LatestInv)
  <1>1. Init => TypeInv /\ LatestInv
    <2>1. ASSUME Init PROVE LatestInv
      <3>1. KindInv
        BY <2>1 DEF Init, KindInv
      <3>2. /\ \A t \in Calls : pc[t] = "idle" /\ outcome[t] = "none"
            /\ \A k \in Keys : latest[k] = NoCall
            /\ wire = <<>>
        BY <2>1 DEF Init
      <3>3. \A t \in Calls : ~Holding(t) /\ ~Sent(t)
        BY <3>2 DEF Holding, Sent, Sending
      <3>4. KeyInv
        BY <3>2, <3>3 DEF KeyInv, Holders, Locked, Displaced
      <3>5. Once /\ Newest
        BY <3>2 DEF Once, Newest, Requested, Written, Overtaken
      <3> QED
        BY <3>1, <3>4, <3>5 DEF LatestInv
    <2> QED
      BY <2>1, TypeInit
  <1>2. TypeInv /\ LatestInv /\ [Next]_vars => (TypeInv /\ LatestInv)'
    BY TypeStep, KindStep, KeyInvStep, NewestStep DEF LatestInv
  <1> QED
    BY <1>1, <1>2, PTL DEF Spec

(* A call is answered with silence only when a call of the same key that the editor
   issued no earlier has taken its place: YieldToNewer lost to one, and a key is lost
   between registering and settling only to one.  Barriers do not matter. *)
THEOREM SilentOnlyWhenReplaced == Spec => []SupersededByNewer
  <1>1. LatestInv => SupersededByNewer
    BY DEF LatestInv, KeyInv, Displaced, Replaced, Fresh, Early, SupersededByNewer
  <1> QED
    BY <1>1, LatestInductive, PTL

(* The answer a handler gets is that of the newest written request of its key: the
   lock on latest_requests is held until the request is written, so the order of the
   keys is the order of the wire. *)
THEOREM AnswersOfTheNewest == Spec => AnswersAreCurrent
  <1>1. ASSUME TypeInv, LatestInv, Next, NEW t \in Calls,
               Kind[t] = "latest", outcome[t] # "ok", outcome'[t] = "ok"
        PROVE  ~Overtaken(t)
    <2>1. ~Still
      BY <1>1 DEF Still
    <2>2. ~Barrier
      BY <1>1 DEF Barrier
    <2>3. PICK u \in Calls : Moves(u)
      BY <1>1, <2>1, <2>2, Phases DEF LatestInv
    <2>4. u = t
      <3>1. Frame(u)
        BY <2>3
           DEF Moves, OtherKind, Keeps, Quits, TakesKey, Sends, GivesUp, Settles
      <3> QED
        BY <1>1, <3>1 DEF Frame
    <2>5. Settles(t)
      BY <1>1, <2>3, <2>4
         DEF Moves, OtherKind, Keeps, Quits, TakesKey, Sends, GivesUp
    <2>6. OwnsKey(t)
      BY <1>1, <2>5 DEF Settles
    <2> QED
      BY <1>1, <2>6 DEF LatestInv, Newest
  <1>2. TypeInv /\ LatestInv /\ [Next]_vars =>
          [\A t \in Calls :
             Kind[t] = "latest" /\ outcome[t] # "ok" /\ outcome'[t] = "ok" =>
                \A i, j \in 1..Len(wire) :
                   (i < j /\ wire[i] = [type |-> "request", of |-> t]) =>
                      ~(/\ wire[j].type = "request"
                        /\ Kind[wire[j].of] = "latest"
                        /\ Key[wire[j].of] = Key[t])]_vars
    BY <1>1 DEF Overtaken
  <1> QED
    BY <1>2, LatestInductive, PTL DEF Spec, AnswersAreCurrent

-----------------------------------------------------------------------------
(* Nothing leaks.  As long as no task has been aborted, a pending entry     *)
(* belongs to a call that will remove it, and a registration to a call that *)
(* has taken its key and not yet settled.                                   *)

(* The call still has its pending entry to remove. *)
InFlight(t) == pc[t] \in {"lock", "loseRace", "wait", "expired", "forget"} \/ Holding(t)

(* No entry without such a call, and none whose answer has been delivered. *)
PendingInFlight == \A t \in pending : InFlight(t) /\ chan[t] # "value"

(* No registration without a call that will give it up. *)
HoldersInFlight == \A k \in Keys : latest[k] # NoCall => Holding(latest[k]) \/ Sent(latest[k])

(* Every step but a barrier keeps pending entries with their calls. *)
LEMMA PendingStep ==
  ASSUME TypeInv, KindInv, PendingInFlight, ~Barrier, [Next]_vars
  PROVE  PendingInFlight'
  <1>0. /\ pc \in [Calls -> PCs] /\ job \in [Calls -> Jobs] /\ pending \subseteq Calls
        /\ chan \in [Calls -> {"none", "open", "value", "closed", "dropped"}]
    BY DEF TypeInv, TypeOK
  <1>1. ASSUME NEW t \in Calls, \A u \in Calls \ {t} : pc'[u] = pc[u] /\ job'[u] = job[u],
               pending' \subseteq pending,
               \A u \in pending' \ {t} : chan'[u] = "value" => chan[u] = "value",
               t \in pending' => InFlight(t)' /\ chan'[t] # "value"
        PROVE  PendingInFlight'
    BY <1>0, <1>1 DEF PendingInFlight, InFlight, Holding
  <1>2. ASSUME NEW t \in Calls,
               BeginRequest(t) \/ BeginNotify(t) \/ BeginShutdown(t)
        PROVE  PendingInFlight'
    <2>1. ~InFlight(t)
      BY <1>2
         DEF BeginRequest, BeginNotify, BeginShutdown, InFlight, Holding, Sending
    <2>2. /\ \A u \in Calls \ {t} : pc'[u] = pc[u] /\ job'[u] = job[u]
          /\ UNCHANGED <<pending, chan>>
      BY <1>0, <1>2 DEF BeginRequest, BeginNotify, BeginShutdown, Return, clientVars
    <2> QED
      BY <1>1, <2>1, <2>2 DEF PendingInFlight
  <1>3. ASSUME NEW t \in Calls, Insert(t) PROVE PendingInFlight'
    <2>1. /\ \A u \in Calls \ {t} : pc'[u] = pc[u] /\ job'[u] = job[u] /\ chan'[u] = chan[u]
          /\ pending' = pending \union {t} /\ chan'[t] = "open"
          /\ pc'[t] \in {"lock", "check"} /\ job'[t] = "request"
      BY <1>0, <1>3 DEF Insert, TypeInv, CancelsNameCalls
    <2>2. InFlight(t)'
      BY <2>1 DEF InFlight, Holding, Sending
    <2> QED
      BY <1>0, <2>1, <2>2 DEF PendingInFlight, InFlight, Holding
  <1>4. ASSUME NEW t \in Calls, LoseRace(t) \/ Forget(t) \/ Dropped(t) PROVE PendingInFlight'
    <2>1. /\ \A u \in Calls \ {t} : pc'[u] = pc[u] /\ job'[u] = job[u] /\ chan'[u] = chan[u]
          /\ pending' = pending \ {t}
      BY <1>0, <1>4 DEF LoseRace, Forget, Dropped, Return
    <2> QED
      BY <1>0, <1>1, <2>1
  <1>5. ASSUME NEW t \in Calls, YieldToNewer(t) \/ TakeKey(t) \/ Timeout(t) PROVE PendingInFlight'
    <2>1. /\ \A u \in Calls \ {t} : pc'[u] = pc[u] /\ job'[u] = job[u] /\ chan'[u] = chan[u]
          /\ pending' = pending /\ chan'[t] \in {chan[t], "dropped"}
      BY <1>0, <1>5 DEF YieldToNewer, TakeKey, Timeout, clientVars
    <2>2. pc'[t] \in {"loseRace", "expired", "cancelPrev"} \/ (pc'[t] = "check" /\ job'[t] = "request")
      BY <1>0, <1>5 DEF YieldToNewer, TakeKey, Timeout, TypeInv, CancelsNameCalls
    <2>3. InFlight(t)'
      BY <2>2 DEF InFlight, Holding, Sending
    <2> QED
      BY <1>0, <1>1, <2>1, <2>3 DEF PendingInFlight
  <1>6. ASSUME NEW t \in Calls, CancelPrevious(t) PROVE PendingInFlight'
    <2>1. /\ \A u \in Calls \ {t} : pc'[u] = pc[u] /\ job'[u] = job[u]
          /\ pending' \subseteq pending /\ pc'[t] = "check" /\ job'[t] \in {"request", "cancelPrev"}
      BY <1>0, <1>6 DEF CancelPrevious, KindInv
    <2>2. \A u \in Calls : chan'[u] = "value" => chan[u] = "value"
      BY <1>6 DEF CancelPrevious, ClosedBy
    <2>3. InFlight(t)'
      BY <2>1 DEF InFlight, Holding, Sending
    <2> QED
      BY <1>0, <1>1, <2>1, <2>2, <2>3 DEF PendingInFlight
  <1>7. ASSUME NEW t \in Calls, (CheckAlive(t) /\ alive) \/ WriteFails(t) \/ FlagDead(t)
        PROVE PendingInFlight'
    <2>1. /\ \A u \in Calls \ {t} : pc'[u] = pc[u]
          /\ UNCHANGED <<job, chan, pending>> /\ pc[t] \in Sending /\ pc'[t] \in
                         Sending
      BY <1>0, <1>7 DEF CheckAlive, WriteFails, FlagDead, clientVars, Sending
    <2>2. InFlight(t) => InFlight(t)'
      BY <2>1 DEF InFlight, Holding, Sending
    <2> QED
      BY <1>1, <2>1, <2>2 DEF PendingInFlight
  <1>8. ASSUME NEW t \in Calls, (CheckAlive(t) /\ ~alive) \/ Write(t) \/ Terminate(t)
        PROVE PendingInFlight'
    <2>1. /\ UNCHANGED <<chan, pending>> /\ pc[t] \in Sending
          /\ AfterSend(t, TRUE) \/ AfterSend(t, FALSE)
      BY <1>8 DEF CheckAlive, Write, Terminate, Sending
    <2>2. \A u \in Calls \ {t} : pc'[u] = pc[u] /\ job'[u] = job[u]
      BY <1>0, <2>1 DEF AfterSend, Return
    <2>3. CASE job[t] = "request"
      <3>1. pc'[t] \in {"wait", "forget"}
        BY <1>0, <2>1, <2>3 DEF AfterSend
      <3>2. InFlight(t)'
        BY <3>1 DEF InFlight
      <3> QED
        BY <1>1, <2>1, <2>2, <3>2 DEF PendingInFlight
    <2>4. CASE job[t] = "cancelPrev"
      <3>1. pc'[t] = "check" /\ job'[t] = "request"
        BY <1>0, <2>1, <2>4 DEF AfterSend
      <3>2. InFlight(t)'
        BY <3>1 DEF InFlight, Holding, Sending
      <3> QED
        BY <1>1, <2>1, <2>2, <3>2 DEF PendingInFlight
    <2>5. CASE job[t] \notin {"request", "cancelPrev"}
      <3>1. ~InFlight(t)
        BY <2>1, <2>5 DEF InFlight, Holding, Sending
      <3> QED
        BY <1>1, <2>1, <2>2, <3>1 DEF PendingInFlight
    <2> QED
      BY <2>3, <2>4, <2>5
  <1>9. ASSUME NEW t \in Calls, ClearPending(t) PROVE PendingInFlight'
    BY <1>9 DEF ClearPending, PendingInFlight
  <1>10. ASSUME NEW t \in Calls, Answered(t) PROVE PendingInFlight'
    <2>1. t \notin pending
      BY <1>10 DEF Answered, PendingInFlight
    <2>2. /\ \A u \in Calls \ {t} : pc'[u] = pc[u] /\ job'[u] = job[u]
          /\ UNCHANGED <<pending, chan>>
      BY <1>0, <1>10 DEF Answered, Return, clientVars
    <2> QED
      BY <1>1, <2>1, <2>2
  <1>11. ASSUME NEW t \in Calls, CancelOwn(t) PROVE PendingInFlight'
    <2>1. /\ \A u \in Calls \ {t} : pc'[u] = pc[u] /\ job'[u] = job[u]
          /\ pending' = pending \ {t} /\ chan' = chan
      BY <1>0, <1>11 DEF CancelOwn, Return
    <2> QED
      BY <1>1, <2>1
  <1>12. ASSUME NEW t \in Calls, Settle(t) PROVE PendingInFlight'
    <2>1. ~InFlight(t)
      BY <1>12 DEF Settle, InFlight, Holding, Sending
    <2>2. /\ \A u \in Calls \ {t} : pc'[u] = pc[u] /\ job'[u] = job[u]
          /\ UNCHANGED <<pending, chan>>
      BY <1>0, <1>12 DEF Settle, Return
    <2> QED
      BY <1>1, <2>1, <2>2 DEF PendingInFlight
  <1>13. ASSUME NEW t \in Calls, Deliver(t) PROVE PendingInFlight'
    BY <1>0, <1>13 DEF Deliver, PendingInFlight, InFlight, Holding
  <1>14. CASE \/ DispatcherFlagDead \/ DispatcherClearPending \/ DispatcherTerminate
              \/ ServerClosesStdin \/ ServerClosesStdout \/ UNCHANGED vars
    BY <1>14 DEF DispatcherFlagDead, DispatcherClearPending, DispatcherTerminate,
                 ServerClosesStdin, ServerClosesStdout, vars, callVars, clientVars,
                 PendingInFlight, InFlight, Holding
  <1> QED
    BY <1>2, <1>3, <1>4, <1>5, <1>6, <1>7, <1>8, <1>9, <1>10, <1>11, <1>12, <1>13,
       <1>14 DEF Next

(* Every step but a barrier keeps registrations with their calls. *)
LEMMA HoldersStep ==
  ASSUME TypeInv, LatestInv, HoldersInFlight, ~Barrier, [Next]_vars
  PROVE  HoldersInFlight'
  <1>0. latest \in [Keys -> Calls \union {NoCall}] /\ Key \in [Calls -> Keys] /\ NoCall \notin Calls
    BY CallsAssumption DEF TypeInv, TypeOK
  <1>1. ASSUME NEW t \in Calls, Frame(t),
               \A k \in Keys : latest'[k] # NoCall => latest'[k] = latest[k] \/ latest'[k] = t,
               (\E k \in Keys : latest'[k] = t) => Holding(t)' \/ Sent(t)'
        PROVE HoldersInFlight'
    <2> SUFFICES ASSUME NEW k \in Keys, latest'[k] # NoCall
                 PROVE  Holding(latest[k])' \/ Sent(latest[k])'
      BY DEF HoldersInFlight
    <2> DEFINE u == latest[k]
    <2>1. CASE latest'[k] = t
      BY <1>1, <2>1 DEF Holding, Sent
    <2>2. CASE latest'[k] = u /\ u # t
      <3>1. u \in Calls \ {t} /\ (Holding(u) \/ Sent(u))
        BY <1>0, <2>2 DEF HoldersInFlight
      <3>2. pc'[u] = pc[u] /\ job'[u] = job[u]
        BY <1>1, <3>1 DEF Frame
      <3> QED
        BY <2>2, <3>1, <3>2 DEF Holding, Sent
    <2> QED
      BY <1>1, <2>1, <2>2
  <1>2. \A k \in Keys : latest[k] # NoCall =>
           Kind[latest[k]] = "latest" /\ Key[latest[k]] = k /\ (Holding(latest[k]) \/ Sent(latest[k]))
    BY DEF LatestInv, KeyInv, Holders, HoldersInFlight
  <1>3. CASE Still
    BY <1>3 DEF Still, HoldersInFlight, Holding, Sent
  <1>4. ASSUME NEW t \in Calls, OtherKind(t) \/ Keeps(t) \/ Quits(t) PROVE HoldersInFlight'
    <2>1. Frame(t) /\ latest' = latest
      BY <1>4 DEF OtherKind, Keeps, Quits
    <2>2. ASSUME NEW k \in Keys, latest[k] = t PROVE Holding(t)' \/ Sent(t)'
      <3>1. Kind[t] = "latest" /\ (Holding(t) \/ Sent(t))
        BY <1>0, <1>2, <2>2
      <3> QED
        BY <1>4, <3>1, PhasesExclude DEF OtherKind, Keeps, Quits
    <2> QED
      BY <1>1, <2>1, <2>2
  <1>5. ASSUME NEW t \in Calls, TakesKey(t) \/ Sends(t) PROVE HoldersInFlight'
    <2>1. /\ Frame(t) /\ (Holding(t)' \/ Sent(t)')
          /\ latest' = latest \/ latest' = [latest EXCEPT ![Key[t]] = t]
      BY <1>5 DEF TakesKey, Sends
    <2>2. \A k \in Keys : latest'[k] # NoCall => latest'[k] = latest[k] \/ latest'[k] = t
      BY <1>0, <2>1
    <2> QED
      BY <1>1, <2>1, <2>2
  <1>6. ASSUME NEW t \in Calls, GivesUp(t) \/ Settles(t) PROVE HoldersInFlight'
    <2>1. /\ Frame(t)
          /\ latest' = IF OwnsKey(t) THEN [latest EXCEPT ![Key[t]] = NoCall] ELSE latest
      BY <1>6 DEF GivesUp, Settles
    <2>2. \A k \in Keys : latest'[k] # NoCall => latest'[k] = latest[k] /\ latest[k] # t
      BY <1>0, <1>2, <2>1 DEF OwnsKey
    <2>3. \A k \in Keys : latest'[k] # t
      BY <1>0, <2>2
    <2> QED
      BY <1>1, <2>1, <2>2, <2>3
  <1> QED
    BY <1>3, <1>4, <1>5, <1>6, Phases DEF Moves, LatestInv

(* Whatever mixture of answers, timeouts, failed writes and disconnects ended the calls,
   none of them leaves an entry behind, unless a barrier aborted one. *)
THEOREM NothingLeftBehind == Spec => []NothingLeaks
  <1> DEFINE Inv == barriers = 0 => PendingInFlight /\ HoldersInFlight
  <1>1. Init => Inv
    BY DEF Init, PendingInFlight, HoldersInFlight
  <1>2. TypeInv /\ LatestInv /\ Inv /\ [Next]_vars => Inv'
    BY NoBarrier, PendingStep, HoldersStep DEF LatestInv
  <1>3. TypeInv /\ Inv => NothingLeaks
    <2> SUFFICES ASSUME TypeInv, PendingInFlight, HoldersInFlight, \A t \in Calls : ~Active(t)
                 PROVE  pending = {} /\ \A k \in Keys : latest[k] = NoCall
      BY DEF NothingLeaks
    <2>1. \A t \in Calls : ~InFlight(t) /\ ~Holding(t) /\ ~Sent(t)
      BY DEF Active, InFlight, Holding, Sent, Sending
    <2>2. pending \subseteq Calls /\ latest \in [Keys -> Calls \union {NoCall}]
      BY DEF TypeInv, TypeOK
    <2> QED
      BY <2>1, <2>2 DEF PendingInFlight, HoldersInFlight
  <1> QED
    BY <1>1, <1>2, <1>3, LatestInductive, PTL DEF Spec
=============================================================================
