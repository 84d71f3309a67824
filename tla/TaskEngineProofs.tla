-------------------------- MODULE TaskEngineProofs --------------------------
(***************************************************************************)
(* Proofs about TaskEngine, for every set of tasks, agents, workers and    *)
(* reset requests, every queue size and any number of restarts.            *)
(***************************************************************************)
EXTENDS TaskEngine, TLAPS

\* The variables of the typing lemma: the type invariant and what the program
\* counters say of the locals.
Typed == TypeOK /\ LocalsSound

LEMMA TypedInit == EngineInit => Typed
BY EngineAssumption DEF EngineInit, Typed, TypeOK, LocalsSound, Status, HandleStatus,
   WorkerPC, Holding, AdminPC, Outcomes

\* A push keeps the channel a sequence of tasks within its capacity.
LEMMA PushTyped ==
  ASSUME NEW t \in Tasks, ch \in Seq(Tasks), Len(ch) <= QueueSize, Push(t)
  PROVE  ch' \in Seq(Tasks) /\ Len(ch') <= QueueSize
BY EngineAssumption DEF Push

LEMMA TypedStep == Typed /\ [EngineNext]_engineVars => Typed'
<1> SUFFICES ASSUME Typed, [EngineNext]_engineVars PROVE Typed'
  OBVIOUS
<1> USE EngineAssumption DEF Typed, TypeOK, LocalsSound, stored, registry, locals, adminVars
<1>1. CASE UNCHANGED engineVars
  BY <1>1 DEF engineVars
<1>2. ASSUME NEW t \in Tasks, Enqueue(t) PROVE Typed'
  BY <1>2, PushTyped DEF Enqueue, Status
<1>3. CASE ScanTick
  BY <1>3 DEF ScanTick, Pending
<1>4. CASE ScanPush
  BY <1>4, PushTyped DEF ScanPush
<1>5. ASSUME NEW w \in Workers, WorkerStep(w) PROVE Typed'
  <2>1. CASE Claim(w)
    BY <2>1 DEF Claim, Goto, WorkerPC, Holding
  <2>2. CASE Defer(w)
    BY <2>2 DEF Defer
  <2>3. CASE CheckRow(w)
    BY <2>3 DEF CheckRow, Goto, WorkerPC, Holding
  <2>4. CASE MarkRunning(w)
    BY <2>4 DEF MarkRunning, Goto, WorkerPC, Holding, Status
  <2>5. CASE Register(w)
    BY <2>5 DEF Register, Goto, WorkerPC, Holding
  <2>6. CASE LoadAgentFails(w)
    BY <2>6 DEF LoadAgentFails, Goto, WorkerPC, Holding, Outcomes
  <2>7. CASE HubSubmit(w)
    BY <2>7 DEF HubSubmit, HandleStatus
  <2>8. CASE Deadline(w)
    BY <2>8 DEF Deadline
  <2>9. CASE RunSucceeds(w)
    <3>1. handle' \in [Tasks -> HandleStatus]
      BY <2>9 DEF RunSucceeds, HandleStatus
    <3> QED
      BY <2>9, <3>1 DEF RunSucceeds, Goto, WorkerPC, Holding, Outcomes
  <2>10. CASE RunFails(w)
    <3>1. handle' \in [Tasks -> HandleStatus]
      BY <2>10 DEF RunFails, HandleStatus
    <3>2. /\ wpc' = [wpc EXCEPT ![w] =
                       IF ctxDone[w] \/ attempt[w] = MaxRetries
                       THEN "unregister" ELSE "backoff"]
          /\ wpc' \in [Workers -> WorkerPC]
      BY <2>10 DEF RunFails, Goto, WorkerPC, Holding
    <3>3. outcome' \in [Workers -> Outcomes]
      BY <2>10 DEF RunFails, Outcomes
    <3>4. TypeOK'
      BY <2>10, <3>1, <3>2, <3>3 DEF RunFails
    <3>5. LocalsSound'
      <4>1. wpc[w] = "run" /\ UNCHANGED <<wtask, attempt, atask, apc>>
        BY <2>10 DEF RunFails
      <4>2. outcome' = [outcome EXCEPT ![w] = "err"]
        BY <2>10 DEF RunFails
      <4>3. attempt[w] \in 0..MaxRetries
        OBVIOUS
      <4>4. ~(attempt[w] = MaxRetries) => attempt[w] < MaxRetries
        BY <4>3
      <4>5. wpc'[w] = "unregister" \/ (wpc'[w] = "backoff" /\ attempt[w] # MaxRetries)
        BY <3>2
      <4>6. \A v \in Workers \ {w} : wpc'[v] = wpc[v] /\ outcome'[v] = outcome[v]
        BY <3>2, <4>2
      <4> QED
        BY <4>1, <4>4, <4>5, <4>6
    <3> QED
      BY <3>4, <3>5
  <2>11. CASE Backoff(w)
    <3>1. CASE ctxDone[w]
      <4>1. wpc' = [wpc EXCEPT ![w] = "unregister"] /\ UNCHANGED <<attempt, outcome>>
        BY <2>11, <3>1 DEF Backoff, Goto
      <4> QED
        BY <2>11, <4>1 DEF Backoff, WorkerPC, Holding
    <3>2. CASE ~ctxDone[w]
      <4> HIDE DEF LocalsSound, TypeOK
      <4>0. attempt[w] < MaxRetries
        BY <2>11 DEF Backoff, LocalsSound
      <4>a. attempt[w] + 1 \in 0..MaxRetries /\ attempt \in [Workers -> 0..MaxRetries]
        BY <4>0 DEF TypeOK
      <4>b. attempt' = [attempt EXCEPT ![w] = attempt[w] + 1]
        BY <2>11, <3>2 DEF Backoff
      <4>1. attempt' \in [Workers -> 0..MaxRetries]
        BY <4>a, <4>b
      <4>2. wpc' = [wpc EXCEPT ![w] = "run"]
        BY <2>11, <3>2 DEF Backoff, Goto
      <4> QED
        BY <2>11, <3>2, <4>1, <4>2 DEF Backoff, WorkerPC, Holding, Outcomes, TypeOK, LocalsSound
    <3> QED
      BY <3>1, <3>2
  <2>12. CASE Unregister(w)
    <3>1. /\ wtask[w] \in Tasks
          /\ running' = [running EXCEPT ![wtask[w]] = NoWorker]
          /\ external' = [external EXCEPT ![wtask[w]] = FALSE]
      BY <2>12 DEF Unregister, DropEntry
    <3>2. \/ /\ wpc' = [wpc EXCEPT ![w] = "release"] \/ wpc' = [wpc EXCEPT ![w] = "writeback"]
             /\ outcome' = outcome
          \/ /\ wpc' = [wpc EXCEPT ![w] = "callback"]
             /\ outcome' = [outcome EXCEPT ![w] = "failed"]
      BY <2>12 DEF Unregister, Goto
    <3> QED
      BY <2>12, <3>1, <3>2 DEF Unregister, WorkerPC, Holding, Outcomes
  <2>13. CASE WriteBack(w)
    BY <2>13 DEF WriteBack, Goto, WorkerPC, Holding, Outcomes
  <2>14. CASE Callback(w)
    BY <2>14 DEF Callback, Goto, WorkerPC, Holding
  <2>15. CASE Persist(w)
    BY <2>15 DEF Persist, Goto, WorkerPC, Holding, Status
  <2>16. CASE Panic(w)
    BY <2>16 DEF Panic, DropEntry, Goto, WorkerPC, Holding
  <2>17. CASE PanicPersist(w)
    BY <2>17 DEF PanicPersist, Goto, WorkerPC, Holding, Status
  <2>18. CASE PanicCallback(w)
    BY <2>18 DEF PanicCallback, Goto, WorkerPC, Holding
  <2>19. CASE ReleaseSlot(w)
    BY <2>19 DEF ReleaseSlot, Goto, WorkerPC, Holding
  <2>20. CASE Kick(w)
    <3>1. ch' \in Seq(Tasks) /\ Len(ch') <= QueueSize
      BY <2>20, PushTyped DEF Kick, Pending
    <3> QED
      BY <2>20, <3>1 DEF Kick, Goto, WorkerPC, Outcomes
  <2> QED
    BY <1>5, <2>1, <2>2, <2>3, <2>4, <2>5, <2>6, <2>7, <2>8, <2>9, <2>10, <2>11,
       <2>12, <2>13, <2>14, <2>15, <2>16, <2>17, <2>18, <2>19, <2>20
       DEF WorkerStep, WorkerAlone, WorkerCalls, WorkerMoves, RunEnds
<1>6. ASSUME NEW a \in Admins, AdminStep(a) PROVE Typed'
  <2>1. CASE BeginTaskReset(a)
    BY <2>1 DEF BeginTaskReset, CancelRunning, AdminPC
  <2>2. CASE ResetTaskRow(a)
    BY <2>2 DEF ResetTaskRow, AdminPC, Status
  <2>3. CASE BeginIssueReset(a)
    BY <2>3 DEF BeginIssueReset, CancelRunning, AdminPC
  <2>4. CASE ResetIssueRows(a)
    BY <2>4 DEF ResetIssueRows, AdminPC, Status
  <2>5. CASE EndReset(a)
    BY <2>5 DEF EndReset, AdminPC
  <2> QED
    BY <1>6, <2>1, <2>2, <2>3, <2>4, <2>5 DEF AdminStep, AdminAlone
<1>7. CASE Restart
  <2>1. ch' \in Seq(Tasks) /\ Len(ch') <= QueueSize
    BY <1>7 DEF Restart, StartupQueues, Pending, Reattached
  <2>2. row' \in [Tasks -> Status]
    BY <1>7 DEF Restart, RowAfterRestart, Status
  <2>3. handle' \in [Tasks -> HandleStatus]
    BY <1>7 DEF Restart, HandleAfterRestart, HandleStatus
  <2> QED
    BY <1>7, <2>1, <2>2, <2>3 DEF Restart, WorkerPC, AdminPC, Outcomes
<1> QED
  BY <1>1, <1>2, <1>3, <1>4, <1>5, <1>6, <1>7 DEF EngineNext

\* The registry only ever names the worker executing the task.
LEMMA RegistryStep ==
  Typed /\ RegistrySound /\ [EngineNext]_engineVars => RegistrySound'
<1> SUFFICES ASSUME Typed, RegistrySound, [EngineNext]_engineVars PROVE RegistrySound'
  OBVIOUS
<1>t. /\ running \in [Tasks -> Workers \cup {NoWorker}]
      /\ wpc \in [Workers -> WorkerPC]
      /\ wtask \in [Workers -> Tasks \cup {NoTask}]
      /\ \A w \in Workers : wpc[w] # "idle" => wtask[w] \in Tasks
      /\ NoWorker \notin Workers
  BY EngineAssumption DEF Typed, TypeOK, LocalsSound
<1> USE <1>t DEF RegistrySound
<1>1. CASE UNCHANGED <<running, wpc, wtask>>
  BY <1>1
<1>2. ASSUME NEW w \in Workers, WorkerStep(w) PROVE RegistrySound'
  <2>1. ASSUME UNCHANGED <<running, wtask>>, NEW pc, wpc' = [wpc EXCEPT ![w] = pc],
               \/ wpc[w] \notin {"run", "backoff", "unregister"}
               \/ pc \in {"run", "backoff", "unregister"}
        PROVE  RegistrySound'
    BY <2>1
  <2>2. ASSUME DropEntry(wtask[w]), NEW pc, wpc' = [wpc EXCEPT ![w] = pc],
               UNCHANGED wtask, wpc[w] # "idle"
        PROVE  RegistrySound'
    BY <2>2 DEF DropEntry
  <2>3. CASE Claim(w)
    BY <2>3 DEF Claim, Goto, registry
  <2>4. CASE Register(w)
    BY <2>4 DEF Register, Goto
  <2>5. CASE Kick(w)
    BY <2>5 DEF Kick, Goto, registry
  <2>6. CASE Unregister(w)
    <3>1. wpc[w] # "idle" /\ DropEntry(wtask[w]) /\ UNCHANGED wtask
      BY <2>6 DEF Unregister
    <3>2. \E pc : wpc' = [wpc EXCEPT ![w] = pc]
      BY <2>6 DEF Unregister, Goto
    <3> QED
      BY <3>1, <3>2, <2>2
  <2>7. CASE Panic(w)
    BY <2>7, <2>2 DEF Panic, Goto, locals
  <2>8. CASE Backoff(w)
    <3>1. wpc[w] = "backoff" /\ UNCHANGED <<running, wtask>>
      BY <2>8 DEF Backoff, registry
    <3>2. wpc' = [wpc EXCEPT ![w] = "unregister"] \/ wpc' = [wpc EXCEPT ![w] = "run"]
      BY <2>8 DEF Backoff, Goto
    <3> QED
      BY <3>1, <3>2, <2>1
  <2>9. CASE RunFails(w)
    <3>1. wpc[w] = "run" /\ UNCHANGED <<running, wtask>>
      BY <2>9 DEF RunFails, registry
    <3>2. wpc' = [wpc EXCEPT ![w] = "unregister"] \/ wpc' = [wpc EXCEPT ![w] = "backoff"]
      BY <2>9 DEF RunFails, Goto
    <3> QED
      BY <3>1, <3>2, <2>1
  <2>10. CASE RunSucceeds(w)
    BY <2>10, <2>1 DEF RunSucceeds, Goto, registry
  <2>11. CASE CheckRow(w) \/ MarkRunning(w) \/ LoadAgentFails(w) \/ WriteBack(w)
    BY <2>11, <2>1 DEF CheckRow, MarkRunning, LoadAgentFails, WriteBack, Goto, registry, locals
  <2>12. CASE Callback(w) \/ Persist(w) \/ PanicPersist(w) \/ PanicCallback(w) \/ ReleaseSlot(w)
    BY <2>12, <2>1 DEF Callback, Persist, PanicPersist, PanicCallback, ReleaseSlot, Goto, registry, locals
  <2>13. CASE Defer(w) \/ HubSubmit(w) \/ Deadline(w)
    BY <2>13, <1>1 DEF Defer, HubSubmit, Deadline, registry, locals
  <2> QED
    BY <1>2, <2>3, <2>4, <2>5, <2>6, <2>7, <2>8, <2>9, <2>10, <2>11, <2>12, <2>13
       DEF WorkerStep, WorkerAlone, WorkerCalls, WorkerMoves, RunEnds
<1>3. ASSUME NEW a \in Admins, AdminStep(a) PROVE RegistrySound'
  <2>1. CASE BeginTaskReset(a) \/ BeginIssueReset(a)
    BY <2>1, <1>1 DEF BeginTaskReset, BeginIssueReset, CancelRunning
  <2>2. CASE ResetTaskRow(a) \/ ResetIssueRows(a) \/ EndReset(a)
    BY <2>2, <1>1 DEF ResetTaskRow, ResetIssueRows, EndReset, registry, locals
  <2> QED
    BY <1>3, <2>1, <2>2 DEF AdminStep, AdminAlone
<1>4. ASSUME NEW t \in Tasks, Enqueue(t) PROVE RegistrySound'
  BY <1>4, <1>1 DEF Enqueue, registry, locals
<1>5. CASE ScanTick \/ ScanPush
  BY <1>5, <1>1 DEF ScanTick, ScanPush, registry, locals
<1>6. CASE Restart
  BY <1>6 DEF Restart
<1>7. CASE UNCHANGED engineVars
  BY <1>7, <1>1 DEF engineVars
<1> QED
  BY <1>2, <1>3, <1>4, <1>5, <1>6, <1>7 DEF EngineNext

\* A reset only ever cancels an execution of the task it was asked to reset:
\* the entries of Executor.running are exact in every interleaving of
\* executions of one task, of resets and of restarts.
THEOREM RegistryIsSound == EngineSpec => [](TypeOK /\ RegistrySound)
<1>1. EngineInit => Typed /\ RegistrySound
  BY TypedInit DEF EngineInit, RegistrySound
<1>2. Typed /\ RegistrySound /\ [EngineNext]_engineVars => (Typed /\ RegistrySound)'
  BY TypedStep, RegistryStep
<1>3. Typed /\ RegistrySound => TypeOK /\ RegistrySound
  BY DEF Typed
<1> QED
  BY <1>1, <1>2, <1>3, PTL DEF EngineSpec

-----------------------------------------------------------------------------
\* serial_queue.  The exclusion of two workers from one agent, alone, is not
\* inductive in what it says of the table: AloneOnAgent carries what the query
\* of tryAcquireAgentSlot established until the slot is given back.
SerialInv ==
  SerialAgentExclusive /\ AloneOnAgent /\ OneRunningRowPerAgent /\ NotSucceededYet

\* What a step may do to the row of a task that succeeded.
KeepsSuccess ==
  Serial => \A t \in Tasks : row[t] = "success" => row'[t] = "success"

\* A worker that keeps its slot may write the row of its own task, anything
\* but a second success.
LEMMA HolderWrites ==
  ASSUME Serial, Typed, SerialInv,
         NEW w \in Workers, NEW pc \in Holding,
         wpc[w] \in Holding, wpc' = [wpc EXCEPT ![w] = pc],
         UNCHANGED <<busy, wtask>>,
         row' \in [Tasks -> Status],
         \A t \in Tasks \ {wtask[w]} : row'[t] = row[t],
         pc \in {"check", "release"} \/ row'[wtask[w]] # "success",
         row' = row \/ wpc[w] \notin {"check", "release"}
  PROVE  SerialInv' /\ KeepsSuccess
<1>1. wpc \in [Workers -> WorkerPC] /\ wtask[w] \in Tasks
  BY DEF Typed, TypeOK, LocalsSound, Holding
<1>2. \A v \in Workers \ {w} : wpc'[v] = wpc[v] /\ wpc'[w] = pc
  BY <1>1
<1>3. SerialAgentExclusive'
  BY <1>1, <1>2 DEF SerialInv, SerialAgentExclusive
<1>4. \A v \in Workers \ {w} : wpc[v] \in Holding => AgentOf[wtask[v]] # AgentOf[wtask[w]]
  BY DEF SerialInv, SerialAgentExclusive
<1>5. AloneOnAgent'
  BY <1>1, <1>2, <1>4 DEF SerialInv, AloneOnAgent
<1>6. OneRunningRowPerAgent'
  BY <1>1 DEF SerialInv, AloneOnAgent, OneRunningRowPerAgent
<1>7. NotSucceededYet'
  <2> SUFFICES ASSUME NEW v \in Workers, wpc'[v] \in Holding \ {"check", "release"}
               PROVE  row'[wtask[v]] # "success"
    BY DEF NotSucceededYet
  <2>1. CASE v = w
    BY <2>1, <1>1, <1>2
  <2>2. CASE v # w
    <3>1. wpc[v] \in Holding \ {"check", "release"} /\ row[wtask[v]] # "success"
      BY <2>2, <1>2 DEF SerialInv, NotSucceededYet
    <3>2. wtask[v] \in Tasks /\ wtask[v] # wtask[w]
      BY <2>2, <3>1, <1>4 DEF Typed, LocalsSound, Holding
    <3> QED
      BY <3>1, <3>2
  <2> QED
    BY <2>1, <2>2
<1>8. KeepsSuccess
  BY <1>1 DEF KeepsSuccess, SerialInv, NotSucceededYet
<1> QED
  BY <1>3, <1>5, <1>6, <1>7, <1>8 DEF SerialInv

\* A step that moves no worker and makes no row running or successful.
LEMMA OthersWrite ==
  ASSUME Serial, Typed, SerialInv,
         UNCHANGED <<busy, wtask, wpc>>,
         \A t \in Tasks :
           \/ row'[t] = row[t]
           \/ row[t] # "success" /\ row'[t] \in {"pending", "failed"}
  PROVE  SerialInv' /\ KeepsSuccess
<1>1. \A v \in Workers : wpc[v] \in Holding => wtask[v] \in Tasks
  BY DEF Typed, LocalsSound, Holding
<1>2. SerialAgentExclusive'
  BY DEF SerialInv, SerialAgentExclusive
<1>3. AloneOnAgent' /\ OneRunningRowPerAgent'
  BY DEF SerialInv, AloneOnAgent, OneRunningRowPerAgent
<1>4. NotSucceededYet'
  BY <1>1 DEF SerialInv, NotSucceededYet
<1> QED
  BY <1>2, <1>3, <1>4 DEF SerialInv, KeepsSuccess

\* Every step of the engine preserves the serial_queue invariants and the row
\* of a task that succeeded.
LEMMA SerialStep ==
  ASSUME Serial, Typed, Typed', SerialInv, [EngineNext]_engineVars
  PROVE  SerialInv' /\ KeepsSuccess
<1>t. /\ wpc \in [Workers -> WorkerPC] /\ wpc' \in [Workers -> WorkerPC]
      /\ wtask \in [Workers -> Tasks \cup {NoTask}]
      /\ row \in [Tasks -> Status] /\ row' \in [Tasks -> Status]
      /\ outcome \in [Workers -> Outcomes]
      /\ AgentOf \in [Tasks -> Agents]
      /\ \A w \in Workers : wpc[w] # "idle" => wtask[w] \in Tasks
  BY EngineAssumption DEF Typed, TypeOK, LocalsSound
<1>1. ASSUME NEW w \in Workers, WorkerStep(w) PROVE SerialInv' /\ KeepsSuccess
  <2>1. ASSUME NEW pc \in Holding, wpc[w] \in Holding, Goto(w, pc),
               UNCHANGED <<row, busy, wtask>>,
               \/ pc = "release"
               \/ wpc[w] \notin {"check", "release"}
               \/ row[wtask[w]] # "success"
        PROVE  SerialInv' /\ KeepsSuccess
    <3>1. pc \in {"check", "release"} \/ row'[wtask[w]] # "success"
      BY <2>1, <1>t DEF SerialInv, NotSucceededYet
    <3> QED
      BY <2>1, <3>1, <1>t, HolderWrites DEF Goto
  <2>2. CASE Claim(w)
    <3> DEFINE t == Head(ch)
    <3>1. /\ t \in Tasks /\ wpc[w] = "idle"
          /\ AgentOf[t] \notin busy
          /\ \A u \in Tasks \ {t} : AgentOf[u] = AgentOf[t] => row[u] # "running"
          /\ busy' = busy \cup {AgentOf[t]}
          /\ wtask' = [wtask EXCEPT ![w] = t]
          /\ wpc' = [wpc EXCEPT ![w] = "check"]
          /\ row' = row
      BY <2>2 DEF Claim, SlotFree, Goto, stored, Typed, TypeOK
    <3> HIDE DEF t
    <3>2. \A v \in Workers \ {w} : wpc'[v] = wpc[v] /\ wtask'[v] = wtask[v]
      BY <3>1, <1>t
    <3>3. wpc'[w] = "check" /\ wtask'[w] = t
      BY <3>1, <1>t
    <3>4. \A v \in Workers \ {w} :
            wpc'[v] \in Holding => AgentOf[wtask'[v]] \in busy /\ AgentOf[wtask'[v]] # AgentOf[t]
      BY <3>1, <3>2 DEF SerialInv, SerialAgentExclusive
    <3>5. SerialAgentExclusive'
      <4>1. \A v, x \in Workers \ {w} :
              wpc'[v] \in Holding /\ wpc'[x] \in Holding /\ v # x
              => AgentOf[wtask'[v]] # AgentOf[wtask'[x]]
        BY <3>2 DEF SerialInv, SerialAgentExclusive
      <4>2. \A v \in Workers : wpc'[v] \in Holding => AgentOf[wtask'[v]] \in busy'
        BY <3>1, <3>3, <3>4
      <4> QED
        BY <3>3, <3>4, <4>1, <4>2 DEF SerialAgentExclusive
    <3>6. AloneOnAgent'
      BY <3>1, <3>2, <3>3 DEF SerialInv, AloneOnAgent
    <3>7. OneRunningRowPerAgent' /\ KeepsSuccess
      BY <3>1 DEF SerialInv, OneRunningRowPerAgent, KeepsSuccess
    <3>8. NotSucceededYet'
      BY <3>1, <3>2, <3>3 DEF SerialInv, NotSucceededYet
    <3> QED
      BY <3>5, <3>6, <3>7, <3>8 DEF SerialInv
  <2>3. CASE Defer(w) \/ HubSubmit(w) \/ Deadline(w)
    BY <2>3, OthersWrite DEF Defer, HubSubmit, Deadline, stored, locals
  <2>4. CASE CheckRow(w)
    <3>1. wpc[w] = "check" /\ UNCHANGED <<row, busy, wtask>>
      BY <2>4 DEF CheckRow, stored, locals
    <3>2. CASE row[wtask[w]] \in Live
      <4>1. Goto(w, "mark")
        BY <2>4, <3>2 DEF CheckRow
      <4> QED
        BY <3>1, <3>2, <4>1, <2>1 DEF Holding, Live
    <3>3. CASE row[wtask[w]] \notin Live
      <4>1. Goto(w, "release")
        BY <2>4, <3>3 DEF CheckRow
      <4> QED
        BY <3>1, <4>1, <2>1 DEF Holding
    <3> QED
      BY <3>2, <3>3
  <2>5. ASSUME NEW s \in {"running", "failed", "partial"}, NEW pc \in Holding,
               row' = [row EXCEPT ![wtask[w]] = s], UNCHANGED <<busy, wtask>>,
               Goto(w, pc), wpc[w] \in Holding \ {"check", "release"}
        PROVE  SerialInv' /\ KeepsSuccess
    <3>1. wtask[w] \in Tasks
      BY <2>5, <1>t DEF Holding
    <3>2. row'[wtask[w]] # "success" /\ \A t \in Tasks \ {wtask[w]} : row'[t] = row[t]
      BY <2>5, <3>1, <1>t
    <3> QED
      BY <2>5, <3>2, <1>t, HolderWrites DEF Goto
  <2>6. CASE MarkRunning(w)
    BY <2>6, <2>5 DEF MarkRunning, Holding, locals
  <2>7. CASE PanicPersist(w)
    BY <2>7, <2>5 DEF PanicPersist, Holding, locals
  <2>8. CASE Persist(w)
    <3>1. /\ row' = [row EXCEPT ![wtask[w]] = outcome[w]]
          /\ wpc' = [wpc EXCEPT ![w] = "release"]
          /\ UNCHANGED <<busy, wtask>>
          /\ wpc[w] = "persist"
      BY <2>8 DEF Persist, Goto, locals
    <3>2. wtask[w] \in Tasks /\ \A t \in Tasks \ {wtask[w]} : row'[t] = row[t]
      BY <3>1, <1>t
    <3> QED
      BY <3>1, <3>2, <1>t, HolderWrites DEF Holding
  <2>9. CASE Register(w) \/ LoadAgentFails(w)
    BY <2>9, <2>1 DEF Register, LoadAgentFails, Holding, stored
  <2>10. CASE RunEnds(w)
    <3>1. wpc[w] = "run" /\ UNCHANGED <<row, busy, wtask>>
      BY <2>10 DEF RunEnds, RunSucceeds, RunFails
    <3>2. \E pc \in {"unregister", "backoff"} : Goto(w, pc)
      BY <2>10 DEF RunEnds, RunSucceeds, RunFails
    <3> QED
      BY <3>1, <3>2, <2>1 DEF Holding
  <2>11. CASE Backoff(w)
    <3>1. wpc[w] = "backoff" /\ UNCHANGED <<row, busy, wtask>>
      BY <2>11 DEF Backoff, stored
    <3>2. \E pc \in {"unregister", "run"} : Goto(w, pc)
      BY <2>11 DEF Backoff
    <3> QED
      BY <3>1, <3>2, <2>1 DEF Holding
  <2>12. CASE Unregister(w)
    <3>1. wpc[w] = "unregister" /\ UNCHANGED <<row, busy, wtask>>
      BY <2>12 DEF Unregister, stored
    <3>2. \E pc \in {"release", "writeback", "callback"} : Goto(w, pc)
      BY <2>12 DEF Unregister
    <3> QED
      BY <3>1, <3>2, <2>1 DEF Holding
  <2>13. CASE WriteBack(w) \/ Callback(w) \/ Panic(w) \/ PanicCallback(w)
    BY <2>13, <2>1 DEF WriteBack, Callback, Panic, PanicCallback, Holding, stored, locals
  <2>14. CASE ReleaseSlot(w)
    <3>1. /\ wpc[w] = "release" /\ wtask[w] \in Tasks
          /\ busy' = busy \ {AgentOf[wtask[w]]}
          /\ wpc' = [wpc EXCEPT ![w] = "kick"]
          /\ UNCHANGED <<row, wtask>>
      BY <2>14, <1>t DEF ReleaseSlot, Goto, stored, locals
    <3>2. \A v \in Workers : wpc'[v] \in Holding => v # w /\ wpc[v] \in Holding /\ wpc'[v] = wpc[v]
      BY <3>1, <1>t DEF Holding
    <3>3. \A v \in Workers \ {w} : wpc[v] \in Holding => AgentOf[wtask[v]] # AgentOf[wtask[w]]
      BY <3>1 DEF SerialInv, SerialAgentExclusive, Holding
    <3>4. SerialAgentExclusive'
      BY <3>1, <3>2, <3>3 DEF SerialInv, SerialAgentExclusive
    <3>5. AloneOnAgent' /\ OneRunningRowPerAgent' /\ NotSucceededYet' /\ KeepsSuccess
      BY <3>1, <3>2 DEF SerialInv, AloneOnAgent, OneRunningRowPerAgent, NotSucceededYet, KeepsSuccess
    <3> QED
      BY <3>4, <3>5 DEF SerialInv
  <2>15. CASE Kick(w)
    <3>1. /\ wpc[w] = "kick" /\ UNCHANGED <<row, busy>>
          /\ wpc' = [wpc EXCEPT ![w] = "idle"]
          /\ wtask' = [wtask EXCEPT ![w] = NoTask]
      BY <2>15 DEF Kick, Goto, stored
    <3>2. \A v \in Workers : wpc'[v] \in Holding =>
            wpc[v] \in Holding /\ wpc'[v] = wpc[v] /\ wtask'[v] = wtask[v]
      BY <3>1, <1>t DEF Holding
    <3> QED
      BY <3>1, <3>2 DEF SerialInv, SerialAgentExclusive, AloneOnAgent,
         OneRunningRowPerAgent, NotSucceededYet, KeepsSuccess
  <2> QED
    BY <1>1, <2>2, <2>3, <2>4, <2>6, <2>7, <2>8, <2>9, <2>10, <2>11, <2>12, <2>13,
       <2>14, <2>15 DEF WorkerStep, WorkerAlone, WorkerCalls, WorkerMoves
<1>2. ASSUME NEW a \in Admins, AdminStep(a) PROVE SerialInv' /\ KeepsSuccess
  <2>1. CASE BeginTaskReset(a) \/ BeginIssueReset(a) \/ EndReset(a)
    BY <2>1, OthersWrite DEF BeginTaskReset, BeginIssueReset, EndReset, stored, locals
  <2>2. CASE ResetTaskRow(a)
    <3>1. UNCHANGED <<busy, wtask, wpc>>
      BY <2>2 DEF ResetTaskRow, locals
    <3>2. \A t \in Tasks : row'[t] = row[t] \/ (row[t] # "success" /\ row'[t] = "failed")
      BY <2>2, <1>t DEF ResetTaskRow, Resettable
    <3> QED
      BY <3>1, <3>2, OthersWrite
  <2>3. CASE ResetIssueRows(a)
    <3>1. UNCHANGED <<busy, wtask, wpc>>
      BY <2>3 DEF ResetIssueRows, locals
    <3>2. \A t \in Tasks : row'[t] = row[t] \/ (row[t] # "success" /\ row'[t] = "failed")
      BY <2>3, <1>t DEF ResetIssueRows, Resettable
    <3> QED
      BY <3>1, <3>2, OthersWrite
  <2> QED
    BY <1>2, <2>1, <2>2, <2>3 DEF AdminStep, AdminAlone
<1>3. ASSUME NEW t \in Tasks, Enqueue(t) PROVE SerialInv' /\ KeepsSuccess
  <2>1. UNCHANGED <<busy, wtask, wpc>>
    BY <1>3 DEF Enqueue, locals
  <2>2. \A u \in Tasks : row'[u] = row[u] \/ (row[u] # "success" /\ row'[u] = "pending")
    BY <1>3, <1>t DEF Enqueue
  <2> QED
    BY <2>1, <2>2, OthersWrite
<1>4. CASE ScanTick \/ ScanPush \/ UNCHANGED engineVars
  BY <1>4, OthersWrite DEF ScanTick, ScanPush, engineVars, stored, locals
<1>5. CASE Restart
  <2>1. /\ \A w \in Workers : wpc'[w] = "idle"
        /\ \A t \in Tasks : row'[t] = RowAfterRestart(t)
    BY <1>5 DEF Restart
  <2>2. \A t \in Tasks : row'[t] # "running" /\ (row[t] = "success" => row'[t] = "success")
    BY <2>1 DEF RowAfterRestart
  <2> QED
    BY <2>1, <2>2 DEF SerialInv, SerialAgentExclusive, AloneOnAgent, OneRunningRowPerAgent,
       NotSucceededYet, KeepsSuccess, Holding
<1> QED
  BY <1>1, <1>2, <1>3, <1>4, <1>5 DEF EngineNext

\* In parallel mode the serial invariants say nothing.
LEMMA SerialOnly == ~Serial => SerialInv /\ KeepsSuccess
BY DEF SerialInv, SerialAgentExclusive, AloneOnAgent, OneRunningRowPerAgent,
   NotSucceededYet, KeepsSuccess

LEMMA SerialOnlyNext == ~Serial => SerialInv'
BY DEF SerialInv, SerialAgentExclusive, AloneOnAgent, OneRunningRowPerAgent,
   NotSucceededYet

LEMMA EngineInvInit == EngineInit => EngineInv
<1>1. EngineInit => Typed /\ RegistrySound
  BY TypedInit DEF EngineInit, RegistrySound
<1>2. EngineInit => SerialInv
  BY DEF EngineInit, SerialInv, SerialAgentExclusive, AloneOnAgent,
     OneRunningRowPerAgent, NotSucceededYet, Holding
<1> QED
  BY <1>1, <1>2 DEF EngineInv, Typed, SerialInv

LEMMA EngineInvStep == EngineInv /\ [EngineNext]_engineVars => EngineInv' /\ KeepsSuccess
<1> SUFFICES ASSUME EngineInv, [EngineNext]_engineVars PROVE EngineInv' /\ KeepsSuccess
  OBVIOUS
<1>1. Typed /\ Typed' /\ RegistrySound /\ RegistrySound' /\ SerialInv
  BY TypedStep, RegistryStep DEF EngineInv, Typed, SerialInv
<1>2. SerialInv' /\ KeepsSuccess
  BY <1>1, SerialStep, SerialOnly, SerialOnlyNext
<1> QED
  BY <1>1, <1>2 DEF EngineInv, Typed, SerialInv

\* The inductive invariant holds in every reachable state.
THEOREM EngineInvariant == EngineSpec => []EngineInv
<1>1. EngineInv /\ [EngineNext]_engineVars => EngineInv'
  BY EngineInvStep
<1> QED
  BY EngineInvInit, <1>1, PTL DEF EngineSpec

\* Type correctness of the engine.
THEOREM EngineTypeCorrect == EngineSpec => []TypeOK
<1>1. EngineInv => TypeOK
  BY DEF EngineInv
<1> QED
  BY EngineInvariant, <1>1, PTL

\* serial_queue: an agent is served by one worker at a time, for any number of
\* workers, copies of a task in the channel, resets and restarts.
THEOREM SerialQueueExclusive == EngineSpec => []SerialAgentExclusive
<1>1. EngineInv => SerialAgentExclusive
  BY DEF EngineInv
<1> QED
  BY EngineInvariant, <1>1, PTL

\* serial_queue: at most one row of an agent is running.
THEOREM SerialQueueOneRunning == EngineSpec => []OneRunningRowPerAgent
<1>1. EngineInv => OneRunningRowPerAgent
  BY DEF EngineInv
<1> QED
  BY EngineInvariant, <1>1, PTL

\* serial_queue: success is final.
THEOREM SuccessNeverUndone == EngineSpec => SuccessIsFinal
<1>1. EngineInv /\ [EngineNext]_engineVars
        => [Serial => \A t \in Tasks : row[t] = "success" => row'[t] = "success"]_engineVars
  BY EngineInvStep DEF KeepsSuccess
<1> QED
  BY EngineInvariant, <1>1, PTL DEF EngineSpec, SuccessIsFinal

-----------------------------------------------------------------------------
(***************************************************************************)
(* serial_queue: the engine implements the abstract table.                 *)
(***************************************************************************)

\* Only the tasks of a hub ever have a handle.
HandlesOfHubs == \A t \in Tasks : handle[t] # "none" => t \in HubTasks

LEMMA HandlesStep ==
  ASSUME TypeOK, HandlesOfHubs, [EngineNext]_engineVars
  PROVE  HandlesOfHubs'
<1> USE DEF TypeOK, HandlesOfHubs
<1>1. CASE Restart
  BY <1>1 DEF Restart, HandleAfterRestart, NonTerminalHandle
<1>2. ASSUME NEW w \in Workers, WorkerStep(w) PROVE HandlesOfHubs'
  <2>1. CASE HubSubmit(w)
    BY <2>1 DEF HubSubmit
  <2>2. CASE RunSucceeds(w)
    BY <2>2 DEF RunSucceeds
  <2>3. CASE RunFails(w)
    <3>1. PICK h \in IF NonTerminalHandle(wtask[w])
                     THEN {handle[wtask[w]], "failed", "canceled"} ELSE {handle[wtask[w]]} :
            handle' = [handle EXCEPT ![wtask[w]] = h]
      BY <2>3 DEF RunFails
    <3> QED
      BY <3>1 DEF NonTerminalHandle
  <2>4. CASE ~HubSubmit(w) /\ ~RunSucceeds(w) /\ ~RunFails(w)
    <3>1. handle' = handle
      BY <1>2, <2>4
      DEF WorkerStep, WorkerAlone, WorkerMoves, WorkerCalls, RunEnds, Claim, Defer, CheckRow,
          MarkRunning, Register, LoadAgentFails, Backoff, Unregister, WriteBack, Persist,
          PanicPersist, ReleaseSlot, Kick, Deadline, Panic, Callback, PanicCallback, stored
    <3> QED
      BY <3>1
  <2> QED
    BY <2>1, <2>2, <2>3, <2>4
<1>3. ASSUME NEW a \in Admins, AdminStep(a) PROVE HandlesOfHubs'
  BY <1>3 DEF AdminStep, AdminAlone, BeginTaskReset, ResetTaskRow, BeginIssueReset,
              ResetIssueRows, EndReset, stored
<1>4. ASSUME NEW t \in Tasks, Enqueue(t) PROVE HandlesOfHubs'
  BY <1>4 DEF Enqueue
<1>5. CASE ScanTick \/ ScanPush \/ UNCHANGED engineVars
  BY <1>5 DEF ScanTick, ScanPush, engineVars, stored
<1> QED
  BY <1>1, <1>2, <1>3, <1>4, <1>5 DEF EngineNext

\* What a program counter says of its task.
PcPhase(pc) == IF pc = "mark" THEN "taken" ELSE IF pc \in Executing THEN "started" ELSE "none"

\* Phases tell what the workers do, task by task.
LEMMA PhaseOfHolder ==
  ASSUME Serial, EngineInv, NEW w \in Workers, wpc[w] \in Holding
  PROVE  Phase(wtask[w]) = PcPhase(wpc[w])
<1>1. \A v \in Workers \ {w} : wtask[v] = wtask[w] => wpc[v] \notin Holding
  BY DEF EngineInv, SerialAgentExclusive
<1> QED
  BY <1>1 DEF Phase, PcPhase, Executing, Holding

LEMMA PhaseHasHolder ==
  ASSUME NEW t \in Tasks, Phase(t) # "none"
  PROVE  \E w \in Workers : wtask[w] = t /\ wpc[w] \in Holding
BY DEF Phase, Executing, Holding

\* A step of a worker that keeps its task moves the phase of that task only.
LEMMA PhaseMoves ==
  ASSUME Serial, EngineInv, NEW w \in Workers, wpc[w] \in Holding, NEW pc \in WorkerPC,
         wpc' = [wpc EXCEPT ![w] = pc], wtask' = wtask
  PROVE  Phases' = [Phases EXCEPT ![wtask[w]] = PcPhase(pc)]
<1>1. wpc \in [Workers -> WorkerPC] /\ wtask[w] \in Tasks
  BY DEF EngineInv, TypeOK, LocalsSound, Holding
<1>2. \A v \in Workers \ {w} : wpc'[v] = wpc[v]
  BY <1>1
<1>3. wpc'[w] = pc
  BY <1>1
<1>4. \A v \in Workers \ {w} : wtask[v] = wtask[w] => wpc[v] \notin Holding
  BY DEF EngineInv, SerialAgentExclusive
<1>5. Phase(wtask[w])' = PcPhase(pc)
  BY <1>2, <1>3, <1>4 DEF Phase, PcPhase, Executing, Holding
<1>6. ASSUME NEW t \in Tasks \ {wtask[w]} PROVE Phase(t)' = Phase(t)
  BY <1>2 DEF Phase
<1> QED
  BY <1>1, <1>5, <1>6 DEF Phases

\* A step of a worker whose task is in no phase before and after.
LEMMA PhasesStay ==
  ASSUME NEW w \in Workers,
         \A v \in Workers \ {w} : wpc'[v] = wpc[v] /\ wtask'[v] = wtask[v],
         wpc[w] \notin {"mark"} \cup Executing, wpc'[w] \notin {"mark"} \cup Executing
  PROVE  Phases' = Phases
<1>1. ASSUME NEW t \in Tasks PROVE Phase(t)' = Phase(t)
  BY DEF Phase
<1> QED
  BY <1>1 DEF Phases

LEMMA PhasesKept ==
  ASSUME UNCHANGED <<wpc, wtask>>
  PROVE  Phases' = Phases
BY DEF Phases, Phase

\* Steps the table does not see.
LEMMA TableStutters ==
  ASSUME row' = row, Phases' = Phases
  PROVE  UNCHANGED Table!vars
BY DEF Table!vars

LEMMA SamePhase ==
  ASSUME Serial, EngineInv, NEW w \in Workers, wpc[w] \in Holding, NEW pc \in WorkerPC,
         wpc' = [wpc EXCEPT ![w] = pc], UNCHANGED <<wtask, row>>,
         PcPhase(pc) = PcPhase(wpc[w])
  PROVE  UNCHANGED Table!vars
<1>1. wtask[w] \in Tasks /\ Phase(wtask[w]) = PcPhase(wpc[w])
  BY PhaseOfHolder DEF EngineInv, LocalsSound, Holding
<1>2. Phases' = Phases
  BY <1>1, PhaseMoves DEF Phases
<1> QED
  BY <1>2, TableStutters

LEMMA TakeStep ==
  ASSUME Serial, EngineInv, NEW w \in Workers, CheckRow(w)
  PROVE  Table!Next \/ UNCHANGED Table!vars
<1> DEFINE t == wtask[w]
<1>1. wpc[w] = "check" /\ t \in Tasks /\ UNCHANGED <<row, wtask>>
  BY DEF CheckRow, stored, locals, EngineInv, LocalsSound
<1>2. CASE row[t] \in Live
  <2>1. wpc' = [wpc EXCEPT ![w] = "mark"]
    BY <1>2 DEF CheckRow, Goto
  <2>2. Phases' = [Phases EXCEPT ![t] = "taken"]
    BY <1>1, <2>1, PhaseMoves DEF PcPhase, WorkerPC, Holding
  <2>3. Phases[t] = "none"
    BY <1>1, PhaseOfHolder DEF Phases, PcPhase, Executing, Holding
  <2>4. ASSUME NEW u \in Tasks \ {t}, AgentOf[u] = AgentOf[t]
        PROVE  Phases[u] = "none" /\ row[u] # "running"
    <3>1. row[u] # "running"
      BY <1>1, <2>4 DEF EngineInv, AloneOnAgent, Holding
    <3>2. Phase(u) = "none"
      BY <1>1, <2>4, PhaseHasHolder DEF EngineInv, SerialAgentExclusive, Holding
    <3> QED
      BY <3>1, <3>2 DEF Phases
  <2>5. Table!Take(t)
    BY <1>1, <1>2, <2>2, <2>3, <2>4 DEF Table!Take, Table!AgentFree, Live
  <2> QED
    BY <1>1, <2>5 DEF Table!Next
<1>3. CASE row[t] \notin Live
  <2>1. wpc' = [wpc EXCEPT ![w] = "release"]
    BY <1>3 DEF CheckRow, Goto
  <2> QED
    BY <1>1, <2>1, SamePhase DEF PcPhase, Executing, WorkerPC, Holding
<1> QED
  BY <1>2, <1>3

\* A worker that writes the row of its task starts it or finishes it.
LEMMA WriteSteps ==
  ASSUME Serial, EngineInv, NEW w \in Workers,
         MarkRunning(w) \/ Persist(w) \/ PanicPersist(w)
  PROVE  Table!Next
<1> DEFINE t == wtask[w]
<1>1. t \in Tasks /\ wpc[w] \in Holding /\ Phases[t] = PcPhase(wpc[w])
  BY PhaseOfHolder DEF MarkRunning, Persist, PanicPersist, EngineInv, LocalsSound, Holding, Phases
<1>2. CASE MarkRunning(w)
  <2>1. Phases' = [Phases EXCEPT ![t] = "started"]
    BY <1>1, <1>2, PhaseMoves
    DEF MarkRunning, Goto, PcPhase, Executing, WorkerPC, Holding, locals
  <2>2. Table!Start(t)
    BY <1>1, <1>2, <2>1 DEF MarkRunning, PcPhase, Table!Start
  <2> QED
    BY <1>1, <2>2 DEF Table!Next
<1>3. CASE Persist(w) \/ PanicPersist(w)
  <2>1. /\ wpc[w] \in {"persist", "panicked"}
        /\ \E s \in {"success", "failed", "partial"} : row' = [row EXCEPT ![t] = s]
        /\ \E pc \in {"release", "panicCallback"} : wpc' = [wpc EXCEPT ![w] = pc]
        /\ wtask' = wtask
    BY <1>3 DEF Persist, PanicPersist, Goto, locals, EngineInv, LocalsSound
  <2>2. Phases' = [Phases EXCEPT ![t] = "none"]
    BY <1>1, <2>1, PhaseMoves DEF PcPhase, Executing, WorkerPC, Holding
  <2>3. Table!Finish(t)
    BY <1>1, <2>1, <2>2 DEF PcPhase, Executing, Table!Finish
  <2> QED
    BY <1>1, <2>3 DEF Table!Next
<1> QED
  BY <1>2, <1>3

LEMMA UnregisterStep ==
  ASSUME Serial, EngineInv, NEW w \in Workers, Unregister(w)
  PROVE  Table!Next \/ UNCHANGED Table!vars
<1> DEFINE t == wtask[w]
<1>1. wpc[w] = "unregister" /\ UNCHANGED <<row, wtask>>
  BY DEF Unregister, stored
<1>2. t \in Tasks /\ Phases[t] = "started"
  BY <1>1, PhaseOfHolder DEF EngineInv, LocalsSound, Phases, PcPhase, Executing, Holding
<1>3. CASE external[t]
  <2>1. Phases' = [Phases EXCEPT ![t] = "none"]
    BY <1>1, <1>3, PhaseMoves DEF Unregister, Goto, PcPhase, Executing, WorkerPC, Holding
  <2>2. Table!GiveUp(t)
    BY <1>1, <1>2, <2>1 DEF Table!GiveUp
  <2> QED
    BY <1>2, <2>2 DEF Table!Next
<1>4. CASE ~external[t]
  <2>1. PICK pc \in {"writeback", "callback"} : wpc' = [wpc EXCEPT ![w] = pc]
    BY <1>4 DEF Unregister, Goto
  <2> QED
    BY <1>1, <2>1, SamePhase DEF PcPhase, Executing, WorkerPC, Holding
<1> QED
  BY <1>3, <1>4

\* The steps of an execution between its start and its end.
LEMMA ExecutionStutters ==
  ASSUME Serial, EngineInv, NEW w \in Workers,
         \/ Register(w) \/ LoadAgentFails(w) \/ RunEnds(w) \/ Backoff(w)
         \/ WriteBack(w) \/ Callback(w) \/ Panic(w)
  PROVE  UNCHANGED Table!vars
<1>1. PICK pc \in Executing : wpc' = [wpc EXCEPT ![w] = pc]
  <2>1. CASE Register(w) \/ LoadAgentFails(w) \/ RunEnds(w) \/ Backoff(w)
    BY <2>1 DEF Register, LoadAgentFails, RunEnds, RunSucceeds, RunFails, Backoff, Goto, Executing
  <2>2. CASE WriteBack(w) \/ Callback(w) \/ Panic(w)
    BY <2>2 DEF WriteBack, Callback, Panic, Goto, Executing
  <2> QED
    BY <2>1, <2>2
<1>2. wpc[w] \in Executing
  BY DEF Register, LoadAgentFails, RunEnds, RunSucceeds, RunFails, Backoff, WriteBack, Callback,
         Panic, Executing
<1>3. UNCHANGED <<row, wtask>>
  BY DEF Register, LoadAgentFails, RunEnds, RunSucceeds, RunFails, Backoff, WriteBack, Callback,
         Panic, stored, locals
<1> QED
  BY <1>1, <1>2, <1>3, SamePhase DEF PcPhase, Executing, WorkerPC, Holding

LEMMA OutsideStutters ==
  ASSUME EngineInv, NEW w \in Workers,
         \/ Claim(w) \/ Defer(w) \/ HubSubmit(w) \/ Deadline(w)
         \/ PanicCallback(w) \/ ReleaseSlot(w) \/ Kick(w)
  PROVE  UNCHANGED Table!vars
<1>1. wpc \in [Workers -> WorkerPC] /\ wtask \in [Workers -> Tasks \cup {NoTask}]
  BY DEF EngineInv, TypeOK
<1>2. row' = row
  BY DEF Claim, Defer, HubSubmit, Deadline, PanicCallback, ReleaseSlot, Kick, stored
<1>3. CASE Defer(w) \/ HubSubmit(w) \/ Deadline(w)
  <2>1. UNCHANGED <<wpc, wtask>>
    BY <1>3 DEF Defer, HubSubmit, Deadline, locals
  <2> QED
    BY <1>2, <2>1, PhasesKept, TableStutters
<1>4. CASE Claim(w) \/ PanicCallback(w) \/ ReleaseSlot(w) \/ Kick(w)
  <2>1. /\ wpc[w] \in {"idle", "panicCallback", "release", "kick"}
        /\ \E pc \in {"check", "release", "kick", "idle"} : wpc' = [wpc EXCEPT ![w] = pc]
        /\ \E t \in Tasks \cup {NoTask} : wtask' = wtask \/ wtask' = [wtask EXCEPT ![w] = t]
    <3>1. CASE Claim(w)
      <4>1. Head(ch) \in Tasks
        BY <3>1 DEF Claim, EngineInv, TypeOK
      <4> QED
        BY <3>1, <4>1 DEF Claim, Goto
    <3>2. CASE PanicCallback(w) \/ ReleaseSlot(w) \/ Kick(w)
      BY <3>2 DEF PanicCallback, ReleaseSlot, Kick, Goto, locals
    <3> QED
      BY <1>4, <3>1, <3>2
  <2>2. \A v \in Workers \ {w} : wpc'[v] = wpc[v] /\ wtask'[v] = wtask[v]
    BY <1>1, <2>1
  <2>3. wpc'[w] \in {"check", "release", "kick", "idle"}
    BY <1>1, <2>1
  <2> QED
    BY <1>2, <2>1, <2>2, <2>3, PhasesStay, TableStutters DEF Executing
<1> QED
  BY <1>3, <1>4

LEMMA RequestsReset ==
  ASSUME EngineInv, NEW a \in Admins, AdminStep(a)
  PROVE  Table!Next \/ UNCHANGED Table!vars
<1>1. Phases' = Phases /\ row \in [Tasks -> Status]
  BY PhasesKept
  DEF AdminStep, AdminAlone, BeginTaskReset, ResetTaskRow, BeginIssueReset, ResetIssueRows,
      EndReset, locals, EngineInv, TypeOK
<1> DEFINE R == {t \in Tasks : row[t] \in {"pending", "running", "partial"}}
<1>2. ASSUME NEW S \in SUBSET R, row' = [t \in Tasks |-> IF t \in S THEN "failed" ELSE row[t]]
      PROVE  Table!Next
  BY <1>1, <1>2 DEF Table!Next, Table!Reset
<1>3. CASE row' = row
  BY <1>1, <1>3, TableStutters
<1>4. CASE ResetTaskRow(a) /\ row' # row
  <2> DEFINE S == {atask[a]}
  <2>1. row[atask[a]] \in Resettable /\ row' = [row EXCEPT ![atask[a]] = "failed"]
        /\ atask[a] \in Tasks
    BY <1>4 DEF ResetTaskRow, EngineInv, LocalsSound
  <2>2. S \in SUBSET R
    BY <2>1 DEF Resettable
  <2>3. row' = [t \in Tasks |-> IF t \in S THEN "failed" ELSE row[t]]
    BY <1>1, <2>1
  <2> QED
    BY <1>2, <2>2, <2>3
<1>5. CASE ResetIssueRows(a)
  <2> DEFINE S == {t \in Tasks : IssueOf[t] = aissue[a] /\ row[t] \in Resettable}
  <2>1. S \in SUBSET R
    BY DEF Resettable
  <2>2. row' = [t \in Tasks |-> IF t \in S THEN "failed" ELSE row[t]]
    BY <1>5 DEF ResetIssueRows
  <2> QED
    BY <1>2, <2>1, <2>2
<1> QED
  BY <1>3, <1>4, <1>5
  DEF AdminStep, AdminAlone, BeginTaskReset, BeginIssueReset, EndReset, stored

LEMMA TableInitial == EngineInit => Table!Init
BY DEF EngineInit, Table!Init, Phases, Phase, Executing

LEMMA TableStep ==
  ASSUME Serial, EngineInv, HandlesOfHubs, [EngineNext]_engineVars
  PROVE  Table!Next \/ UNCHANGED Table!vars
<1>1. ASSUME NEW w \in Workers, WorkerStep(w) PROVE Table!Next \/ UNCHANGED Table!vars
  BY <1>1, TakeStep, WriteSteps, UnregisterStep, ExecutionStutters, OutsideStutters
  DEF WorkerStep, WorkerAlone, WorkerMoves, WorkerCalls
<1>2. ASSUME NEW t \in Tasks, Enqueue(t) PROVE Table!Next
  <2>1. Phases' = Phases
    BY <1>2, PhasesKept DEF Enqueue, locals
  <2> QED
    BY <1>2, <2>1 DEF Enqueue, Table!Next, Table!Submit
<1>3. CASE ScanTick \/ ScanPush \/ UNCHANGED engineVars
  <2>1. UNCHANGED <<row, wpc, wtask>>
    BY <1>3 DEF ScanTick, ScanPush, engineVars, stored, locals
  <2> QED
    BY <2>1, PhasesKept, TableStutters
<1>4. CASE Restart
  <2>1. Phases' = [t \in Tasks |-> "none"]
    BY <1>4 DEF Restart, Phases, Phase, Executing
  <2>2. row' = [t \in Tasks |-> RowAfterRestart(t)]
    BY <1>4 DEF Restart
  <2>3. \A t \in Tasks : RowAfterRestart(t) \in Table!AfterRestart(t)
    BY DEF RowAfterRestart, NonTerminalHandle, HandlesOfHubs, Table!AfterRestart
  <2>4. row' = [t \in Tasks |-> row'[t]]
    BY <2>2
  <2>5. \A t \in Tasks : row'[t] \in Table!AfterRestart(t)
    BY <2>2, <2>3
  <2>6. Table!Restart
    BY <2>1, <2>4, <2>5 DEF Table!Restart
  <2> QED
    BY <2>6 DEF Table!Next
<1> QED
  BY <1>1, <1>2, <1>3, <1>4, RequestsReset DEF EngineNext

\* serial_queue implements the table: for any number of tasks, agents and workers,
\* any length of the channel, any number of resets and restarts.
THEOREM EngineKeepsTable == Serial /\ EngineSpec => TaskTableKept
<1>1. EngineInit => HandlesOfHubs
  BY DEF EngineInit, HandlesOfHubs
<1>2. EngineInv /\ HandlesOfHubs /\ [EngineNext]_engineVars => HandlesOfHubs'
  BY HandlesStep DEF EngineInv
<1>3. Serial /\ EngineInv /\ HandlesOfHubs /\ [EngineNext]_engineVars => [Table!Next]_(Table!vars)
  BY TableStep
<1>4. Serial => []Serial
  <2>1. Serial => Serial'
    OBVIOUS
  <2> QED
    BY <2>1, PTL
<1> QED
  BY <1>1, <1>2, <1>3, <1>4, TableInitial, EngineInvariant, PTL
  DEF EngineSpec, TaskTableKept, Table!Spec
=============================================================================
