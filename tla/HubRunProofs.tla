---------------------------- MODULE HubRunProofs ----------------------------
(***************************************************************************)
(* The hub runs for any tasks, retries, restarts, faults and acts of       *)
(* people.  HubInv types the state and bounds the keys a task can be       *)
(* issued, which no type can do: an execution issues one key per attempt,  *)
(* and only a restart that finds a live handle starts another execution.   *)
(* The other invariants build on it, one for each property.                *)
(***************************************************************************)
EXTENDS HubRun, TLAPS

WithKey   == {"choose", "submit", "submitting", "save", "poll", "approve", "open",
              "revoke", "mark", "session", "markFailed", "revokeFailed"}
WithDraft == WithKey \ {"choose"}

Runs == [state : {"none", "working", "done", "failed", "stopped"},
         given : Contracts, head : Commits, cache : {"none", "done", "failed"}]

HubTypes ==
  /\ task \in [Tasks -> {"absent", "pending", "running", "done", "failed"}]
  /\ onPR \in [Tasks -> Tasks \cup {NoTask}]
  /\ pc \in [Tasks -> PC]
  /\ tries \in [Tasks -> 0..MaxRetries]
  /\ info \in [Tasks -> Contracts] /\ saved \in [Tasks -> Contracts]
  /\ verdict \in [Tasks -> {"none", "done", "failed", "canceled"}]
  /\ approved \in [Tasks -> Commits]
  /\ status \in [Tasks -> {"none", "running", "done", "failed", "canceled"}]
  /\ issued \in [Tasks -> Nat]
  /\ keys \subseteq Keys /\ doomed \subseteq Keys
  /\ run \in [Keys -> Runs]
  /\ base \in Commits
  /\ tip \in [Tasks -> Commits]
  /\ pr \in [Tasks -> {"none", "open", "closed"}]
  /\ lastHead \in Commits /\ missed \subseteq Slips
  /\ crashes \in Nat /\ moves \in Nat /\ faults \in 0..MaxFaults
  /\ crashes + moves \in 0..MaxEvents

\* What n executions may issue.
Quota(n) == (MaxRetries + 1) * n

\* The keys a task has been issued, by where its execution is.
Allowance(t) ==
  CASE task[t] \in {"absent", "pending"} -> Quota(crashes)
    [] task[t] = "running" /\ pc[t] \in {"begin", "prepare"} -> Quota(crashes) + tries[t]
    [] task[t] = "running" /\ pc[t] \notin {"begin", "prepare"} -> Quota(crashes) + tries[t] + 1
    [] OTHER -> Quota(crashes + 1)

\* A contract that runs: its key has been issued, its branch is chosen.
KeyGiven(t, c)   == c.key \in KeyNo /\ c.key <= issued[t]
DraftGiven(c)    == c.draft \in Tasks

TaskInv(t) ==
  /\ pc[t] = "idle" <=> task[t] # "running"
  /\ issued[t] <= Allowance(t)
  /\ pc[t] \in WithKey => KeyGiven(t, info[t])
  /\ pc[t] \in WithDraft => DraftGiven(info[t])
  /\ status[t] = "running" => KeyGiven(t, saved[t]) /\ DraftGiven(saved[t])

KeysIssued == \A k \in keys \cup doomed : k[2] <= issued[k[1]]

HubInv ==
  /\ HubTypes
  /\ \A t \in Tasks : TaskInv(t)
  /\ KeysIssued

-----------------------------------------------------------------------------
\* What the sweep cannot have decided on.
SweepInv ==
  /\ \A t \in Tasks : pc[t] # "submitting"
  /\ faults = 0 => \A t \in Tasks :
       /\ pc[t] = "poll" => status[t] = "running"
       /\ status[t] = "running" => <<t, saved[t].key>> \notin doomed
       /\ Underway(t) => KeyOf(t) \notin doomed

Alone == \A t, u \in Tasks : pc[t] # "idle" /\ pc[u] # "idle" => t = u

\* The keys left on the repository are those of the attempt underway.
KeyInUse(k) ==
  /\ pc[k[1]] \notin {"idle", "prepare", "mark", "session"}
  /\ IF pc[k[1]] = "begin"
     THEN status[k[1]] = "running" /\ k[2] = saved[k[1]].key
     ELSE k[2] = info[k[1]].key

WriterInv ==
  /\ Alone
  /\ crashes = 0 /\ faults = 0 =>
       /\ \A k \in keys : KeyInUse(k)
       /\ \A t \in Tasks : pc[t] = "poll" => status[t] = "running" /\ saved[t].key = info[t].key

\* A task pushes to the branch of the pull request it is about, or to its own
\* when there is none or it could not be read.
OwnBranch(t, c) ==
  \/ c.draft = NoTask
  \/ c.draft = IF onPR[t] = NoTask THEN t ELSE onPR[t]
  \/ c.draft = t /\ <<"pull", t>> \in missed

BranchInv ==
  /\ \A u \in Tasks : pr[u] = "open" => tip[u] # NoCommit
  /\ \A t \in Tasks : pc[t] = "open" => tip[info[t].draft] # NoCommit
  /\ moves = 0 => \A t \in Tasks :
       /\ onPR[t] # NoTask => pr[onPR[t]] = "open"
       /\ pr[t] = "open" => onPR[t] = NoTask \/ <<"pull", t>> \in missed
       /\ OwnBranch(t, info[t]) /\ OwnBranch(t, saved[t])
       /\ task[t] = "absent" => /\ info[t].draft = NoTask /\ saved[t].draft = NoTask
                                /\ pr[t] # "open"

\* A contract that continues the session starts from its head.
Continues(c) == lastHead = NoCommit \/ c.anchor = lastHead

\* A task that could not read the head starts from something else.
Misread(t) == <<"read", t>> \in missed

Approving(t) == \/ pc[t] \in {"open", "session"}
                \/ pc[t] \in {"revoke", "mark"} /\ verdict[t] = "done"

WorkInv ==
  /\ Alone
  /\ crashes = 0 /\ SessionRead => \A t \in Tasks :
       /\ task[t] \in {"absent", "pending"} => status[t] = "none"
       /\ pc[t] \in WithDraft => Misread(t) \/ Continues(info[t])
       /\ pc[t] # "idle" /\ status[t] = "running" => Misread(t) \/ Continues(saved[t])
       /\ Approving(t) => Misread(t) \/ IsPrefix(lastHead, approved[t])
       /\ task[t] = "done" /\ <<"save", t>> \notin missed => IsPrefix(approved[t], lastHead)

-----------------------------------------------------------------------------
\* Facts about the operators.

LEMMA QuotaNat == ASSUME NEW n \in Nat PROVE Quota(n) \in Nat
BY HubAssumption DEF Quota

LEMMA QuotaStep ==
  ASSUME NEW n \in Nat PROVE Quota(n + 1) = Quota(n) + MaxRetries + 1
BY HubAssumption DEF Quota

LEMMA QuotaMonotone ==
  ASSUME NEW m \in Nat, NEW n \in Nat, m <= n PROVE Quota(m) <= Quota(n)
<1>1. PICK d \in Nat : n = m + d
  <2>1. n - m \in Nat /\ n = m + (n - m) OBVIOUS
  <2> QED BY <2>1
<1>2. (MaxRetries + 1) * (m + d) = (MaxRetries + 1) * m + (MaxRetries + 1) * d
  BY HubAssumption
<1>3. (MaxRetries + 1) * d \in Nat /\ (MaxRetries + 1) * m \in Nat BY HubAssumption
<1> QED BY <1>1, <1>2, <1>3 DEF Quota

LEMMA KeyNoIsQuota == KeyNo = 1 .. Quota(MaxEvents + 1)
BY DEF KeyNo, Quota

LEMMA EmptyPrefix == ASSUME NEW s \in Commits PROVE IsPrefix(NoCommit, s)
BY DEF IsPrefix, NoCommit, Commits

LEMMA PrefixRefl == ASSUME NEW s \in Commits PROVE IsPrefix(s, s)
BY DEF IsPrefix, Commits

LEMMA PrefixTrans ==
  ASSUME NEW r \in Commits, NEW s \in Commits, NEW q \in Commits,
         IsPrefix(r, s), IsPrefix(s, q)
  PROVE  IsPrefix(r, q)
<1>1. \A a, b \in Commits : IsPrefix(a, b) <=>
         Len(a) <= Len(b) /\ \A i \in 1 .. Len(a) : a[i] = b[i]
  BY DEF IsPrefix, Commits
<1> QED BY <1>1 DEF Commits

LEMMA NoCommitTyped == NoCommit \in Commits
BY DEF NoCommit, Commits

LEMMA NoContractTyped == NoContract \in Contracts
BY NoCommitTyped DEF NoContract, Contracts, Commits

LEMMA NoRunTyped == NoRun \in Runs
BY NoCommitTyped, NoContractTyped DEF NoRun, Runs

LEMMA AnchorTyped == ASSUME NEW c \in Contracts PROVE Anchor(c) \in Commits
BY DEF Anchor, Contracts

-----------------------------------------------------------------------------
\* The state keeps its types.

LEMMA HubInitTypes == HubInit => HubTypes
<1> SUFFICES ASSUME HubInit PROVE HubTypes OBVIOUS
<1>1. run \in [Keys -> Runs] BY NoRunTyped DEF HubInit
<1>2. base \in Commits BY DEF HubInit, Commits
<1> QED
  BY <1>1, <1>2, NoCommitTyped, NoContractTyped, HubAssumption DEF HubInit, HubTypes, PC

LEMMA AttemptFailsTypes ==
  ASSUME HubTypes, NEW t \in Tasks, AttemptFails(t)
  PROVE  /\ task' \in [Tasks -> {"absent", "pending", "running", "done", "failed"}]
         /\ pc' \in [Tasks -> PC]
         /\ tries' \in [Tasks -> 0..MaxRetries]
         /\ info' \in [Tasks -> Contracts]
         /\ verdict' \in [Tasks -> {"none", "done", "failed", "canceled"}]
         /\ approved' \in [Tasks -> Commits]
<1>1. /\ task' \in [Tasks -> {"absent", "pending", "running", "done", "failed"}]
      /\ pc' \in [Tasks -> PC]
  BY DEF AttemptFails, HubTypes, Goto, PC
<1>2. tries' \in [Tasks -> 0..MaxRetries]
  BY HubAssumption DEF AttemptFails, HubTypes
<1>3. /\ info' \in [Tasks -> Contracts]
      /\ verdict' \in [Tasks -> {"none", "done", "failed", "canceled"}]
      /\ approved' \in [Tasks -> Commits]
  BY NoCommitTyped, NoContractTyped DEF AttemptFails, HubTypes
<1> QED BY <1>1, <1>2, <1>3

LEMMA MovesTyped ==
  ASSUME HubTypes, NEW t \in Tasks, NEW l \in PC, Goto(t, l)
  PROVE  pc' \in [Tasks -> PC]
BY DEF HubTypes, Goto

LEMMA FaultTyped ==
  ASSUME HubTypes, NoFault \/ Fault PROVE faults' \in 0..MaxFaults
BY HubAssumption DEF HubTypes, NoFault, Fault

LEMMA CleanupTypes ==
  ASSUME HubTypes, NEW ks, RevokeKeys(ks)
  PROVE  keys' \subseteq keys /\ keys' \subseteq Keys /\ faults' \in 0..MaxFaults
BY FaultTyped DEF RevokeKeys, HubTypes

\* The key an execution holds is one of the keys.
LEMMA KeyOfTyped ==
  ASSUME HubInv, NEW t \in Tasks, pc[t] \in WithKey PROVE KeyOf(t) \in Keys
BY DEF HubInv, TaskInv, KeyGiven, KeyOf, Keys

LEMMA EarlyTypes ==
  ASSUME HubInv, NEW t \in Tasks, Arrive(t) \/ Start(t) \/ Begin(t)
  PROVE  HubTypes'
<1> USE DEF HubInv, HubTypes, taskVars, localVars, handleVars, keyVars, repoVars, bounds
<1>1. CASE Arrive(t) BY <1>1 DEF Arrive
<1>2. CASE Start(t) BY <1>2 DEF Start, Goto, PC
<1>3. CASE Begin(t)
  <2>1. faults' \in 0..MaxFaults BY <1>3, FaultTyped DEF Begin
  <2> QED BY <1>3, <2>1 DEF Begin, Goto, PC
<1> QED BY <1>1, <1>2, <1>3

LEMMA PrepareTypes ==
  ASSUME HubInv, NEW t \in Tasks, Prepare(t), issued[t] + 1 \in KeyNo
  PROVE  HubTypes'
<1> USE DEF HubInv, HubTypes, localVars, handleVars, keyVars, repoVars, bounds
<1>1. issued' \in [Tasks -> Nat] /\ keys' \subseteq Keys
  BY DEF Prepare, Keys
<1>2. faults' \in 0..MaxFaults
  BY FaultTyped DEF Prepare
<1>3. /\ task' \in [Tasks -> {"absent", "pending", "running", "done", "failed"}]
      /\ pc' \in [Tasks -> PC]
      /\ tries' \in [Tasks -> 0..MaxRetries]
      /\ info' \in [Tasks -> Contracts]
      /\ verdict' \in [Tasks -> {"none", "done", "failed", "canceled"}]
      /\ approved' \in [Tasks -> Commits]
  <2>1. CASE AttemptFails(t) BY <2>1, AttemptFailsTypes
  <2>2. CASE /\ info' = [info EXCEPT ![t] =
                             [NoContract EXCEPT !.base = base, !.key = issued[t] + 1]]
             /\ Goto(t, "choose")
             /\ UNCHANGED <<task, tries, verdict, approved>>
    <3>1. [NoContract EXCEPT !.base = base, !.key = issued[t] + 1] \in Contracts
      BY NoContractTyped DEF Contracts, NoContract
    <3> QED BY <2>2, <3>1 DEF Goto, PC
  <2> QED BY <2>1, <2>2 DEF Prepare
<1> QED BY <1>1, <1>2, <1>3 DEF Prepare

\* What Choose puts into the contract: the branch of the pull request if it
\* could be read and has a head, the head of the session if that could.
LEMMA Chosen ==
  ASSUME HubTypes, NEW t \in Tasks, Choose(t)
  PROVE  /\ info' \in [Tasks -> Contracts]
         /\ info'[t].key = info[t].key /\ info'[t].draft \in Tasks
         /\ missed' \subseteq Slips
         /\ Misread(t)' \/ lastHead = NoCommit \/ info'[t].anchor = lastHead
         /\ onPR[t] = NoTask => info'[t].draft = t
         /\ onPR[t] # NoTask /\ pr[onPR[t]] = "open" /\ tip[onPR[t]] # NoCommit =>
              \/ info'[t].draft = onPR[t]
              \/ info'[t].draft = t /\ <<"pull", t>> \in missed'
<1> DEFINE choice(seen) == DraftChoice(t, seen)
           head(seen)   == IF choice(seen) = NoTask THEN NoCommit ELSE tip[choice(seen)]
           anchor(seen, remembered) ==
             ContinuationAnchor(SessionLastHead(remembered), head(seen))
           draft(seen, remembered) ==
             EffectiveDraftBranch(t, choice(seen), anchor(seen, remembered))
<1>1. PICK seen \in BOOLEAN, remembered \in BOOLEAN :
        /\ missed' = missed \cup (IF seen THEN {} ELSE {<<"pull", t>>})
                            \cup (IF remembered THEN {} ELSE {<<"read", t>>})
        /\ info' = [info EXCEPT ![t].draft = draft(seen, remembered),
                                ![t].anchor = anchor(seen, remembered)]
  BY Zenon DEF Choose
<1>2. choice(seen) \in Tasks \cup {NoTask} BY DEF DraftChoice, HubTypes
<1>3. head(seen) \in Commits BY <1>2, NoCommitTyped DEF HubTypes
<1>4. anchor(seen, remembered) \in Commits
  BY <1>3, NoCommitTyped DEF ContinuationAnchor, SessionLastHead, HubTypes
<1>5. draft(seen, remembered) \in Tasks BY <1>2 DEF EffectiveDraftBranch
<1>6. onPR[t] = NoTask => draft(seen, remembered) = t
  BY DEF DraftChoice, EffectiveDraftBranch
<1>7. remembered => lastHead = NoCommit \/ anchor(seen, remembered) = lastHead
  BY DEF ContinuationAnchor, SessionLastHead
<1>8. onPR[t] # NoTask /\ pr[onPR[t]] = "open" /\ tip[onPR[t]] # NoCommit =>
        draft(seen, remembered) = IF seen THEN onPR[t] ELSE t
  <2>1. CASE ~seen BY <2>1 DEF DraftChoice, EffectiveDraftBranch
  <2>2. CASE seen
    <3> SUFFICES ASSUME onPR[t] # NoTask, pr[onPR[t]] = "open", tip[onPR[t]] # NoCommit
                 PROVE  draft(seen, remembered) = onPR[t]
      BY <2>2
    <3>1. choice(seen) = onPR[t] BY <2>2 DEF DraftChoice
    <3>2. head(seen) # NoCommit BY <3>1
    <3>3. anchor(seen, remembered) # NoCommit BY <3>2 DEF ContinuationAnchor
    <3> QED BY <3>1, <3>3 DEF EffectiveDraftBranch
  <2> QED BY <2>1, <2>2
<1> HIDE DEF choice, head, anchor, draft
<1>9. info[t] \in Contracts BY DEF HubTypes
<1>10. [info[t] EXCEPT !.draft = draft(seen, remembered)] \in Contracts
  BY <1>5, <1>9 DEF Contracts
<1>17. info' = [info EXCEPT ![t] =
                 [[info[t] EXCEPT !.draft = draft(seen, remembered)]
                    EXCEPT !.anchor = anchor(seen, remembered)]]
  BY <1>1
<1>11. /\ info'[t] = [[info[t] EXCEPT !.draft = draft(seen, remembered)]
                        EXCEPT !.anchor = anchor(seen, remembered)]
       /\ info'[t] \in Contracts
  BY <1>4, <1>10, <1>17 DEF Contracts, HubTypes
<1>12. /\ info'[t].draft = draft(seen, remembered)
       /\ info'[t].anchor = anchor(seen, remembered) /\ info'[t].key = info[t].key
  BY <1>9, <1>10, <1>11 DEF Contracts
<1>13. info' \in [Tasks -> Contracts] BY <1>11, <1>17 DEF HubTypes
<1>14. missed' \subseteq Slips BY <1>1 DEF HubTypes, Slips
<1>15. seen \/ <<"pull", t>> \in missed' BY <1>1
<1>16. remembered \/ Misread(t)' BY <1>1 DEF Misread
<1> QED BY <1>5, <1>6, <1>7, <1>8, <1>12, <1>13, <1>14, <1>15, <1>16

LEMMA ChooseTypes ==
  ASSUME HubInv, NEW t \in Tasks, Choose(t) PROVE HubTypes'
<1> USE DEF HubInv, HubTypes, localVars, handleVars, keyVars, repoVars, bounds
<1>1. info' \in [Tasks -> Contracts] /\ missed' \subseteq Slips BY Chosen
<1>2. faults' \in 0..MaxFaults BY FaultTyped DEF Choose
<1> QED BY <1>1, <1>2 DEF Choose, Goto, PC

LEMMA SubmitTypes ==
  ASSUME HubInv, NEW t \in Tasks, Submit(t) \/ SubmitReturns(t)
  PROVE  HubTypes'
<1> USE DEF HubInv, HubTypes, taskVars, localVars, handleVars, keyVars, repoVars, bounds
<1>1. CASE Submit(t)
  <2>1. info[t] \in Contracts OBVIOUS
  <2>2. \A r \in Started(info[t]) : r \in Runs
    <3> DEFINE fresh == [NoRun EXCEPT !.state = "working", !.given = info[t]]
    <3>1. [NoRun EXCEPT !.state = "working"] \in Runs BY NoRunTyped DEF Runs
    <3>2. [[NoRun EXCEPT !.state = "working"] EXCEPT !.given = info[t]] \in Runs
      BY <2>1, <3>1 DEF Runs
    <3>3. fresh \in Runs BY <3>2
    <3>4. Started(info[t]) = {fresh} \cup
            (IF Async THEN {[[fresh EXCEPT !.state = "failed"] EXCEPT !.cache = "done"]} ELSE {})
      BY DEF Started
    <3> HIDE DEF fresh
    <3>5. [fresh EXCEPT !.state = "failed"] \in Runs BY <3>3 DEF Runs
    <3>6. [[fresh EXCEPT !.state = "failed"] EXCEPT !.cache = "done"] \in Runs
      BY <3>5 DEF Runs
    <3> QED BY <3>3, <3>4, <3>6
  <2>3. run' \in [Keys -> Runs]
    BY <1>1, <2>2 DEF Submit
  <2>4. faults' \in 0..MaxFaults BY <1>1, FaultTyped DEF Submit
  <2>5. pc' \in [Tasks -> PC] BY <1>1 DEF Submit, Goto, PC
  <2> QED BY <1>1, <2>3, <2>4, <2>5 DEF Submit
<1>2. CASE SubmitReturns(t)
  <2>1. KeyOf(t) \in Keys BY <1>2, KeyOfTyped DEF SubmitReturns, WithKey
  <2>2. run' \in [Keys -> Runs]
    <3> DEFINE k == KeyOf(t)
    <3>1. run[k] \in Runs BY <2>1
    <3> HIDE DEF k
    <3>2. CASE /\ run[k].state \in {"done", "failed"}
               /\ run' = [run EXCEPT ![k].cache = run[k].state]
      BY <3>1, <3>2 DEF Runs
    <3>3. CASE \E s \in {"working", "stopped"} :
                 run' = [run EXCEPT ![k].state = s, ![k].cache = "failed"]
      <4>1. PICK s \in {"working", "stopped"} :
              run' = [run EXCEPT ![k] = [[run[k] EXCEPT !.state = s] EXCEPT !.cache = "failed"]]
        BY <3>3
      <4>2. [run[k] EXCEPT !.state = s] \in Runs BY <3>1 DEF Runs
      <4>3. [[run[k] EXCEPT !.state = s] EXCEPT !.cache = "failed"] \in Runs
        BY <4>2 DEF Runs
      <4> QED BY <4>1, <4>3
    <3>4. CallEnds(k) BY <1>2 DEF SubmitReturns, k
    <3> QED BY <3>2, <3>3, <3>4 DEF CallEnds
  <2> QED BY <1>2, <2>2 DEF SubmitReturns, Goto, PC
<1> QED BY <1>1, <1>2

LEMMA PollTypes ==
  ASSUME HubInv, NEW t \in Tasks,
         Save(t) \/ PollEnds(t) \/ PollError(t) \/ Deadline(t)
  PROVE  HubTypes'
<1> USE DEF HubInv, HubTypes, taskVars, localVars, handleVars, keyVars, repoVars, bounds
<1>1. CASE Save(t)
  <2>1. faults' \in 0..MaxFaults BY <1>1, FaultTyped DEF Save
  <2> QED BY <1>1, <2>1 DEF Save, Goto, PC
<1>2. CASE PollEnds(t) BY <1>2 DEF PollEnds, Goto, PC
<1>3. CASE PollError(t)
  <2>1. AttemptFails(t) BY <1>3 DEF PollError
  <2>2. faults' \in 0..MaxFaults BY <1>3, FaultTyped DEF PollError
  <2> QED BY <1>3, <2>1, <2>2, AttemptFailsTypes DEF PollError
<1>4. CASE Deadline(t) BY <1>4 DEF Deadline, Goto, PC
<1> QED BY <1>1, <1>2, <1>3, <1>4

LEMMA ApproveTypes ==
  ASSUME HubInv, NEW t \in Tasks, Approve(t) \/ OpenPR(t)
  PROVE  HubTypes'
<1> USE DEF HubInv, HubTypes, taskVars, localVars, handleVars, keyVars, repoVars, bounds
<1>1. CASE Approve(t)
  <2>1. info[t].draft \in Tasks
    BY <1>1 DEF Approve, TaskInv, DraftGiven, WithDraft, WithKey
  <2>2. FetchDraft(info[t]) \in Commits BY <2>1 DEF FetchDraft
  <2>3. faults' \in 0..MaxFaults BY <1>1, FaultTyped DEF Approve
  <2> QED BY <1>1, <2>2, <2>3 DEF Approve, Goto, PC
<1>2. CASE OpenPR(t)
  <2>1. faults' \in 0..MaxFaults BY <1>2, FaultTyped DEF OpenPR
  <2> QED BY <1>2, <2>1 DEF OpenPR, Goto, PC
<1> QED BY <1>1, <1>2

LEMMA MarkTypes ==
  ASSUME HubTypes, NEW t \in Tasks, NEW s \in {"none", "done", "failed", "canceled"},
         MarkTerminal(t, s)
  PROVE  /\ status' \in [Tasks -> {"none", "running", "done", "failed", "canceled"}]
         /\ run' \in [Keys -> Runs]
         /\ faults' \in 0..MaxFaults
BY NoRunTyped, FaultTyped DEF HubTypes, MarkTerminal

\* A row is not made to run by the end of a run.
LEMMA Marked ==
  ASSUME HubTypes, NEW t \in Tasks, NEW s, s # "running", MarkTerminal(t, s)
  PROVE  /\ status'[t] = "running" => status[t] = "running" /\ Fault
         /\ \A u \in Tasks : u # t => status'[u] = status[u]
BY DEF HubTypes, MarkTerminal

LEMMA EndTypes ==
  ASSUME HubInv, NEW t \in Tasks,
         Revoke(t) \/ Mark(t) \/ SaveSession(t) \/ MarkFailed(t) \/ RevokeFailed(t)
  PROVE  HubTypes'
<1> USE DEF HubInv, HubTypes, taskVars, localVars, handleVars, keyVars, repoVars, bounds
<1>1. CASE Revoke(t)
  <2>1. keys' \subseteq Keys /\ faults' \in 0..MaxFaults
    BY <1>1, CleanupTypes DEF Revoke, Cleanup
  <2>2. run' \in [Keys -> Runs]
    <3>1. run' = run \/ run' = [run EXCEPT ![KeyOf(t)].state = "stopped"]
      BY <1>1 DEF Revoke
    <3> QED BY <3>1 DEF Runs
  <2> QED BY <1>1, <2>1, <2>2 DEF Revoke, Goto, PC
<1>2. CASE Mark(t)
  <2>1. status' \in [Tasks -> {"none", "running", "done", "failed", "canceled"}]
    BY <1>2, MarkTypes DEF Mark
  <2>2. run' \in [Keys -> Runs] /\ faults' \in 0..MaxFaults
    BY <1>2, MarkTypes DEF Mark
  <2>3. CASE AttemptFails(t)
    BY <1>2, <2>1, <2>2, <2>3, AttemptFailsTypes DEF Mark
  <2>4. CASE Goto(t, "session") /\ UNCHANGED <<task, tries, localVars>>
    BY <1>2, <2>1, <2>2, <2>4 DEF Mark, Goto, PC
  <2> QED BY <1>2, <2>3, <2>4 DEF Mark
<1>3. CASE SaveSession(t)
  <2>1. faults' \in 0..MaxFaults BY <1>3, FaultTyped DEF SaveSession
  <2>2. lastHead' \in Commits /\ missed' \subseteq Slips
    BY <1>3 DEF SaveSession, Slips
  <2> QED
    BY <1>3, <2>1, <2>2, NoContractTyped, HubAssumption DEF SaveSession, Goto, PC
<1>4. CASE MarkFailed(t)
  <2>1. status' \in [Tasks -> {"none", "running", "done", "failed", "canceled"}]
    BY <1>4, MarkTypes DEF MarkFailed
  <2>2. run' \in [Keys -> Runs] /\ faults' \in 0..MaxFaults
    BY <1>4, MarkTypes DEF MarkFailed
  <2> QED BY <1>4, <2>1, <2>2 DEF MarkFailed, Goto, PC
<1>5. CASE RevokeFailed(t)
  <2>1. keys' \subseteq Keys /\ faults' \in 0..MaxFaults
    BY <1>5, CleanupTypes DEF RevokeFailed, Cleanup
  <2>2. AttemptFails(t) BY <1>5 DEF RevokeFailed
  <2> QED BY <1>5, <2>1, <2>2, AttemptFailsTypes DEF RevokeFailed
<1> QED BY <1>1, <1>2, <1>3, <1>4, <1>5

LEMMA HubTypesPush ==
  ASSUME HubInv, NEW k \in Keys, Push(k) \/ HubEnds(k)
  PROVE  HubTypes'
<1> USE DEF HubInv, HubTypes, taskVars, localVars, handleVars, keyVars, repoVars, bounds
<1>1. CASE Push(k)
  <2> DEFINE c == run[k].given
  <2>1. c \in Contracts /\ k[1] \in Tasks /\ c.base \in Commits
    BY DEF Runs, Keys, Contracts
  <2>2. /\ Append(Anchor(c), k[1]) \in Commits
        /\ Append(Anchor(c), "unsigned") \in Commits
        /\ Append(c.base, k[1]) \in Commits
    <3>1. Anchor(c) \in Commits BY <2>1, AnchorTyped
    <3> HIDE DEF c
    <3> QED BY <2>1, <3>1 DEF Commits
  <2>3. PICK head \in Commits : /\ tip' = [tip EXCEPT ![c.draft] = head]
                                /\ run' = [run EXCEPT ![k].head = head]
    BY <1>1, <2>2 DEF Push
  <2>4. run' \in [Keys -> Runs] BY <2>3 DEF Runs
  <2>5. tip' \in [Tasks -> Commits] BY <2>3
  <2> QED BY <1>1, <2>4, <2>5 DEF Push
<1>2. CASE HubEnds(k)
  <2>1. run' \in [Keys -> Runs] BY <1>2, NoRunTyped DEF HubEnds, Runs
  <2> QED BY <1>2, <2>1 DEF HubEnds
<1> QED BY <1>1, <1>2

LEMMA PeopleTypes == ASSUME HubInv, People PROVE HubTypes'
<1> USE DEF HubInv, HubTypes, taskVars, localVars, handleVars, keyVars, repoVars, bounds
<1>1. Append(base, "main") \in Commits BY DEF Commits
<1>2. \A b \in Tasks : Append(tip[b], "human") \in Commits BY DEF Commits
<1>3. base' \in Commits BY <1>1 DEF People
<1>4. tip' \in [Tasks -> Commits] BY <1>2 DEF People
<1>5. pr' \in [Tasks -> {"none", "open", "closed"}] BY DEF People
<1>6. crashes \in Nat /\ moves' \in Nat /\ crashes + moves' \in 0..MaxEvents
  BY HubAssumption DEF People
<1> QED BY <1>3, <1>4, <1>5, <1>6 DEF People

LEMMA SweepTypes == ASSUME HubInv, SweepList \/ SweepRevoke PROVE HubTypes'
<1> USE DEF HubInv, HubTypes, taskVars, localVars, handleVars, keyVars, repoVars, bounds
<1>1. CASE SweepList BY <1>1 DEF SweepList
<1>2. CASE SweepRevoke
  <2>1. keys' \subseteq Keys /\ faults' \in 0..MaxFaults
    BY <1>2, CleanupTypes DEF SweepRevoke
  <2> QED BY <1>2, <2>1 DEF SweepRevoke
<1> QED BY <1>1, <1>2

LEMMA RestartTypes == ASSUME HubInv, Restart PROVE HubTypes'
<1> USE DEF HubInv, HubTypes, taskVars, localVars, handleVars, keyVars, repoVars, bounds
<1>1. task' \in [Tasks -> {"absent", "pending", "running", "done", "failed"}]
  BY DEF Restart, TaskAfterRestart
<1>2. status' \in [Tasks -> {"none", "running", "done", "failed", "canceled"}]
  BY DEF Restart, HandleAfterRestart, Finished
<1>3. run' \in [Keys -> Runs] BY DEF Restart, Runs
<1>4. approved' \in [Tasks -> Commits] BY NoCommitTyped DEF Restart
<1>5. info' \in [Tasks -> Contracts] BY NoContractTyped DEF Restart
<1>6. tries' \in [Tasks -> 0..MaxRetries] /\ pc' \in [Tasks -> PC]
  BY HubAssumption DEF Restart, PC
<1>7. crashes' \in Nat /\ moves \in Nat /\ crashes' + moves \in 0..MaxEvents
  BY HubAssumption DEF Restart
<1> QED BY <1>1, <1>2, <1>3, <1>4, <1>5, <1>6, <1>7 DEF Restart

-----------------------------------------------------------------------------
\* What an execution leaves alone.

LEMMA AttemptFailsOthers ==
  ASSUME HubTypes, NEW t \in Tasks, NEW u \in Tasks, u # t, AttemptFails(t)
  PROVE  /\ task'[u] = task[u] /\ pc'[u] = pc[u] /\ tries'[u] = tries[u]
         /\ info'[u] = info[u] /\ verdict'[u] = verdict[u] /\ approved'[u] = approved[u]
BY DEF HubTypes, AttemptFails, Goto

\* A step of one task's execution is none of another's.
LEMMA Others ==
  ASSUME HubTypes, NEW t \in Tasks, NEW u \in Tasks, u # t,
         Arrive(t) \/ Start(t) \/ Execution(t)
  PROVE  /\ task'[u] = task[u] /\ onPR'[u] = onPR[u] /\ pc'[u] = pc[u]
         /\ tries'[u] = tries[u] /\ info'[u] = info[u] /\ verdict'[u] = verdict[u]
         /\ approved'[u] = approved[u] /\ status'[u] = status[u]
         /\ saved'[u] = saved[u] /\ issued'[u] = issued[u]
<1> USE DEF HubTypes, taskVars, localVars, handleVars, keyVars, repoVars, bounds, Goto
<1>1. CASE Arrive(t) \/ Start(t) BY <1>1 DEF Arrive, Start
<1>2. CASE Begin(t) BY <1>2 DEF Begin
<1>3. CASE Prepare(t)
  <2>1. /\ onPR'[u] = onPR[u] /\ status'[u] = status[u]
        /\ saved'[u] = saved[u] /\ issued'[u] = issued[u]
    BY <1>3 DEF Prepare
  <2>2. CASE AttemptFails(t) BY <2>1, <2>2, AttemptFailsOthers
  <2>3. CASE ~AttemptFails(t) BY <1>3, <2>1, <2>3 DEF Prepare
  <2> QED BY <2>2, <2>3
<1>4. CASE Choose(t) \/ Submit(t) \/ SubmitReturns(t)
  BY <1>4 DEF Choose, Submit, SubmitReturns
<1>5. CASE Save(t) \/ PollEnds(t) \/ Deadline(t)
  BY <1>5 DEF Save, PollEnds, Deadline
<1>6. CASE PollError(t) BY <1>6, AttemptFailsOthers DEF PollError
<1>7. CASE Approve(t) \/ OpenPR(t) \/ Revoke(t)
  BY <1>7 DEF Approve, OpenPR, Revoke
<1>8. CASE Mark(t)
  <2>1. /\ onPR'[u] = onPR[u] /\ status'[u] = status[u]
        /\ saved'[u] = saved[u] /\ issued'[u] = issued[u]
    BY <1>8 DEF Mark, MarkTerminal
  <2>2. CASE AttemptFails(t) BY <2>1, <2>2, AttemptFailsOthers
  <2>3. CASE ~AttemptFails(t) BY <1>8, <2>1, <2>3 DEF Mark
  <2> QED BY <2>2, <2>3
<1>9. CASE SaveSession(t) \/ MarkFailed(t)
  BY <1>9 DEF SaveSession, MarkFailed, MarkTerminal
<1>10. CASE RevokeFailed(t) BY <1>10, AttemptFailsOthers DEF RevokeFailed
<1> QED BY <1>1, <1>2, <1>3, <1>4, <1>5, <1>6, <1>7, <1>8, <1>9, <1>10 DEF Execution

\* Nor does it move the bounds, or lose a fault.
LEMMA Bounds ==
  ASSUME HubTypes, NEW t \in Tasks, Arrive(t) \/ Start(t) \/ Execution(t)
  PROVE  crashes' = crashes /\ moves' = moves /\ faults <= faults' /\ base' = base
<1> USE DEF bounds, repoVars, HubTypes, NoFault, Fault
<1>1. CASE Arrive(t) \/ Start(t) \/ Begin(t) \/ Prepare(t)
  BY <1>1 DEF Arrive, Start, Begin, Prepare
<1>5. CASE Choose(t)
  <2>1. NoFault \/ Fault BY <1>5 DEF Choose
  <2>2. UNCHANGED <<crashes, moves, base>> BY <1>5 DEF Choose
  <2> QED BY <2>1, <2>2
<1>2. CASE Submit(t) \/ SubmitReturns(t) \/ Save(t) \/ PollEnds(t) \/ PollError(t)
  BY <1>2 DEF Submit, SubmitReturns, Save, PollEnds, PollError
<1>3. CASE Deadline(t) \/ Approve(t) \/ OpenPR(t) \/ Mark(t) \/ SaveSession(t) \/ MarkFailed(t)
  BY <1>3 DEF Deadline, Approve, OpenPR, Mark, SaveSession, MarkFailed, MarkTerminal
<1>4. CASE Revoke(t) \/ RevokeFailed(t)
  BY <1>4 DEF Revoke, RevokeFailed, Cleanup, RevokeKeys
<1> QED BY <1>1, <1>2, <1>3, <1>4, <1>5 DEF Execution

\* A call that failed stays noted, and is one of the task that moves.
LEMMA MissedGrows ==
  ASSUME NEW t \in Tasks, Arrive(t) \/ Start(t) \/ Execution(t)
  PROVE  /\ missed \subseteq missed'
         /\ \A u \in Tasks : u # t => \A w : <<w, u>> \in missed' => <<w, u>> \in missed
<1>1. CASE Arrive(t) \/ Start(t) \/ Begin(t) \/ Prepare(t) \/ Submit(t)
  BY <1>1 DEF Arrive, Start, Begin, Prepare, Submit
<1>2. CASE SubmitReturns(t) \/ Save(t) \/ PollEnds(t) \/ PollError(t) \/ Deadline(t)
  BY <1>2 DEF SubmitReturns, Save, PollEnds, PollError, Deadline
<1>3. CASE Approve(t) \/ OpenPR(t) \/ Mark(t) \/ MarkFailed(t) \/ Revoke(t) \/ RevokeFailed(t)
  BY <1>3 DEF Approve, OpenPR, Mark, MarkFailed, Revoke, RevokeFailed
<1>4. CASE Choose(t)
  <2>1. PICK seen \in BOOLEAN, remembered \in BOOLEAN :
          missed' = missed \cup (IF seen THEN {} ELSE {<<"pull", t>>})
                           \cup (IF remembered THEN {} ELSE {<<"read", t>>})
    BY <1>4 DEF Choose
  <2> QED BY <2>1
<1>5. CASE SaveSession(t) BY <1>5 DEF SaveSession
<1> QED BY <1>1, <1>2, <1>3, <1>4, <1>5 DEF Execution

-----------------------------------------------------------------------------
\* HubInv of the task that moves.

LEMMA SameTask ==
  ASSUME HubInv, NEW u \in Tasks, task'[u] = task[u], pc'[u] = pc[u],
         tries'[u] = tries[u], info'[u] = info[u], status'[u] = status[u],
         saved'[u] = saved[u], issued'[u] = issued[u], crashes' = crashes
  PROVE  TaskInv(u)'
BY DEF HubInv, TaskInv, Allowance, KeyGiven, DraftGiven

LEMMA Issues ==
  ASSUME HubInv, NEW t \in Tasks
  PROVE  /\ Quota(crashes) \in Nat /\ issued[t] \in Nat /\ tries[t] \in 0..MaxRetries
         /\ task[t] = "running" => issued[t] <= Quota(crashes) + tries[t] + 1
         /\ pc[t] \in {"begin", "prepare"} => issued[t] <= Quota(crashes) + tries[t]
         /\ task[t] \in {"absent", "pending"} => issued[t] <= Quota(crashes)
         /\ issued[t] <= Quota(crashes + 1)
         /\ Quota(crashes + 1) = Quota(crashes) + MaxRetries + 1
<1>1. Quota(crashes) \in Nat /\ Quota(crashes + 1) = Quota(crashes) + MaxRetries + 1
  BY QuotaNat, QuotaStep DEF HubInv, HubTypes
<1>2. /\ issued[t] \in Nat /\ tries[t] \in 0..MaxRetries /\ TaskInv(t)
      /\ task[t] \in {"absent", "pending", "running", "done", "failed"}
  BY DEF HubInv, HubTypes
<1> QED BY <1>1, <1>2, HubAssumption DEF TaskInv, Allowance

LEMMA NextKeyExists ==
  ASSUME HubInv, NEW t \in Tasks, pc[t] = "prepare" PROVE issued[t] + 1 \in KeyNo
<1>1. issued[t] + 1 <= Quota(crashes + 1) BY Issues, HubAssumption
<1>2. crashes \in Nat /\ crashes + 1 <= MaxEvents + 1
  BY HubAssumption DEF HubInv, HubTypes
<1>3. Quota(crashes + 1) <= Quota(MaxEvents + 1)
  BY <1>2, QuotaMonotone, HubAssumption
<1>4. Quota(crashes + 1) \in Nat /\ Quota(MaxEvents + 1) \in Nat /\ issued[t] \in Nat
  BY <1>2, QuotaNat, Issues, HubAssumption
<1> QED BY <1>1, <1>3, <1>4, KeyNoIsQuota

\* The execution goes on.
LEMMA GoesOn ==
  ASSUME HubInv, HubTypes', NEW t \in Tasks, NEW l \in PC \ {"idle"}, Goto(t, l),
         pc[t] # "idle", task'[t] = task[t], tries'[t] = tries[t],
         issued'[t] = issued[t], crashes' = crashes,
         l \in {"begin", "prepare"} => pc[t] \in {"begin", "prepare"},
         l \in WithKey => KeyGiven(t, info[t])' ,
         l \in WithDraft => DraftGiven(info'[t]),
         status'[t] = "running" => KeyGiven(t, saved[t])' /\ DraftGiven(saved'[t])
  PROVE  TaskInv(t)'
<1>1. pc'[t] = l /\ task[t] = "running" BY DEF Goto, HubInv, HubTypes, TaskInv
<1>2. issued'[t] <= Allowance(t)'
  BY <1>1, Issues DEF Allowance
<1> QED BY <1>1, <1>2 DEF TaskInv

LEMMA Retries ==
  ASSUME HubInv, HubTypes', NEW t \in Tasks, AttemptFails(t), task[t] = "running",
         issued'[t] \in {issued[t], issued[t] + 1},
         issued'[t] # issued[t] => pc[t] = "prepare",
         status'[t] = "running" => status[t] = "running",
         saved' = saved, crashes' = crashes
  PROVE  TaskInv(t)'
<1>1. issued[t] \in Nat /\ tries[t] \in 0..MaxRetries /\ Quota(crashes) \in Nat
  BY Issues
<1>2. issued'[t] <= Quota(crashes) + tries[t] + 1
  BY <1>1, Issues
<1>3. status'[t] = "running" => KeyGiven(t, saved[t])' /\ DraftGiven(saved'[t])
  <2>1. status'[t] = "running" => KeyGiven(t, saved[t]) /\ DraftGiven(saved[t])
    BY DEF HubInv, TaskInv
  <2>2. saved[t].key \in KeyNo => saved[t].key \in Nat
    BY HubAssumption DEF KeyNo
  <2> QED BY <1>1, <2>1, <2>2 DEF KeyGiven
<1>4. pc'[t] \in {"idle", "begin"} /\ (pc'[t] = "idle" <=> task'[t] # "running")
  BY DEF AttemptFails, Goto, HubInv, HubTypes
<1>5. issued'[t] <= Allowance(t)'
  <2>1. CASE /\ tries' = [tries EXCEPT ![t] = @ + 1]
             /\ Goto(t, "begin") /\ UNCHANGED task
    <3>1. tries'[t] = tries[t] + 1 /\ pc'[t] = "begin" /\ task'[t] = "running"
      BY <2>1 DEF HubInv, HubTypes, Goto
    <3> QED BY <1>1, <1>2, <3>1 DEF Allowance
  <2>2. CASE task' = [task EXCEPT ![t] = "failed"]
    <3>1. task'[t] = "failed" BY <2>2 DEF HubInv, HubTypes
    <3>2. Allowance(t)' = Quota(crashes + 1) BY <3>1 DEF Allowance
    <3>3. Quota(crashes + 1) = Quota(crashes) + MaxRetries + 1 BY Issues
    <3> QED BY <1>1, <1>2, <3>2, <3>3, HubAssumption
  <2> QED BY <2>1, <2>2 DEF AttemptFails
<1> QED BY <1>3, <1>4, <1>5 DEF TaskInv, WithKey, WithDraft

LEMMA StepTypes ==
  ASSUME HubInv, NEW t \in Tasks, Arrive(t) \/ Start(t) \/ Execution(t)
  PROVE  HubTypes'
<1>1. CASE Prepare(t)
  <2>1. issued[t] + 1 \in KeyNo BY <1>1, NextKeyExists DEF Prepare
  <2> QED BY <1>1, <2>1, PrepareTypes
<1> QED
  BY <1>1, EarlyTypes, ChooseTypes, SubmitTypes, PollTypes, ApproveTypes, EndTypes
  DEF Execution

LEMMA MovingTask ==
  ASSUME HubInv, NEW t \in Tasks, Arrive(t) \/ Start(t) \/ Execution(t)
  PROVE  TaskInv(t)'
<1>1. HubTypes' BY StepTypes
<1>2. crashes' = crashes BY Bounds DEF HubInv
<1>3. TaskInv(t) /\ HubTypes BY DEF HubInv
<1>4. pc[t] # "idle" => task[t] = "running" BY <1>3 DEF TaskInv, HubTypes
<1> USE DEF localVars, handleVars, keyVars
<1>5. CASE Arrive(t)
  <2>1. /\ task[t] = "absent" /\ task'[t] = "pending" /\ pc'[t] = pc[t]
        /\ UNCHANGED <<tries, info, saved, status, issued>>
    BY <1>3, <1>5 DEF Arrive, HubTypes
  <2> QED BY <1>2, <1>3, <2>1 DEF TaskInv, Allowance, KeyGiven
<1>6. CASE Start(t)
  <2>1. /\ task[t] = "pending" /\ task'[t] = "running" /\ pc'[t] = "begin"
        /\ UNCHANGED <<tries, info, saved, status, issued>>
    BY <1>3, <1>6 DEF Start, Goto, HubTypes
  <2>2. issued[t] <= Quota(crashes) /\ Quota(crashes) \in Nat /\ issued[t] \in Nat
        /\ tries[t] \in Nat
    BY <2>1, Issues
  <2>3. issued'[t] <= Allowance(t)' BY <1>2, <2>1, <2>2 DEF Allowance
  <2> QED BY <1>3, <2>1, <2>3 DEF TaskInv, KeyGiven, WithKey, WithDraft
<1>7. CASE Begin(t)
  <2>1. /\ pc[t] = "begin" /\ UNCHANGED <<task, tries, issued, saved, status>>
    BY <1>7 DEF Begin
  <2>2. CASE status[t] = "running" /\ Goto(t, "poll") /\ info' = [info EXCEPT ![t] = saved[t]]
    <3>1. info'[t] = saved[t] BY <1>3, <2>2 DEF HubTypes
    <3>2. KeyGiven(t, info[t])' /\ DraftGiven(info'[t])
      BY <1>3, <2>1, <2>2, <3>1 DEF TaskInv, KeyGiven
    <3>3. KeyGiven(t, saved[t])' /\ DraftGiven(saved'[t])
      BY <1>3, <2>1, <2>2 DEF TaskInv, KeyGiven
    <3>4. "poll" \in PC \ {"idle"} BY DEF PC
    <3> QED BY <1>1, <1>2, <2>1, <2>2, <3>2, <3>3, <3>4, GoesOn
  <2>3. CASE Goto(t, "prepare")
    <3>1. "prepare" \in PC \ {"idle"} BY DEF PC
    <3>2. status'[t] = "running" => KeyGiven(t, saved[t])' /\ DraftGiven(saved'[t])
      BY <1>3, <2>1 DEF TaskInv, KeyGiven
    <3> QED BY <1>1, <1>2, <2>1, <2>3, <3>1, <3>2, GoesOn DEF WithKey, WithDraft
  <2> QED BY <1>7, <2>2, <2>3 DEF Begin
<1>8. CASE Prepare(t)
  <2>1. /\ pc[t] = "prepare" /\ UNCHANGED <<status, saved>>
        /\ issued'[t] \in {issued[t], issued[t] + 1}
    BY <1>3, <1>8 DEF Prepare, HubTypes
  <2>2. CASE AttemptFails(t)
    BY <1>1, <1>2, <1>4, <2>1, <2>2, Retries
  <2>3. CASE ~AttemptFails(t)
    <3>1. /\ issued' = [issued EXCEPT ![t] = @ + 1]
          /\ info' = [info EXCEPT ![t] =
                        [NoContract EXCEPT !.base = base, !.key = issued[t] + 1]]
          /\ Goto(t, "choose") /\ UNCHANGED <<task, tries>>
      BY <1>8, <2>3 DEF Prepare
    <3>2. info'[t].key = issued[t] + 1 BY <1>3, <3>1 DEF HubTypes, NoContract
    <3>3. issued'[t] = issued[t] + 1 /\ pc'[t] = "choose"
      BY <1>3, <3>1 DEF HubTypes, Goto
    <3>4. issued[t] + 1 \in KeyNo BY <2>1, NextKeyExists
    <3>5. issued'[t] <= Allowance(t)'
      BY <1>2, <1>4, <2>1, <3>1, <3>3, Issues DEF Allowance
    <3>6. status[t] = "running" => KeyGiven(t, saved[t])' /\ DraftGiven(saved[t])
      <4>1. KeyNo \subseteq Nat /\ issued[t] \in Nat
        BY HubAssumption, Issues DEF KeyNo
      <4>2. saved'[t] = saved[t] BY <2>1
      <4>3. status[t] = "running" => /\ saved[t].key \in Nat /\ saved[t].key \in KeyNo
                                     /\ saved[t].key <= issued[t] /\ DraftGiven(saved[t])
        BY <1>3, <4>1 DEF TaskInv, KeyGiven
      <4>4. status[t] = "running" => saved[t].key <= issued'[t] BY <3>3, <4>1, <4>3
      <4> QED BY <4>2, <4>3, <4>4 DEF KeyGiven
    <3>7. KeyGiven(t, info[t])'
      BY <3>2, <3>3, <3>4, HubAssumption DEF KeyGiven, KeyNo
    <3> QED BY <1>4, <2>1, <3>1, <3>3, <3>5, <3>6, <3>7 DEF TaskInv, WithDraft, WithKey
  <2> QED BY <2>2, <2>3
<1>9. CASE Choose(t)
  <2>1. /\ pc[t] = "choose" /\ Goto(t, "submit")
        /\ UNCHANGED <<task, tries, issued, saved, status>>
    BY <1>9 DEF Choose
  <2>2. info'[t].key = info[t].key /\ info'[t].draft \in Tasks
    BY <1>3, <1>9, Chosen
  <2>3. KeyGiven(t, info[t])' BY <1>3, <2>1, <2>2 DEF TaskInv, KeyGiven, WithKey
  <2>4. status'[t] = "running" => KeyGiven(t, saved[t])' /\ DraftGiven(saved'[t])
    BY <1>3, <2>1 DEF TaskInv, KeyGiven
  <2>5. "submit" \in PC \ {"idle"} BY DEF PC
  <2> QED BY <1>1, <1>2, <2>1, <2>2, <2>3, <2>4, <2>5, GoesOn DEF DraftGiven
<1>10. CASE Submit(t) \/ SubmitReturns(t) \/ PollEnds(t) \/ Deadline(t)
            \/ Approve(t) \/ OpenPR(t) \/ Revoke(t)
  <2>1. /\ pc[t] \in WithDraft
        /\ UNCHANGED <<task, tries, issued, saved, status, info>>
    BY <1>10 DEF Submit, SubmitReturns, PollEnds, Deadline, Approve, OpenPR, Revoke,
                 WithDraft, WithKey
  <2>2. PICK l \in WithDraft : Goto(t, l)
    BY <1>10 DEF Submit, SubmitReturns, PollEnds, Deadline, Approve, OpenPR, Revoke,
                 WithDraft, WithKey
  <2>3. l \in PC \ {"idle"} /\ l \notin {"begin", "prepare"} /\ pc[t] # "idle"
    BY <2>1 DEF WithDraft, WithKey, PC
  <2>4. KeyGiven(t, info[t])' /\ DraftGiven(info'[t])
    BY <1>3, <2>1 DEF TaskInv, KeyGiven, WithDraft
  <2>5. status'[t] = "running" => KeyGiven(t, saved[t])' /\ DraftGiven(saved'[t])
    BY <1>3, <2>1 DEF TaskInv, KeyGiven
  <2> QED BY <1>1, <1>2, <2>1, <2>2, <2>3, <2>4, <2>5, GoesOn
<1>11. CASE Save(t)
  <2>1. /\ pc[t] = "save" /\ Goto(t, "poll")
        /\ UNCHANGED <<task, tries, issued, info>>
    BY <1>11 DEF Save
  <2>2. KeyGiven(t, info[t])' /\ DraftGiven(info'[t]) /\ KeyGiven(t, info[t]) /\ DraftGiven(info[t])
    BY <1>3, <2>1 DEF TaskInv, KeyGiven, WithDraft, WithKey
  <2>3. status'[t] = "running" => KeyGiven(t, saved[t])' /\ DraftGiven(saved'[t])
    <3>1. CASE UNCHANGED handleVars BY <1>3, <2>1, <3>1 DEF TaskInv, KeyGiven
    <3>2. CASE saved' = [saved EXCEPT ![t] = info[t]]
      <4>1. saved'[t] = info[t] BY <1>3, <3>2 DEF HubTypes
      <4> QED BY <2>1, <2>2, <4>1 DEF KeyGiven
    <3> QED BY <1>11, <3>1, <3>2 DEF Save
  <2>4. "poll" \in PC \ {"idle"} BY DEF PC
  <2> QED BY <1>1, <1>2, <2>1, <2>2, <2>3, <2>4, GoesOn
<1>12. CASE PollError(t) \/ RevokeFailed(t)
  <2>1. pc[t] # "idle" /\ AttemptFails(t) /\ UNCHANGED <<status, saved, issued>>
    BY <1>12 DEF PollError, RevokeFailed
  <2> QED BY <1>1, <1>2, <1>4, <2>1, Retries
<1>13. CASE Mark(t)
  <2>1. pc[t] = "mark" /\ MarkTerminal(t, verdict[t]) /\ UNCHANGED <<saved, issued>>
    BY <1>13 DEF Mark
  <2>2. status'[t] = "running" => status[t] = "running"
    BY <1>3, <2>1, Marked DEF HubTypes
  <2>5. status'[t] = "running" => KeyGiven(t, saved[t])' /\ DraftGiven(saved'[t])
    BY <1>3, <2>1, <2>2 DEF TaskInv, KeyGiven
  <2>3. CASE AttemptFails(t) BY <1>1, <1>2, <1>4, <2>1, <2>2, <2>3, Retries
  <2>4. CASE Goto(t, "session") /\ UNCHANGED <<task, tries, localVars>>
    <3>1. KeyGiven(t, info[t])' /\ DraftGiven(info'[t])
      BY <1>3, <2>1, <2>4 DEF TaskInv, KeyGiven, WithDraft, WithKey
    <3>2. "session" \in PC \ {"idle"} BY DEF PC
    <3> QED BY <1>1, <1>2, <2>1, <2>4, <2>5, <3>1, <3>2, GoesOn
  <2> QED BY <1>13, <2>3, <2>4 DEF Mark
<1>14. CASE SaveSession(t)
  <2>1. /\ task'[t] = "done" /\ pc'[t] = "idle" /\ pc[t] = "session"
        /\ UNCHANGED <<status, saved, issued>>
    BY <1>3, <1>14 DEF SaveSession, HubTypes, Goto
  <2>2. issued'[t] <= Allowance(t)' BY <1>2, <2>1, Issues DEF Allowance
  <2> QED BY <1>3, <2>1, <2>2 DEF TaskInv, KeyGiven, WithKey, WithDraft
<1>15. CASE MarkFailed(t)
  <2>1. /\ pc[t] = "markFailed" /\ MarkTerminal(t, "failed") /\ Goto(t, "revokeFailed")
        /\ UNCHANGED <<task, tries, info, saved, issued>>
    BY <1>15 DEF MarkFailed, taskVars
  <2>2. status'[t] = "running" => KeyGiven(t, saved[t])' /\ DraftGiven(saved'[t])
    BY <1>3, <2>1, Marked DEF TaskInv, KeyGiven
  <2>3. KeyGiven(t, info[t])' /\ DraftGiven(info'[t])
    BY <1>3, <2>1 DEF TaskInv, KeyGiven, WithDraft, WithKey
  <2>4. "revokeFailed" \in PC \ {"idle"} BY DEF PC
  <2> QED BY <1>1, <1>2, <2>1, <2>2, <2>3, <2>4, GoesOn
<1> QED
  BY <1>5, <1>6, <1>7, <1>8, <1>9, <1>10, <1>11, <1>12, <1>13, <1>14, <1>15 DEF Execution

LEMMA MovingKeys ==
  ASSUME HubInv, NEW t \in Tasks, Arrive(t) \/ Start(t) \/ Execution(t)
  PROVE  KeysIssued'
<1> USE DEF keyVars
<1>1. /\ KeysIssued /\ issued \in [Tasks -> Nat]
      /\ \A k \in keys \cup doomed : k[1] \in Tasks /\ k[2] \in Nat
  BY HubAssumption DEF HubInv, HubTypes, Keys, KeyNo
<1>2. CASE Prepare(t)
  <2>1. issued' \in [Tasks -> Nat] /\ \A u \in Tasks : issued[u] <= issued'[u]
    BY <1>1, <1>2 DEF Prepare
  <2>2. \A k \in keys' \cup doomed' : k \in keys \cup doomed \/ k = <<t, issued'[t]>>
    <3>1. CASE UNCHANGED <<issued, keys>> BY <1>2, <3>1 DEF Prepare
    <3>2. CASE /\ issued' = [issued EXCEPT ![t] = @ + 1]
               /\ keys' = keys \cup {<<t, issued[t] + 1>>}
      BY <1>1, <1>2, <3>2 DEF Prepare
    <3> QED BY <1>2, <3>1, <3>2 DEF Prepare
  <2>3. ASSUME NEW k \in keys' \cup doomed' PROVE k[2] <= issued'[k[1]]
    <3>1. CASE k = <<t, issued'[t]>> BY <2>1, <3>1
    <3>2. CASE k \in keys \cup doomed
      <4>1. /\ k[1] \in Tasks /\ k[2] \in Nat /\ k[2] <= issued[k[1]]
            /\ issued[k[1]] \in Nat /\ issued'[k[1]] \in Nat /\ issued[k[1]] <= issued'[k[1]]
        BY <1>1, <2>1, <3>2 DEF KeysIssued
      <4> QED BY <4>1
    <3> QED BY <2>2, <3>1, <3>2
  <2> QED BY <2>3 DEF KeysIssued
<1>3. CASE ~Prepare(t)
  <2>1. UNCHANGED <<issued, doomed>> /\ keys' \subseteq keys
    <3> USE DEF keyVars
    <3>1. CASE Arrive(t) \/ Start(t) \/ Begin(t) \/ Choose(t) \/ Submit(t) \/ SubmitReturns(t)
      BY <3>1 DEF Arrive, Start, Begin, Choose, Submit, SubmitReturns
    <3>2. CASE Save(t) \/ PollEnds(t) \/ PollError(t) \/ Deadline(t) \/ Approve(t)
      BY <3>2 DEF Save, PollEnds, PollError, Deadline, Approve
    <3>3. CASE OpenPR(t) \/ Mark(t) \/ SaveSession(t) \/ MarkFailed(t)
      BY <3>3 DEF OpenPR, Mark, SaveSession, MarkFailed
    <3>4. CASE Revoke(t) \/ RevokeFailed(t)
      BY <3>4 DEF Revoke, RevokeFailed, Cleanup, RevokeKeys
    <3> QED BY <1>3, <3>1, <3>2, <3>3, <3>4 DEF Execution
  <2> QED BY <1>1, <2>1 DEF KeysIssued
<1> QED BY <1>2, <1>3

\* The steps of nobody's execution.
LEMMA EnvironmentKeeps ==
  ASSUME HubInv, (\E k \in Keys : Push(k) \/ HubEnds(k)) \/ People \/ SweepList \/ SweepRevoke
  PROVE  /\ UNCHANGED <<task, onPR, pc, tries, info, verdict, approved, status, saved,
                        issued, lastHead, missed, crashes>>
         /\ keys' \subseteq keys /\ doomed' \subseteq doomed \cup keys
         /\ faults \in Nat /\ faults' \in Nat /\ faults <= faults'
         /\ moves \in Nat /\ moves' \in Nat /\ moves <= moves'
<1> USE DEF taskVars, localVars, handleVars, keyVars, repoVars, bounds
<1> faults \in Nat /\ moves \in Nat BY HubAssumption DEF HubInv, HubTypes
<1>1. CASE \E k \in Keys : Push(k) \/ HubEnds(k)
  <2>1. PICK k \in Keys : Push(k) \/ HubEnds(k) BY <1>1
  <2>2. /\ UNCHANGED <<task, onPR, pc, tries, info, verdict, approved, status, saved,
                       issued, keys, doomed, lastHead, missed, crashes, moves, faults>>
    BY <2>1 DEF Push, HubEnds
  <2> QED BY <2>2
<1>2. CASE People BY <1>2 DEF People, HubInv, HubTypes
<1>3. CASE SweepList BY <1>3 DEF SweepList, HubInv, HubTypes
<1>4. CASE SweepRevoke
  BY <1>4 DEF SweepRevoke, RevokeKeys, NoFault, Fault, HubInv, HubTypes
<1> QED BY <1>1, <1>2, <1>3, <1>4

LEMMA RestartInv == ASSUME HubInv, Restart PROVE HubInv'
<1>1. HubTypes' BY RestartTypes
<1>2. ASSUME NEW t \in Tasks PROVE TaskInv(t)'
  <2>1. /\ TaskInv(t) /\ crashes \in Nat /\ crashes' = crashes + 1
        /\ UNCHANGED <<saved, issued>> /\ pc'[t] = "idle"
        /\ task'[t] = TaskAfterRestart(t) /\ status'[t] = HandleAfterRestart(t)
    BY DEF HubInv, HubTypes, Restart, keyVars
  <2>2. task'[t] # "running" /\ (task'[t] = task[t] \/ task[t] = "running")
    BY <2>1 DEF TaskAfterRestart
  <2>3. status'[t] = "running" => status[t] = "running"
    BY <2>1 DEF HandleAfterRestart, Finished
  <2>4. issued[t] <= Allowance(t)'
    <3>1. /\ Quota(crashes) \in Nat /\ Quota(crashes + 1) \in Nat /\ Quota(crashes + 1 + 1) \in Nat
          /\ Quota(crashes) <= Quota(crashes + 1) /\ Quota(crashes + 1) <= Quota(crashes + 1 + 1)
      BY <2>1, QuotaNat, QuotaMonotone
    <3>2. Allowance(t)' \in {Quota(crashes + 1), Quota(crashes + 1 + 1)}
      BY <2>1, <2>2, <1>1 DEF Allowance
    <3> QED BY <3>1, <3>2, Issues
  <2> QED BY <2>1, <2>2, <2>3, <2>4 DEF TaskInv, KeyGiven, WithKey, WithDraft
<1>3. KeysIssued' BY DEF HubInv, KeysIssued, Restart, keyVars
<1> QED BY <1>1, <1>2, <1>3 DEF HubInv

LEMMA HubInvInit == HubInit => HubInv
<1> SUFFICES ASSUME HubInit PROVE HubInv OBVIOUS
<1>1. HubTypes BY HubInitTypes
<1>2. ASSUME NEW t \in Tasks PROVE TaskInv(t)
  <2>1. task[t] = "absent" /\ pc[t] = "idle" /\ status[t] = "none" /\ issued[t] = 0
    BY DEF HubInit
  <2>2. Allowance(t) \in Nat
    <3>1. Allowance(t) = Quota(0) BY <2>1 DEF Allowance, HubInit
    <3> QED BY <3>1, QuotaNat
  <2> QED BY <2>1, <2>2 DEF TaskInv, WithKey, WithDraft
<1> QED BY <1>1, <1>2 DEF HubInv, KeysIssued, HubInit

LEMMA HubInvNext == HubInv /\ [HubNext]_hubVars => HubInv'
<1> SUFFICES ASSUME HubInv, [HubNext]_hubVars PROVE HubInv' OBVIOUS
<1>1. ASSUME NEW t \in Tasks, Arrive(t) \/ Start(t) \/ Execution(t) PROVE HubInv'
  <2>1. ASSUME NEW u \in Tasks PROVE TaskInv(u)'
    <3>1. CASE u = t BY <1>1, <3>1, MovingTask
    <3>2. CASE u # t
      <4>1. crashes' = crashes BY <1>1, Bounds DEF HubInv
      <4> QED BY <1>1, <3>2, <4>1, Others, SameTask DEF HubInv
    <3> QED BY <3>1, <3>2
  <2> QED BY <1>1, <2>1, StepTypes, MovingKeys DEF HubInv
<1>2. CASE (\E k \in Keys : Push(k) \/ HubEnds(k)) \/ People \/ SweepList \/ SweepRevoke
  <2>1. HubTypes' BY <1>2, HubTypesPush, PeopleTypes, SweepTypes
  <2>2. \A u \in Tasks : TaskInv(u)'
    BY <1>2, EnvironmentKeeps DEF HubInv, TaskInv, Allowance, KeyGiven
  <2>3. KeysIssued' BY <1>2, EnvironmentKeeps DEF HubInv, KeysIssued
  <2> QED BY <2>1, <2>2, <2>3 DEF HubInv
<1>3. CASE Restart BY <1>3, RestartInv
<1>4. CASE UNCHANGED hubVars
  <2> USE DEF hubVars, taskVars, localVars, handleVars, keyVars, repoVars, bounds
  <2>1. HubTypes' BY <1>4 DEF HubInv, HubTypes
  <2>2. \A u \in Tasks : TaskInv(u)' BY <1>4 DEF HubInv, TaskInv, Allowance, KeyGiven
  <2>3. KeysIssued' BY <1>4 DEF HubInv, KeysIssued
  <2> QED BY <2>1, <2>2, <2>3 DEF HubInv
<1> QED BY <1>1, <1>2, <1>3, <1>4 DEF HubNext

LEMMA HubAlways == HubSpec => []HubInv
BY HubInvInit, HubInvNext, PTL DEF HubSpec

(* The hub runs stay in their types, the keys a task is issued in the      *)
(* bound its retries and the restarts of Matea set: an attempt issues one  *)
(* key, and a task is executed once more only by a restart.                *)
THEOREM HubTypeCorrect == HubSpec => []HubTypeOK
<1>1. HubInv => HubTypeOK
  <2> SUFFICES ASSUME HubInv PROVE HubTypeOK OBVIOUS
  <2>1. issued \in [Tasks -> {0} \cup KeyNo]
    <3> SUFFICES ASSUME NEW t \in Tasks PROVE issued[t] \in {0} \cup KeyNo
      BY DEF HubInv, HubTypes
    <3>1. issued[t] \in Nat /\ issued[t] <= Quota(crashes + 1) BY Issues
    <3>2. crashes \in Nat /\ crashes + 1 <= MaxEvents + 1
      BY HubAssumption DEF HubInv, HubTypes
    <3>3. /\ Quota(crashes + 1) <= Quota(MaxEvents + 1)
          /\ Quota(crashes + 1) \in Nat /\ Quota(MaxEvents + 1) \in Nat
      BY <3>2, QuotaMonotone, QuotaNat, HubAssumption
    <3> QED BY <3>1, <3>3, KeyNoIsQuota
  <2> QED BY <2>1 DEF HubInv, HubTypes, HubTypeOK, Runs
<1> QED BY <1>1, HubAlways, PTL

-----------------------------------------------------------------------------
(***************************************************************************)
(* SweepSparesRun, where Submit answers at once: a key is on its way to a  *)
(* row for no longer than the grace, and a row that is running protects    *)
(* the key it names.                                                       *)
(***************************************************************************)

LEMMA DoomedStays ==
  ASSUME NEW t \in Tasks, Arrive(t) \/ Start(t) \/ Execution(t) PROVE doomed' = doomed
<1>1. CASE Arrive(t) \/ Start(t) \/ Begin(t) \/ Prepare(t) \/ Choose(t) \/ Submit(t)
  BY <1>1 DEF Arrive, Start, Begin, Prepare, Choose, Submit
<1>2. CASE SubmitReturns(t) \/ Save(t) \/ PollEnds(t) \/ PollError(t) \/ Deadline(t)
  BY <1>2 DEF SubmitReturns, Save, PollEnds, PollError, Deadline
<1>3. CASE Approve(t) \/ OpenPR(t) \/ Mark(t) \/ SaveSession(t) \/ MarkFailed(t)
            \/ Revoke(t) \/ RevokeFailed(t)
  BY <1>3 DEF Approve, OpenPR, Mark, SaveSession, MarkFailed, Revoke, RevokeFailed
<1> QED BY <1>1, <1>2, <1>3 DEF Execution

Spared(t) ==
  /\ pc[t] = "poll" => status[t] = "running"
  /\ status[t] = "running" => <<t, saved[t].key>> \notin doomed
  /\ Underway(t) => KeyOf(t) \notin doomed

LEMMA SparedStep ==
  ASSUME Async, HubInv, SweepInv, faults = 0, faults' = 0,
         NEW t \in Tasks, Arrive(t) \/ Start(t) \/ Execution(t)
  PROVE  Spared(t)'
<1> USE DEF HubTypes, taskVars, localVars, handleVars, keyVars, Goto
<1>1. HubTypes /\ doomed' = doomed BY DoomedStays DEF HubInv
<1>2. Spared(t) BY DEF SweepInv, Spared
<1>3. CASE Arrive(t) \/ Start(t) \/ PollEnds(t) \/ Deadline(t) \/ Approve(t)
            \/ OpenPR(t) \/ Revoke(t)
  <2>1. UNCHANGED <<status, saved, info>> /\ ~Underway(t)'
    BY <1>1, <1>2, <1>3
    DEF Arrive, Start, PollEnds, Deadline, Approve, OpenPR, Revoke, Underway, HubInv, TaskInv
  <2> QED BY <1>1, <1>2, <2>1 DEF Spared, Underway
<1>4. CASE Begin(t)
  <2>1. CASE status[t] = "running"
    <3>1. pc'[t] = "poll" /\ info'[t] = saved[t] /\ status'[t] = "running" /\ saved' = saved
      BY <1>1, <1>4, <2>1 DEF Begin, Fault
    <3> QED BY <1>1, <1>2, <2>1, <3>1 DEF Spared, KeyOf
  <2>2. CASE status[t] # "running"
    <3>1. pc'[t] = "prepare" /\ status' = status BY <1>1, <1>4, <2>2 DEF Begin
    <3> QED BY <2>2, <3>1 DEF Spared, Underway
  <2> QED BY <2>1, <2>2
<1>5. CASE Prepare(t)
  <2>1. ~Fault BY <1>1 DEF Fault
  <2>2. /\ info' = [info EXCEPT ![t] =
                      [NoContract EXCEPT !.base = base, !.key = issued[t] + 1]]
        /\ Goto(t, "choose") /\ UNCHANGED <<status, saved>>
    BY <1>5, <2>1 DEF Prepare
  <2>3. pc'[t] = "choose" /\ info'[t].key = issued[t] + 1
    BY <1>1, <2>2 DEF NoContract
  <2>4. <<t, issued[t] + 1>> \notin doomed
    <3> SUFFICES ASSUME <<t, issued[t] + 1>> \in doomed PROVE FALSE OBVIOUS
    <3>1. issued[t] + 1 <= issued[t] BY DEF HubInv, KeysIssued
    <3> QED BY <1>1, <3>1
  <2> QED BY <1>1, <1>2, <2>2, <2>3, <2>4 DEF Spared, KeyOf
<1>6. CASE Choose(t)
  <2>1. /\ pc[t] = "choose" /\ pc'[t] = "submit" /\ UNCHANGED <<status, saved>>
    BY <1>1, <1>6 DEF Choose
  <2>2. info'[t].key = info[t].key BY <1>1, <1>6, Chosen
  <2> QED BY <1>1, <1>2, <2>1, <2>2 DEF Spared, KeyOf, Underway
<1>7. CASE Submit(t)
  <2>1. /\ pc[t] = "submit" /\ pc'[t] \in {"save", "revokeFailed"}
        /\ UNCHANGED <<status, saved, info>>
    BY <1>1, <1>7 DEF Submit
  <2> QED BY <1>1, <1>2, <2>1 DEF Spared, KeyOf, Underway
<1>8. CASE SubmitReturns(t) BY <1>8 DEF SubmitReturns, SweepInv
<1>9. CASE Save(t)
  <2>1. ~Fault BY <1>1 DEF Fault
  <2>2. /\ pc[t] = "save" /\ pc'[t] = "poll" /\ info' = info
        /\ status'[t] = "running" /\ saved'[t] = info[t]
    BY <1>1, <1>9, <2>1 DEF Save
  <2> QED BY <1>1, <1>2, <2>2 DEF Spared, KeyOf, Underway
<1>10. CASE PollError(t) \/ RevokeFailed(t)
  <2>1. pc'[t] \in {"begin", "idle"} /\ UNCHANGED <<status, saved>>
    BY <1>1, <1>10 DEF PollError, RevokeFailed, AttemptFails
  <2> QED BY <1>1, <1>2, <2>1 DEF Spared, Underway
<1>11. CASE Mark(t)
  <2>1. MarkTerminal(t, verdict[t]) /\ pc'[t] \in {"session", "begin", "idle"}
    BY <1>1, <1>11 DEF Mark, AttemptFails
  <2>2. status'[t] # "running" BY <1>1, <2>1 DEF MarkTerminal, Fault
  <2> QED BY <2>1, <2>2 DEF Spared, Underway
<1>12. CASE MarkFailed(t)
  <2>1. MarkTerminal(t, "failed") /\ pc'[t] = "revokeFailed" BY <1>1, <1>12 DEF MarkFailed
  <2>2. status'[t] # "running" BY <1>1, <2>1 DEF MarkTerminal, Fault
  <2> QED BY <2>1, <2>2 DEF Spared, Underway
<1>13. CASE SaveSession(t)
  <2>1. pc'[t] = "idle" /\ UNCHANGED <<status, saved>> BY <1>1, <1>13 DEF SaveSession
  <2> QED BY <1>1, <1>2, <2>1 DEF Spared, Underway
<1> QED
  BY <1>3, <1>4, <1>5, <1>6, <1>7, <1>8, <1>9, <1>10, <1>11, <1>12, <1>13 DEF Execution

\* No step waits for the run inside Submit when Submit answers at once.
LEMMA NeverSubmitting ==
  ASSUME Async, HubInv, NEW t \in Tasks, pc[t] # "submitting",
         Arrive(t) \/ Start(t) \/ Execution(t)
  PROVE  pc'[t] # "submitting"
<1> USE DEF Goto, HubTypes, HubInv
<1>1. CASE Arrive(t) \/ Start(t) \/ Begin(t) \/ Choose(t) \/ Submit(t) \/ SubmitReturns(t)
  BY <1>1 DEF Arrive, Start, Begin, Choose, Submit, SubmitReturns
<1>2. CASE Save(t) \/ PollEnds(t) \/ Deadline(t) \/ Approve(t) \/ OpenPR(t) \/ Revoke(t)
            \/ SaveSession(t) \/ MarkFailed(t)
  BY <1>2 DEF Save, PollEnds, Deadline, Approve, OpenPR, Revoke, SaveSession, MarkFailed
<1>3. CASE Prepare(t) \/ PollError(t) \/ Mark(t) \/ RevokeFailed(t)
  BY <1>3 DEF Prepare, PollError, Mark, RevokeFailed, AttemptFails
<1> QED BY <1>1, <1>2, <1>3 DEF Execution

LEMMA SweepNext ==
  ASSUME Async, HubInv, SweepInv, [HubNext]_hubVars PROVE SweepInv'
<1> USE DEF SweepInv
<1>1. ASSUME NEW t \in Tasks, Arrive(t) \/ Start(t) \/ Execution(t) PROVE SweepInv'
  <2>1. \A u \in Tasks : pc'[u] # "submitting"
    BY <1>1, NeverSubmitting, Others DEF HubInv
  <2>2. ASSUME faults' = 0, NEW u \in Tasks PROVE Spared(u)'
    <3>1. faults = 0 BY <1>1, <2>2, Bounds, HubAssumption DEF HubInv, HubTypes
    <3>2. CASE u = t BY <1>1, <2>2, <3>1, <3>2, SparedStep
    <3>3. CASE u # t
      <4>1. Spared(u) BY <3>1 DEF Spared
      <4> QED BY <1>1, <3>3, <4>1, Others, DoomedStays DEF HubInv, Spared, Underway, KeyOf
    <3> QED BY <3>2, <3>3
  <2> QED BY <2>1, <2>2 DEF Spared
<1>2. CASE SweepList
  <2>1. /\ UNCHANGED <<pc, status, saved, info, faults>>
        /\ doomed' \subseteq {k \in keys : PastGrace(k) /\ ~Protected(k[1])}
    BY <1>2 DEF SweepList, taskVars, localVars, handleVars
  <2>2. ASSUME NEW u \in Tasks, NEW n, status[u] = "running" PROVE <<u, n>> \notin doomed'
    BY <2>1, <2>2 DEF Protected
  <2>3. ASSUME faults = 0, NEW u \in Tasks, Underway(u) PROVE KeyOf(u) \notin doomed'
    <3>1. CASE pc[u] = "poll" BY <2>2, <2>3, <3>1 DEF KeyOf
    <3>2. CASE pc[u] \in {"choose", "submit", "save"}
      BY <2>1, <3>2 DEF PastGrace, KeyOf
    <3> QED BY <2>3, <3>1, <3>2 DEF Underway
  <2> QED BY <2>1, <2>2, <2>3 DEF Underway, KeyOf
<1>3. CASE (\E k \in Keys : Push(k) \/ HubEnds(k)) \/ People \/ SweepRevoke
  <2>1. /\ UNCHANGED <<pc, status, saved, info>> /\ doomed' \subseteq doomed
        /\ faults' = 0 => faults = 0
    <3>1. doomed' \subseteq doomed
      BY <1>3 DEF Push, HubEnds, People, SweepRevoke
    <3> QED BY <1>3, <3>1, EnvironmentKeeps
  <2> QED BY <2>1 DEF Underway, KeyOf
<1>4. CASE Restart
  BY <1>4 DEF Restart, HubInv, HubTypes, Underway, HandleAfterRestart
<1>5. CASE UNCHANGED hubVars
  BY <1>5 DEF hubVars, taskVars, localVars, handleVars, keyVars, repoVars, bounds,
              Underway, KeyOf
<1> QED BY <1>1, <1>2, <1>3, <1>4, <1>5 DEF HubNext

(* While no call fails, the sweep of orphaned keys never decides on the    *)
(* key of a run that is underway, restarts and re-attachments included,    *)
(* of a hub that answers Submit at once.                                   *)
THEOREM SweepSpares == ASSUME Async PROVE HubSpec => []SweepSparesRun
<1>1. HubInit => SweepInv BY DEF HubInit, SweepInv, Underway
<1>2. SweepInv => SweepSparesRun BY DEF SweepInv, SweepSparesRun
<1>3. HubInv /\ SweepInv /\ [HubNext]_hubVars => SweepInv' BY SweepNext
<1> QED BY HubAlways, <1>1, <1>2, <1>3, PTL DEF HubSpec

-----------------------------------------------------------------------------
(***************************************************************************)
(* OneWriter, where one task runs at a time: the keys on the repository    *)
(* are those of the attempt underway, or the one a row keeps for the next  *)
(* attempt.                                                                *)
(***************************************************************************)

\* A step of an execution needs it to be executing, all but the start.
LEMMA Executes ==
  ASSUME NEW t \in Tasks, Execution(t) PROVE pc[t] # "idle"
<1>1. CASE Begin(t) \/ Prepare(t) \/ Choose(t) \/ Submit(t) \/ SubmitReturns(t) \/ Save(t)
  BY <1>1 DEF Begin, Prepare, Choose, Submit, SubmitReturns, Save
<1>2. CASE PollEnds(t) \/ PollError(t) \/ Deadline(t) \/ Approve(t) \/ OpenPR(t)
  BY <1>2 DEF PollEnds, PollError, Deadline, Approve, OpenPR
<1>3. CASE Revoke(t) \/ Mark(t) \/ SaveSession(t) \/ MarkFailed(t) \/ RevokeFailed(t)
  BY <1>3 DEF Revoke, Mark, SaveSession, MarkFailed, RevokeFailed
<1> QED BY <1>1, <1>2, <1>3 DEF Execution

LEMMA StaysAlone ==
  ASSUME Serial, HubInv, Alone, [HubNext]_hubVars PROVE Alone'
<1> USE DEF Alone
<1>1. ASSUME NEW t \in Tasks, Arrive(t) \/ Start(t) \/ Execution(t) PROVE Alone'
  <2>1. \A u \in Tasks : u # t => pc'[u] = pc[u] BY <1>1, Others DEF HubInv
  <2>2. CASE Arrive(t) BY <2>2 DEF Arrive
  <2>3. CASE Start(t)
    <3>1. \A u \in Tasks : pc[u] = "idle" BY <2>3 DEF Start
    <3> QED BY <2>1, <3>1
  <2>4. CASE Execution(t)
    <3>1. pc[t] # "idle" BY <2>4, Executes
    <3> QED BY <2>1, <3>1
  <2> QED BY <1>1, <2>2, <2>3, <2>4
<1>2. CASE (\E k \in Keys : Push(k) \/ HubEnds(k)) \/ People \/ SweepList \/ SweepRevoke
  BY <1>2, EnvironmentKeeps
<1>3. CASE Restart BY <1>3 DEF Restart
<1>4. CASE UNCHANGED hubVars BY <1>4 DEF hubVars, taskVars
<1> QED BY <1>1, <1>2, <1>3, <1>4 DEF HubNext

\* The keys of the task that moves.
Held(t) ==
  /\ \A k \in keys : k[1] = t => KeyInUse(k)
  /\ pc[t] = "poll" => status[t] = "running" /\ saved[t].key = info[t].key

LEMMA HeldStep ==
  ASSUME HubInv, faults = 0, faults' = 0, NEW t \in Tasks, Held(t),
         Arrive(t) \/ Start(t) \/ Execution(t)
  PROVE  Held(t)'
<1> USE DEF HubTypes, taskVars, localVars, handleVars, keyVars, Goto
<1>1. HubTypes /\ ~Fault BY DEF HubInv, Fault
<1>2. \A k \in keys : k \in Keys BY <1>1
<1>3. CASE Arrive(t) \/ Start(t)
  <2>1. keys' = keys /\ pc[t] = "idle" /\ pc'[t] # "poll"
    BY <1>1, <1>3 DEF Arrive, Start, HubInv, TaskInv
  <2> QED BY <2>1 DEF Held, KeyInUse
<1>4. CASE Begin(t)
  <2>1. keys' = keys /\ status' = status /\ saved' = saved /\ pc[t] = "begin"
    BY <1>4 DEF Begin
  <2>2. CASE status[t] = "running"
    <3>1. pc'[t] = "poll" /\ info'[t] = saved[t] BY <1>1, <1>4, <2>2 DEF Begin
    <3> QED BY <2>1, <2>2, <3>1 DEF Held, KeyInUse
  <2>3. CASE status[t] # "running"
    <3>1. pc'[t] = "prepare" BY <1>1, <1>4, <2>3 DEF Begin
    <3> QED BY <2>1, <2>3, <3>1 DEF Held, KeyInUse
  <2> QED BY <2>2, <2>3
<1>5. CASE Prepare(t)
  <2>1. /\ info' = [info EXCEPT ![t] =
                      [NoContract EXCEPT !.base = base, !.key = issued[t] + 1]]
        /\ Goto(t, "choose") /\ pc[t] = "prepare"
        /\ keys' = keys \cup {<<t, issued[t] + 1>>}
    BY <1>1, <1>5 DEF Prepare
  <2>2. pc'[t] = "choose" /\ info'[t].key = issued[t] + 1
    BY <1>1, <2>1 DEF NoContract
  <2>3. \A k \in keys : k[1] # t BY <2>1 DEF Held, KeyInUse
  <2> QED BY <2>1, <2>2, <2>3 DEF Held, KeyInUse
<1>6. CASE Choose(t)
  <2>1. pc[t] = "choose" /\ pc'[t] = "submit" /\ keys' = keys BY <1>1, <1>6 DEF Choose
  <2>2. info'[t].key = info[t].key BY <1>1, <1>6, Chosen
  <2> QED BY <2>1, <2>2 DEF Held, KeyInUse
<1>7. CASE Submit(t) \/ SubmitReturns(t) \/ PollEnds(t) \/ Deadline(t) \/ Approve(t) \/ OpenPR(t)
  <2>1. /\ pc[t] \in WithDraft /\ pc[t] \notin {"mark", "session"}
        /\ pc'[t] \in WithDraft \ {"poll", "mark", "session"}
        /\ UNCHANGED <<keys, info>>
    BY <1>1, <1>7 DEF Submit, SubmitReturns, PollEnds, Deadline, Approve, OpenPR, WithDraft, WithKey
  <2> QED BY <2>1 DEF Held, KeyInUse, WithDraft, WithKey
<1>8. CASE Save(t)
  <2>1. /\ pc[t] = "save" /\ pc'[t] = "poll" /\ UNCHANGED <<keys, info>>
        /\ status'[t] = "running" /\ saved'[t] = info[t]
    BY <1>1, <1>8 DEF Save
  <2> QED BY <2>1 DEF Held, KeyInUse
<1>9. CASE PollError(t)
  <2>1. /\ pc[t] = "poll" /\ pc'[t] = "begin" /\ UNCHANGED <<keys, status, saved>>
    BY <1>1, <1>9 DEF PollError, AttemptFails
  <2> QED BY <2>1 DEF Held, KeyInUse
<1>10. CASE Revoke(t) \/ RevokeFailed(t)
  <2>1. /\ pc[t] \in {"revoke", "revokeFailed"} /\ keys' = keys \ {KeyOf(t)}
        /\ pc'[t] # "poll"
    BY <1>1, <1>10 DEF Revoke, RevokeFailed, Cleanup, RevokeKeys, AttemptFails
  <2>2. \A k \in keys : k[1] = t => k = KeyOf(t)
    <3> SUFFICES ASSUME NEW k \in keys, k[1] = t PROVE k = KeyOf(t) OBVIOUS
    <3>1. k[2] = info[t].key BY <2>1 DEF Held, KeyInUse
    <3>2. k = <<k[1], k[2]>> BY <1>2 DEF Keys
    <3> QED BY <3>1, <3>2 DEF KeyOf
  <2> QED BY <2>1, <2>2 DEF Held
<1>11. CASE Mark(t) \/ SaveSession(t)
  <2>1. pc[t] \in {"mark", "session"} /\ keys' = keys /\ pc'[t] # "poll"
    BY <1>1, <1>11 DEF Mark, SaveSession, AttemptFails
  <2> QED BY <2>1 DEF Held, KeyInUse
<1>12. CASE MarkFailed(t)
  <2>1. /\ pc[t] = "markFailed" /\ pc'[t] = "revokeFailed" /\ UNCHANGED <<keys, info>>
    BY <1>1, <1>12 DEF MarkFailed
  <2> QED BY <2>1 DEF Held, KeyInUse
<1> QED
  BY <1>3, <1>4, <1>5, <1>6, <1>7, <1>8, <1>9, <1>10, <1>11, <1>12 DEF Execution

\* Keys of others are issued and revoked by others.
LEMMA KeysOfOthers ==
  ASSUME HubInv, NEW t \in Tasks, Arrive(t) \/ Start(t) \/ Execution(t)
  PROVE  \A k \in keys' : k[1] # t => k \in keys
<1>1. CASE Prepare(t) BY <1>1 DEF Prepare
<1>2. CASE Revoke(t) \/ RevokeFailed(t)
  BY <1>2 DEF Revoke, RevokeFailed, Cleanup, RevokeKeys
<1>3. CASE Arrive(t) \/ Start(t) \/ Begin(t) \/ Choose(t) \/ Submit(t) \/ SubmitReturns(t)
  BY <1>3 DEF Arrive, Start, Begin, Choose, Submit, SubmitReturns, keyVars
<1>4. CASE Save(t) \/ PollEnds(t) \/ PollError(t) \/ Deadline(t) \/ Approve(t)
            \/ OpenPR(t) \/ Mark(t) \/ SaveSession(t) \/ MarkFailed(t)
  BY <1>4 DEF Save, PollEnds, PollError, Deadline, Approve, OpenPR, Mark, SaveSession,
              MarkFailed, keyVars
<1> QED BY <1>1, <1>2, <1>3, <1>4 DEF Execution

LEMMA WriterNext ==
  ASSUME Serial, HubInv, WriterInv, [HubNext]_hubVars PROVE WriterInv'
<1>1. Alone' BY StaysAlone DEF WriterInv
<1>2. ASSUME crashes' = 0, faults' = 0
      PROVE  /\ \A k \in keys' : KeyInUse(k)'
             /\ \A t \in Tasks : pc'[t] = "poll" =>
                  status'[t] = "running" /\ saved'[t].key = info'[t].key
  <2> DEFINE Good == /\ \A k \in keys : KeyInUse(k)
                     /\ \A t \in Tasks : pc[t] = "poll" =>
                          status[t] = "running" /\ saved[t].key = info[t].key
  <2>1. ASSUME NEW t \in Tasks, Arrive(t) \/ Start(t) \/ Execution(t) PROVE Good'
    <3>1. crashes = 0 /\ faults = 0
      BY <1>2, <2>1, Bounds, HubAssumption DEF HubInv, HubTypes
    <3>2. Good BY <3>1 DEF WriterInv
    <3>3. Held(t)' BY <1>2, <2>1, <3>1, <3>2, HeldStep DEF Held
    <3>4. \A k \in keys' : k \in Keys
      BY <2>1, StepTypes DEF HubTypes
    <3>5. ASSUME NEW k \in keys' PROVE KeyInUse(k)'
      <4>1. CASE k[1] = t BY <3>3, <4>1 DEF Held
      <4>2. CASE k[1] # t
        <5>1. k \in keys /\ k[1] \in Tasks BY <2>1, <3>4, <4>2, KeysOfOthers DEF Keys
        <5> QED BY <2>1, <3>2, <4>2, <5>1, Others DEF HubInv, KeyInUse
      <4> QED BY <4>1, <4>2
    <3>6. ASSUME NEW u \in Tasks, pc'[u] = "poll"
          PROVE  status'[u] = "running" /\ saved'[u].key = info'[u].key
      <4>1. CASE u = t BY <3>3, <3>6, <4>1 DEF Held
      <4>2. CASE u # t BY <2>1, <3>2, <3>6, <4>2, Others DEF HubInv
      <4> QED BY <4>1, <4>2
    <3> QED BY <3>5, <3>6
  <2>2. CASE (\E k \in Keys : Push(k) \/ HubEnds(k)) \/ People \/ SweepList \/ SweepRevoke
    <3>1. crashes = 0 /\ faults = 0 BY <1>2, <2>2, EnvironmentKeeps
    <3> QED BY <2>2, <3>1, EnvironmentKeeps DEF WriterInv, KeyInUse
  <2>3. CASE Restart BY <1>2, <2>3 DEF Restart, HubInv, HubTypes
  <2>4. CASE UNCHANGED hubVars
    BY <1>2, <2>4 DEF hubVars, taskVars, localVars, handleVars, keyVars, bounds,
                      WriterInv, KeyInUse
  <2> QED BY <2>1, <2>2, <2>3, <2>4 DEF HubNext
<1> QED BY <1>1, <1>2 DEF WriterInv

(* Where one task runs at a time, and until a restart or a call that       *)
(* fails, at most one live remote run can push to a draft branch: an       *)
(* attempt that gives a run up has revoked its key before the next one     *)
(* submits.                                                                *)
THEOREM OneWriterPerBranch == ASSUME Serial PROVE HubSpec => []OneWriter
<1>1. HubInit => WriterInv BY DEF HubInit, WriterInv, Alone
<1>2. HubInv /\ WriterInv => OneWriter
  <2> SUFFICES ASSUME HubInv, WriterInv, crashes = 0, faults = 0,
                      NEW k \in keys, NEW l \in keys
               PROVE  k = l
    BY DEF OneWriter
  <2>1. KeyInUse(k) /\ KeyInUse(l) BY DEF WriterInv
  <2>2. k \in Keys /\ l \in Keys BY DEF HubInv, HubTypes
  <2>3. k[1] = l[1] BY <2>1, <2>2 DEF KeyInUse, WriterInv, Alone, Keys
  <2>4. k[2] = l[2] BY <2>1, <2>3 DEF KeyInUse
  <2> QED BY <2>2, <2>3, <2>4 DEF Keys
<1>3. HubInv /\ WriterInv /\ [HubNext]_hubVars => WriterInv' BY WriterNext
<1> QED BY HubAlways, <1>1, <1>2, <1>3, PTL DEF HubSpec

-----------------------------------------------------------------------------
(***************************************************************************)
(* NoSecondPR: a task about an open pull request runs on its branch, since *)
(* that branch has a head to continue from.                                *)
(***************************************************************************)

\* Draft branches only grow, and a pull request is opened of a head.
Headed ==
  /\ \A u \in Tasks : pr[u] = "open" => tip[u] # NoCommit
  /\ \A t \in Tasks : pc[t] = "open" => tip[info[t].draft] # NoCommit

Branched(t) ==
  /\ onPR[t] # NoTask => pr[onPR[t]] = "open"
  /\ pr[t] = "open" => onPR[t] = NoTask \/ <<"pull", t>> \in missed
  /\ OwnBranch(t, info[t]) /\ OwnBranch(t, saved[t])
  /\ task[t] = "absent" => /\ info[t].draft = NoTask /\ saved[t].draft = NoTask
                           /\ pr[t] # "open"

LEMMA BranchInvParts ==
  BranchInv <=> Headed /\ (moves = 0 => \A t \in Tasks : Branched(t))
BY DEF BranchInv, Headed, Branched

\* Executions leave the branches alone, and but for OpenPR the pull requests.
LEMMA RepoStays ==
  ASSUME NEW t \in Tasks, Arrive(t) \/ Start(t) \/ Execution(t)
  PROVE  tip' = tip /\ (OpenPR(t) \/ pr' = pr)
<1> USE DEF repoVars
<1>1. CASE Arrive(t) \/ Start(t) \/ Begin(t) \/ Prepare(t) \/ Choose(t) \/ Submit(t)
  BY <1>1 DEF Arrive, Start, Begin, Prepare, Choose, Submit
<1>2. CASE SubmitReturns(t) \/ Save(t) \/ PollEnds(t) \/ PollError(t) \/ Deadline(t)
  BY <1>2 DEF SubmitReturns, Save, PollEnds, PollError, Deadline
<1>3. CASE Approve(t) \/ OpenPR(t) \/ Mark(t) \/ SaveSession(t) \/ MarkFailed(t)
            \/ Revoke(t) \/ RevokeFailed(t)
  BY <1>3 DEF Approve, OpenPR, Mark, SaveSession, MarkFailed, Revoke, RevokeFailed
<1> QED BY <1>1, <1>2, <1>3 DEF Execution

\* How a step of an execution changes what BranchInv speaks of, beside
\* Begin, Choose, Save and OpenPR.
LEMMA ContractStays ==
  ASSUME HubInv, NEW t \in Tasks, Execution(t),
         ~Begin(t), ~Choose(t), ~Save(t), ~OpenPR(t)
  PROVE  /\ saved' = saved /\ (info'[t].draft = info[t].draft \/ info'[t].draft = NoTask)
         /\ pc'[t] = "open" => Approve(t)
         /\ task'[t] # "absent"
<1> USE DEF HubInv, HubTypes, taskVars, localVars, handleVars, Goto, NoContract
<1>1. task[t] = "running" BY Executes DEF TaskInv
<1>2. CASE Prepare(t)
  <2>1. CASE AttemptFails(t) BY <1>1, <1>2, <2>1 DEF Prepare, AttemptFails
  <2>2. CASE ~AttemptFails(t)
    <3>1. /\ info' = [info EXCEPT ![t] =
                        [NoContract EXCEPT !.base = base, !.key = issued[t] + 1]]
          /\ Goto(t, "choose") /\ UNCHANGED <<task, saved>>
      BY <1>2, <2>2 DEF Prepare
    <3>2. info'[t].draft = NoTask BY <3>1
    <3>3. pc'[t] = "choose" BY <3>1
    <3> QED BY <1>1, <3>1, <3>2, <3>3
  <2> QED BY <2>1, <2>2
<1>3. CASE Submit(t) \/ SubmitReturns(t) \/ PollEnds(t) \/ Deadline(t) \/ Approve(t)
            \/ Revoke(t) \/ MarkFailed(t)
  BY <1>1, <1>3 DEF Submit, SubmitReturns, PollEnds, Deadline, Approve, Revoke, MarkFailed
<1>4. CASE PollError(t) \/ Mark(t) \/ RevokeFailed(t)
  BY <1>1, <1>4 DEF PollError, Mark, RevokeFailed, AttemptFails
<1>5. CASE SaveSession(t) BY <1>1, <1>5 DEF SaveSession
<1> QED BY <1>2, <1>3, <1>4, <1>5 DEF Execution

LEMMA BranchStep ==
  ASSUME HubInv, BranchInv, NEW t \in Tasks, Arrive(t) \/ Start(t) \/ Execution(t)
  PROVE  BranchInv'
<1> USE DEF HubTypes, taskVars, localVars, handleVars, Goto
<1>1. /\ HubTypes /\ TaskInv(t) /\ moves' = moves /\ tip' = tip /\ (OpenPR(t) \/ pr' = pr)
  BY Bounds, RepoStays DEF HubInv
<1>2. \A u \in Tasks : u # t =>
        /\ task'[u] = task[u] /\ onPR'[u] = onPR[u] /\ pc'[u] = pc[u]
        /\ info'[u] = info[u] /\ saved'[u] = saved[u]
  BY <1>1, Others
<1>3. Headed /\ (moves = 0 => \A u \in Tasks : Branched(u)) BY BranchInvParts
<1>12. missed \subseteq missed' BY MissedGrows
<1>4. CASE OpenPR(t)
  <2> DEFINE d == info[t].draft
  <2>1. /\ pc[t] = "open" /\ pc'[t] = "revoke" /\ UNCHANGED <<task, onPR, info, saved>>
        /\ pr' = pr \/ pr' = [pr EXCEPT ![d] = "open"]
    BY <1>1, <1>4 DEF OpenPR
  <2>2. d \in Tasks /\ tip[d] # NoCommit /\ task[t] = "running"
    BY <1>1, <1>3, <2>1 DEF TaskInv, DraftGiven, Headed, WithDraft, WithKey
  <2>3. Headed' BY <1>1, <1>2, <1>3, <2>1, <2>2 DEF Headed
  <2>4. ASSUME moves = 0, NEW u \in Tasks PROVE Branched(u)'
    <3>1. \/ d = IF onPR[t] = NoTask THEN t ELSE onPR[t]
          \/ d = t /\ <<"pull", t>> \in missed
      BY <1>3, <2>2, <2>4, HubAssumption DEF Branched, OwnBranch
    <3>2. pr' = pr \/ (d = t /\ (onPR[t] = NoTask \/ <<"pull", t>> \in missed))
      <4>1. CASE onPR[t] # NoTask /\ d = onPR[t]
        <5>1. Branched(t) BY <1>3, <2>4
        <5>2. pr[d] = "open" BY <4>1, <5>1 DEF Branched
        <5>3. pr \in [Tasks -> {"none", "open", "closed"}] BY <1>1
        <5> HIDE DEF d
        <5> QED BY <2>1, <2>2, <5>2, <5>3
      <4>2. CASE d = t /\ (onPR[t] = NoTask \/ <<"pull", t>> \in missed) BY <4>2
      <4> QED BY <3>1, <4>1, <4>2
    <3>3. pr'[u] = pr[u] \/ (u = t /\ (onPR[t] = NoTask \/ <<"pull", t>> \in missed))
      BY <1>1, <2>1, <3>2
    <3>4. ASSUME onPR[u] # NoTask PROVE pr'[onPR[u]] = "open"
      <4>1. Branched(u) BY <1>3, <2>4
      <4>2. onPR[u] \in Tasks /\ pr \in [Tasks -> {"none", "open", "closed"}]
        BY <1>1, <3>4
      <4>3. pr[onPR[u]] = "open" BY <3>4, <4>1 DEF Branched
      <4> HIDE DEF d
      <4> QED BY <2>1, <4>2, <4>3
    <3> QED BY <1>3, <1>12, <2>1, <2>2, <2>4, <3>3, <3>4 DEF Branched, OwnBranch
  <2> QED BY <1>1, <2>3, <2>4 DEF BranchInv, Headed, Branched
<1>5. ASSUME ~OpenPR(t),
             pc'[t] = "open" => tip[info'[t].draft] # NoCommit,
             moves = 0 => Branched(t)'
      PROVE  BranchInv'
  <2>1. pr' = pr BY <1>1, <1>5
  <2>2. Headed' BY <1>1, <1>2, <1>3, <1>5, <2>1 DEF Headed
  <2>3. ASSUME moves = 0, NEW u \in Tasks PROVE Branched(u)'
    <3>1. CASE u = t BY <1>5, <2>3, <3>1
    <3>2. CASE u # t BY <1>2, <1>3, <1>12, <2>1, <2>3, <3>2 DEF Branched, OwnBranch
    <3> QED BY <3>1, <3>2
  <2> QED BY <1>1, <2>2, <2>3 DEF BranchInv, Headed, Branched
<1>6. CASE Arrive(t)
  <2>1. /\ task[t] = "absent" /\ pc[t] = "idle" /\ UNCHANGED <<pc, info, saved, pr>>
        /\ task'[t] = "pending"
        /\ \E b \in {NoTask} \cup {u \in Tasks : pr[u] = "open"} : onPR'[t] = b
    BY <1>1, <1>6 DEF Arrive, TaskInv, repoVars
  <2>2. ~OpenPR(t) BY <2>1 DEF OpenPR
  <2>3. moves = 0 => Branched(t)' BY <1>3, <1>12, <2>1 DEF Branched, OwnBranch
  <2> QED BY <1>5, <2>1, <2>2, <2>3
<1>7. CASE Start(t)
  <2>1. /\ pc[t] = "idle" /\ pc'[t] = "begin" /\ UNCHANGED <<onPR, info, saved, pr>>
        /\ task'[t] = "running"
    BY <1>1, <1>7 DEF Start, TaskInv, repoVars
  <2>2. ~OpenPR(t) BY <2>1 DEF OpenPR
  <2>3. moves = 0 => Branched(t)' BY <1>3, <1>12, <2>1 DEF Branched, OwnBranch
  <2> QED BY <1>5, <2>1, <2>2, <2>3
<1>8. CASE Begin(t)
  <2>1. /\ pc[t] = "begin" /\ pc'[t] # "open" /\ UNCHANGED <<onPR, saved, pr, task>>
        /\ task[t] = "running" /\ info'[t] \in {info[t], saved[t]}
    BY <1>1, <1>8 DEF Begin, TaskInv, repoVars
  <2>2. ~OpenPR(t) BY <2>1 DEF OpenPR
  <2>3. moves = 0 => Branched(t)' BY <1>3, <1>12, <2>1 DEF Branched, OwnBranch
  <2> QED BY <1>5, <2>1, <2>2, <2>3
<1>9. CASE Save(t)
  <2>1. /\ pc[t] = "save" /\ pc'[t] # "open" /\ UNCHANGED <<onPR, info, pr, task>>
        /\ task[t] = "running" /\ saved'[t] \in {info[t], saved[t]}
    BY <1>1, <1>9 DEF Save, TaskInv, repoVars
  <2>2. ~OpenPR(t) BY <2>1 DEF OpenPR
  <2>3. moves = 0 => Branched(t)' BY <1>3, <1>12, <2>1 DEF Branched, OwnBranch
  <2> QED BY <1>5, <2>1, <2>2, <2>3
<1>10. CASE Choose(t)
  <2>1. /\ pc[t] = "choose" /\ pc'[t] # "open" /\ UNCHANGED <<onPR, saved, pr, task>>
        /\ task[t] = "running"
    BY <1>1, <1>10 DEF Choose, TaskInv, repoVars
  <2>2. ~OpenPR(t) BY <2>1 DEF OpenPR
  <2>3. moves = 0 => OwnBranch(t, info[t])'
    <3>1. moves = 0 /\ onPR[t] # NoTask => pr[onPR[t]] = "open" /\ tip[onPR[t]] # NoCommit
      <4>1. onPR[t] \in Tasks \cup {NoTask} BY <1>1
      <4>2. moves = 0 => Branched(t) BY <1>3
      <4>3. moves = 0 /\ onPR[t] # NoTask => pr[onPR[t]] = "open" BY <4>2 DEF Branched
      <4> QED BY <1>3, <4>1, <4>3 DEF Headed
    <3> QED BY <1>1, <1>10, <2>1, <3>1, Chosen DEF OwnBranch
  <2>4. moves = 0 => Branched(t)' BY <1>3, <1>12, <2>1, <2>3 DEF Branched, OwnBranch
  <2> QED BY <1>5, <2>1, <2>2, <2>4
<1>11. CASE Execution(t) /\ ~Begin(t) /\ ~Choose(t) /\ ~Save(t) /\ ~OpenPR(t)
  <2>1. /\ UNCHANGED <<saved, pr>> /\ (info'[t].draft = info[t].draft \/ info'[t].draft = NoTask)
        /\ pc'[t] = "open" => Approve(t)
        /\ task'[t] # "absent"
    BY <1>1, <1>11, ContractStays
  <2>2. onPR'[t] = onPR[t]
    <3> USE <1>11
    <3>1. CASE Prepare(t) \/ Submit(t) \/ SubmitReturns(t) \/ PollEnds(t) \/ PollError(t)
      BY <3>1 DEF Prepare, Submit, SubmitReturns, PollEnds, PollError
    <3>2. CASE Deadline(t) \/ Approve(t) \/ Revoke(t) \/ Mark(t) \/ SaveSession(t)
               \/ MarkFailed(t) \/ RevokeFailed(t)
      BY <3>2 DEF Deadline, Approve, Revoke, Mark, SaveSession, MarkFailed, RevokeFailed
    <3> QED BY <3>1, <3>2 DEF Execution
  <2>3. pc'[t] = "open" => tip[info'[t].draft] # NoCommit
    <3> SUFFICES ASSUME pc'[t] = "open" PROVE tip[info'[t].draft] # NoCommit OBVIOUS
    <3>1. Approve(t) /\ info' = info BY <2>1 DEF Approve
    <3>2. Valid(t) BY <1>1, <3>1 DEF Approve
    <3> QED BY <3>1, <3>2 DEF Valid, FetchDraft
  <2>4. moves = 0 => Branched(t)' BY <1>3, <1>12, <2>1, <2>2 DEF Branched, OwnBranch
  <2> QED BY <1>5, <1>11, <2>3, <2>4
<1> QED BY <1>4, <1>6, <1>7, <1>8, <1>9, <1>10, <1>11

LEMMA PushGrows ==
  ASSUME HubInv, NEW k \in Keys, Push(k)
  PROVE  \A u \in Tasks : tip[u] # NoCommit => tip'[u] # NoCommit
<1> DEFINE c == run[k].given
<1>1. c \in Contracts /\ Anchor(c) \in Commits /\ c.base \in Commits
  BY AnchorTyped DEF HubInv, HubTypes, Runs, Contracts
<1>2. PICK head \in {Append(Anchor(c), k[1]), Append(Anchor(c), "unsigned"), Append(c.base, k[1])} :
        tip' = [tip EXCEPT ![c.draft] = head]
  BY DEF Push
<1> HIDE DEF c
<1>3. \A s \in Commits : \A a : Append(s, a) # NoCommit
  BY DEF NoCommit, Commits
<1>4. head # NoCommit BY <1>1, <1>2, <1>3
<1> QED BY <1>2, <1>4 DEF HubInv, HubTypes

LEMMA BranchNext ==
  ASSUME HubInv, BranchInv, [HubNext]_hubVars PROVE BranchInv'
<1> USE DEF repoVars, BranchInv, OwnBranch
<1>1. CASE \E t \in Tasks : Arrive(t) \/ Start(t) \/ Execution(t) BY <1>1, BranchStep
<1>2. ASSUME NEW k \in Keys, Push(k) \/ HubEnds(k) PROVE BranchInv'
  <2>1. /\ UNCHANGED <<task, onPR, pc, info, saved, pr, missed, moves>>
    BY <1>2 DEF Push, HubEnds, taskVars, localVars, handleVars, bounds
  <2>2. \A u \in Tasks : tip[u] # NoCommit => tip'[u] # NoCommit
    BY <1>2, PushGrows DEF HubEnds
  <2>3. \A t \in Tasks : pc[t] = "open" => info[t].draft \in Tasks
    BY DEF HubInv, TaskInv, DraftGiven, WithDraft, WithKey
  <2> QED BY <2>1, <2>2, <2>3
<1>3. CASE People
  <2>1. /\ UNCHANGED <<task, onPR, pc, info, saved, missed>> /\ moves' # 0
    BY <1>3 DEF People, taskVars, localVars, handleVars, HubInv, HubTypes
  <2>2. \A u \in Tasks : tip[u] # NoCommit => tip'[u] # NoCommit
    <3>1. \A s \in Commits : Append(s, "human") # NoCommit
      BY DEF NoCommit, Commits
    <3>2. PICK b \in Tasks : tip' = tip \/ tip' = [tip EXCEPT ![b] = Append(tip[b], "human")]
      BY <1>3 DEF People
    <3>3. tip \in [Tasks -> Commits] BY DEF HubInv, HubTypes
    <3>4. Append(tip[b], "human") # NoCommit BY <3>1, <3>3
    <3> HIDE DEF NoCommit
    <3> QED BY <3>2, <3>3, <3>4
  <2>3. \A u \in Tasks : pr'[u] = "open" => pr[u] = "open"
    BY <1>3 DEF People, HubInv, HubTypes
  <2>4. \A t \in Tasks : pc[t] = "open" => info[t].draft \in Tasks
    BY DEF HubInv, TaskInv, DraftGiven, WithDraft, WithKey
  <2> QED BY <2>1, <2>2, <2>3, <2>4
<1>4. CASE SweepList \/ SweepRevoke
  BY <1>4 DEF SweepList, SweepRevoke, taskVars, localVars, handleVars, bounds
<1>5. CASE Restart
  <2>1. /\ UNCHANGED <<onPR, saved, tip, pr, missed, moves>>
        /\ \A t \in Tasks : pc'[t] = "idle" /\ info'[t].draft = NoTask
        /\ \A t \in Tasks : task'[t] = "absent" => task[t] = "absent"
    BY <1>5 DEF Restart, NoContract, TaskAfterRestart
  <2> QED BY <2>1
<1>6. CASE UNCHANGED hubVars
  BY <1>6 DEF hubVars, taskVars, localVars, handleVars, bounds
<1> QED BY <1>1, <1>2, <1>3, <1>4, <1>5, <1>6 DEF HubNext

(* While nobody touches the repository by hand, a task about an open pull  *)
(* request never opens a second one, whatever fails and however often      *)
(* Matea restarts.                                                         *)
THEOREM NoSecondPullRequest == HubSpec => []NoSecondPR
<1>1. HubInit => BranchInv
  BY DEF HubInit, BranchInv, OwnBranch, NoContract
<1>2. BranchInv => NoSecondPR BY DEF BranchInv, NoSecondPR
<1>3. HubInv /\ BranchInv /\ [HubNext]_hubVars => BranchInv' BY BranchNext
<1> QED BY HubAlways, <1>1, <1>2, <1>3, PTL DEF HubSpec

-----------------------------------------------------------------------------
(***************************************************************************)
(* NoWorkLost, where one task runs at a time: what is approved descends    *)
(* from the head the session remembers, since nothing but the execution    *)
(* itself moves that head between its anchor and its approval.             *)
(***************************************************************************)

Carries(t) ==
  /\ task[t] \in {"absent", "pending"} => status[t] = "none"
  /\ pc[t] \in WithDraft => Misread(t) \/ Continues(info[t])
  /\ pc[t] # "idle" /\ status[t] = "running" => Misread(t) \/ Continues(saved[t])
  /\ Approving(t) => Misread(t) \/ IsPrefix(lastHead, approved[t])
  /\ task[t] = "done" /\ <<"save", t>> \notin missed => IsPrefix(approved[t], lastHead)

LEMMA HeadStays ==
  ASSUME NEW t \in Tasks, Arrive(t) \/ Start(t) \/ Execution(t), ~SaveSession(t)
  PROVE  lastHead' = lastHead
<1>1. CASE Arrive(t) \/ Start(t) \/ Begin(t) \/ Prepare(t) \/ Choose(t) \/ Submit(t)
  BY <1>1 DEF Arrive, Start, Begin, Prepare, Choose, Submit
<1>2. CASE SubmitReturns(t) \/ Save(t) \/ PollEnds(t) \/ PollError(t) \/ Deadline(t)
  BY <1>2 DEF SubmitReturns, Save, PollEnds, PollError, Deadline
<1>3. CASE Approve(t) \/ OpenPR(t) \/ Mark(t) \/ MarkFailed(t) \/ Revoke(t) \/ RevokeFailed(t)
  BY <1>3 DEF Approve, OpenPR, Mark, MarkFailed, Revoke, RevokeFailed
<1> QED BY <1>1, <1>2, <1>3 DEF Execution

LEMMA ApprovedDescends ==
  ASSUME HubInv, NEW t \in Tasks, Continues(info[t]), info[t].draft \in Tasks, Valid(t)
  PROVE  IsPrefix(lastHead, FetchDraft(info[t])) /\ FetchDraft(info[t]) \in Commits
<1>1. FetchDraft(info[t]) \in Commits BY DEF FetchDraft, HubInv, HubTypes
<1>2. CASE lastHead = NoCommit BY <1>1, <1>2, EmptyPrefix
<1>3. CASE lastHead # NoCommit
  BY <1>1, <1>3 DEF Valid, Continues, Anchor
<1> QED BY <1>1, <1>2, <1>3

LEMMA AttemptFailsCarries ==
  ASSUME HubInv, NEW t \in Tasks, Carries(t), AttemptFails(t), task[t] = "running",
         status'[t] = "running" => status[t] = "running", saved' = saved,
         pc[t] # "idle", lastHead' = lastHead, Misread(t) => Misread(t)'
  PROVE  Carries(t)'
<1>1. /\ pc'[t] \in {"begin", "idle"} /\ task'[t] \in {"running", "failed"}
      /\ verdict'[t] = "none"
  BY DEF AttemptFails, Goto, HubInv, HubTypes
<1> QED BY <1>1 DEF Carries, Continues, Approving, WithDraft, WithKey

LEMMA CarriesStep ==
  ASSUME HubInv, NEW t \in Tasks, Carries(t),
         Arrive(t) \/ Start(t) \/ Execution(t),
         SaveSession(t) => ~Misread(t)
  PROVE  Carries(t)'
<1> USE DEF HubTypes, taskVars, localVars, handleVars, Goto
<1>1. HubTypes /\ TaskInv(t) /\ (SaveSession(t) \/ lastHead' = lastHead)
  BY HeadStays DEF HubInv
<1>16. Misread(t) => Misread(t)' BY MissedGrows DEF Misread
<1>17. <<"save", t>> \in missed => <<"save", t>> \in missed' BY MissedGrows
<1> USE <1>16, <1>17
<1>2. pc[t] # "idle" => task[t] = "running" BY <1>1 DEF TaskInv
<1> USE DEF Carries, Continues, Approving, WithDraft, WithKey
<1>3. CASE Arrive(t)
  <2>1. /\ task[t] = "absent" /\ task'[t] = "pending" /\ pc[t] = "idle"
        /\ UNCHANGED <<pc, status, info, saved, verdict, approved, lastHead>>
    BY <1>1, <1>3 DEF Arrive, TaskInv
  <2> QED BY <2>1
<1>4. CASE Start(t)
  <2>1. /\ task[t] = "pending" /\ task'[t] = "running" /\ pc'[t] = "begin"
        /\ UNCHANGED <<status, info, saved, verdict, approved, lastHead>>
    BY <1>1, <1>4 DEF Start
  <2> QED BY <2>1
<1>5. CASE Begin(t)
  <2>1. /\ pc[t] = "begin" /\ UNCHANGED <<task, status, saved, verdict, approved, lastHead>>
        /\ \/ pc'[t] = "prepare"
           \/ pc'[t] = "poll" /\ status[t] = "running" /\ info'[t] = saved[t]
    BY <1>1, <1>5 DEF Begin
  <2> QED BY <1>2, <2>1
<1>6. CASE Prepare(t)
  <2>1. pc[t] = "prepare" /\ UNCHANGED <<status, saved, lastHead>> BY <1>6 DEF Prepare
  <2>2. CASE AttemptFails(t) BY <1>2, <2>1, <2>2, AttemptFailsCarries
  <2>3. CASE ~AttemptFails(t)
    <3>1. pc'[t] = "choose" /\ UNCHANGED <<task, verdict, approved>>
      BY <1>1, <1>6, <2>3 DEF Prepare
    <3> QED BY <1>2, <2>1, <3>1
  <2> QED BY <2>2, <2>3
<1>7. CASE Choose(t)
  <2>1. /\ pc[t] = "choose" /\ pc'[t] = "submit"
        /\ UNCHANGED <<task, status, saved, verdict, approved, lastHead>>
    BY <1>1, <1>7 DEF Choose
  <2>2. Misread(t)' \/ lastHead = NoCommit \/ info'[t].anchor = lastHead
    BY <1>1, <1>7, Chosen
  <2> QED BY <1>2, <2>1, <2>2
<1>8. CASE Submit(t) \/ SubmitReturns(t) \/ PollEnds(t) \/ Deadline(t)
  <2>1. /\ pc[t] \in {"submit", "submitting", "poll"}
        /\ pc'[t] \in WithDraft /\ pc'[t] \notin {"open", "session", "mark"}
        /\ pc'[t] = "revoke" => verdict'[t] = "canceled"
        /\ UNCHANGED <<task, status, saved, info, lastHead>>
    BY <1>1, <1>8 DEF Submit, SubmitReturns, PollEnds, Deadline
  <2> QED BY <1>2, <2>1
<1>9. CASE Save(t)
  <2>1. /\ pc[t] = "save" /\ pc'[t] = "poll" /\ saved'[t] \in {info[t], saved[t]}
        /\ UNCHANGED <<task, info, lastHead>>
        /\ saved'[t] = info[t] \/ UNCHANGED <<saved, status>>
    BY <1>1, <1>9 DEF Save
  <2> QED BY <1>2, <2>1
<1>10. CASE PollError(t) \/ RevokeFailed(t)
  <2>1. pc[t] # "idle" /\ AttemptFails(t) /\ UNCHANGED <<status, saved, lastHead>>
    BY <1>10 DEF PollError, RevokeFailed
  <2> QED BY <1>2, <2>1, AttemptFailsCarries
<1>11. CASE Approve(t)
  <2>1. pc[t] = "approve" /\ UNCHANGED <<task, status, saved, info, lastHead>>
    BY <1>11 DEF Approve
  <2>2. CASE Valid(t) /\ approved' = [approved EXCEPT ![t] = FetchDraft(info[t])] /\ Goto(t, "open")
    <3>1. pc'[t] = "open" /\ approved'[t] = FetchDraft(info[t]) BY <1>1, <2>2
    <3>2. info[t].draft \in Tasks BY <1>1, <2>1 DEF TaskInv, DraftGiven
    <3>3. Misread(t) \/ IsPrefix(lastHead, approved'[t])
      BY <2>1, <2>2, <3>1, <3>2, ApprovedDescends
    <3> QED BY <1>2, <2>1, <3>1, <3>3
  <2>3. CASE Goto(t, "revoke") /\ verdict' = [verdict EXCEPT ![t] = "failed"]
    <3>1. pc'[t] = "revoke" /\ verdict'[t] = "failed" BY <1>1, <2>3
    <3> QED BY <1>2, <2>1, <3>1
  <2> QED BY <1>11, <2>2, <2>3 DEF Approve
<1>12. CASE OpenPR(t) \/ Revoke(t)
  <2>1. /\ pc[t] \in {"open", "revoke"} /\ pc'[t] \in {"revoke", "mark"}
        /\ pc[t] = "revoke" => verdict' = verdict
        /\ UNCHANGED <<task, status, saved, info, approved, lastHead>>
    BY <1>1, <1>12 DEF OpenPR, Revoke
  <2> QED BY <1>2, <2>1
<1>13. CASE Mark(t)
  <2>1. pc[t] = "mark" /\ UNCHANGED <<saved, lastHead>> /\ MarkTerminal(t, verdict[t])
    BY <1>13 DEF Mark
  <2>2. status'[t] = "running" => status[t] = "running"
    BY <1>1, <2>1, Marked DEF HubTypes
  <2>3. CASE AttemptFails(t) BY <1>2, <2>1, <2>2, <2>3, AttemptFailsCarries
  <2>4. CASE verdict[t] = "done" /\ Goto(t, "session") /\ UNCHANGED <<task, tries, localVars>>
    <3>1. pc'[t] = "session" BY <1>1, <2>4
    <3> QED BY <1>2, <2>1, <2>2, <2>4, <3>1
  <2> QED BY <1>13, <2>3, <2>4 DEF Mark
<1>14. CASE SaveSession(t)
  <2>1. /\ pc'[t] = "idle" /\ task'[t] = "done" /\ approved' = approved
        /\ (lastHead' = approved[t] \/ <<"save", t>> \in missed')
        /\ verdict'[t] = "none"
    BY <1>1, <1>14 DEF SaveSession
  <2>2. IsPrefix(approved[t], approved[t]) BY <1>1, PrefixRefl
  <2> QED BY <2>1, <2>2
<1>15. CASE MarkFailed(t)
  <2>1. /\ pc[t] = "markFailed" /\ pc'[t] = "revokeFailed" /\ MarkTerminal(t, "failed")
        /\ UNCHANGED <<task, saved, info, lastHead>>
    BY <1>1, <1>15 DEF MarkFailed
  <2>2. status'[t] = "running" => status[t] = "running" BY <1>1, <2>1, Marked
  <2> QED BY <1>2, <2>1, <2>2
<1> QED
  BY <1>3, <1>4, <1>5, <1>6, <1>7, <1>8, <1>9, <1>10, <1>11, <1>12, <1>13, <1>14, <1>15
  DEF Execution

\* A task that succeeded stays so, and what it could not read stays noted.
LEMMA ReadBefore ==
  ASSUME HubInv, NEW t \in Tasks, Arrive(t) \/ Start(t) \/ Execution(t), SessionRead'
  PROVE  SessionRead /\ (SaveSession(t) => ~Misread(t))
<1>1. missed \subseteq missed' BY MissedGrows
<1>2. ASSUME NEW u \in Tasks, task[u] = "done" PROVE task'[u] = "done"
  <2>1. CASE u # t BY <1>2, <2>1, Others DEF HubInv
  <2>2. CASE u = t
    <3>1. pc[t] = "idle" BY <1>2, <2>2 DEF HubInv, TaskInv
    <3>2. ~Execution(t) BY <3>1, Executes
    <3> QED BY <1>2, <2>2, <3>2 DEF Arrive, Start
  <2> QED BY <2>1, <2>2
<1>3. SessionRead BY <1>1, <1>2 DEF SessionRead
<1>4. ASSUME SaveSession(t) PROVE ~Misread(t)
  <2>1. task'[t] = "done" BY <1>4 DEF SaveSession, HubInv, HubTypes
  <2> QED BY <1>1, <2>1 DEF SessionRead, Misread
<1> QED BY <1>3, <1>4

LEMMA WorkNext ==
  ASSUME Serial, HubInv, WorkInv, [HubNext]_hubVars PROVE WorkInv'
<1>1. Alone' BY StaysAlone DEF WorkInv
<1>2. ASSUME crashes' = 0, SessionRead', NEW u \in Tasks PROVE Carries(u)'
  <2>1. ASSUME NEW t \in Tasks, Arrive(t) \/ Start(t) \/ Execution(t) PROVE Carries(u)'
    <3>1. crashes = 0 BY <1>2, <2>1, Bounds DEF HubInv
    <3>6. SessionRead /\ (SaveSession(t) => ~Misread(t)) BY <1>2, <2>1, ReadBefore
    <3>2. Carries(u) /\ Carries(t) BY <3>1, <3>6 DEF WorkInv, Carries
    <3>7. missed \subseteq missed' BY <2>1, MissedGrows
    <3>3. CASE u = t BY <2>1, <3>2, <3>3, <3>6, CarriesStep
    <3>4. CASE u # t /\ ~SaveSession(t)
      BY <2>1, <3>2, <3>4, <3>7, Others, HeadStays
      DEF HubInv, Carries, Continues, Approving, Misread
    <3>5. CASE u # t /\ SaveSession(t)
      <4>1. pc[t] = "session" /\ lastHead' \in {approved[t], lastHead}
        BY <3>5 DEF SaveSession
      <4>2. pc[u] = "idle" BY <3>5, <4>1 DEF WorkInv, Alone
      <4>3. /\ task'[u] = task[u] /\ pc'[u] = pc[u] /\ info'[u] = info[u]
            /\ status'[u] = status[u] /\ approved'[u] = approved[u]
        BY <2>1, <3>5, Others DEF HubInv
      <4>4. IsPrefix(lastHead, approved[t])
        BY <3>2, <3>5, <3>6, <4>1 DEF Carries, Approving
      <4>5. task[u] = "done" /\ <<"save", u>> \notin missed => IsPrefix(approved[u], lastHead')
        BY <3>2, <4>1, <4>4, PrefixTrans DEF Carries, HubInv, HubTypes
      <4> QED BY <3>2, <3>7, <4>2, <4>3, <4>5 DEF Carries, Approving, WithDraft, WithKey
    <3> QED BY <3>3, <3>4, <3>5
  <2>2. CASE (\E k \in Keys : Push(k) \/ HubEnds(k)) \/ People \/ SweepList \/ SweepRevoke
    <3>1. crashes = 0 /\ SessionRead BY <1>2, <2>2, EnvironmentKeeps DEF SessionRead
    <3> QED
      BY <2>2, <3>1, EnvironmentKeeps DEF WorkInv, Carries, Continues, Approving, Misread
  <2>3. CASE Restart BY <1>2, <2>3 DEF Restart, HubInv, HubTypes
  <2>4. CASE UNCHANGED hubVars
    BY <1>2, <2>4 DEF hubVars, taskVars, localVars, handleVars, bounds, SessionRead,
                      WorkInv, Carries, Continues, Approving, Misread
  <2> QED BY <2>1, <2>2, <2>3, <2>4 DEF HubNext
<1> QED BY <1>1, <1>2 DEF WorkInv, Carries

(* Where one task runs at a time, and until a restart, the session never   *)
(* forgets a head it approved: every later one descends from it, whatever  *)
(* fails, is retried or is moved by others in between.                     *)
THEOREM NoApprovedWorkLost == ASSUME Serial PROVE HubSpec => []NoWorkLost
<1>1. HubInit => WorkInv
  BY DEF HubInit, WorkInv, Alone, Approving, WithDraft, WithKey
<1>2. WorkInv => NoWorkLost BY DEF WorkInv, NoWorkLost
<1>3. HubInv /\ WorkInv /\ [HubNext]_hubVars => WorkInv' BY WorkNext
<1> QED BY HubAlways, <1>1, <1>2, <1>3, PTL DEF HubSpec
=============================================================================
