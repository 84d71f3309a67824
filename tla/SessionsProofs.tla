---------------------------- MODULE SessionsProofs ----------------------------
(***************************************************************************)
(* Type correctness of Sessions, the uniqueness of a coder's open session, *)
(* the record of the pushed head and what a forced push keeps, for any     *)
(* tasks, coders, rows, retries and bounds.                                *)
(***************************************************************************)
EXTENDS Sessions, SequenceTheorems, TLAPS

Statuses == {"none", "active", "idle", "archived"}

LEMMA RowFields ==
  ASSUME NEW row \in Row
  PROVE  /\ row.agent \in Coders /\ row.status \in Statuses /\ row.branch \in BOOLEAN
         /\ row.head \in Commits /\ row.ws \in BOOLEAN /\ row.aged \in BOOLEAN
         /\ \A v \in Statuses : [row EXCEPT !.status = v] \in Row
         /\ \A v \in BOOLEAN : /\ [row EXCEPT !.aged = v] \in Row
                               /\ [row EXCEPT !.branch = v] \in Row
                               /\ [row EXCEPT !.ws = v] \in Row
         /\ \A v \in BOOLEAN, h \in Commits : [row EXCEPT !.branch = v, !.head = h] \in Row
  BY DEF Row, Statuses

LEMMA NewRowType == \A c \in Coders : NewRow(c) \in Row
  BY DEF NewRow, Row, NoCommit, Commits

LEMMA NoRowType == NoRow \in Row
<1>1. (CHOOSE c \in Coders : TRUE) \in Coders BY SessionsAssumption
<1>2. NewRow(CHOOSE c \in Coders : TRUE) \in Row BY <1>1, NewRowType
<1> QED BY <1>2, RowFields DEF NoRow, Statuses

LEMMA CommitFacts ==
  /\ NoCommit \in Commits /\ << <<"main", 0>> >> \in Commits
  /\ \A h \in Commits, m \in Marks : Append(h, m) \in Commits
  /\ \A h \in Commits : h # NoCommit => Front(h) \in Commits
  /\ \A h \in Commits : \A n \in 1..Len(h) : SubSeq(h, 1, n) \in Commits
<1>1. <<"main", 0>> \in Marks BY DEF Marks
<1>2. \A h \in Commits : h # NoCommit => Front(h) \in Commits
  <2> SUFFICES ASSUME NEW h \in Commits, h # NoCommit PROVE Front(h) \in Commits
    OBVIOUS
  <2>1. h \in Seq(Marks) /\ Len(h) \in Nat /\ Len(h) # 0 BY DEF Commits, NoCommit
  <2> QED BY <2>1 DEF Commits, Front
<1>3. \A h \in Commits : \A n \in 1..Len(h) : SubSeq(h, 1, n) \in Commits
  BY SubSeqProperties DEF Commits
<1> QED BY <1>1, <1>2, <1>3 DEF Commits, NoCommit

(* A write of a whole row. *)
LEMMA WriteFacts ==
  ASSUME SessionsTypeOK, NEW s \in Ids, NEW row \in Row, Write(s, row)
  PROVE  /\ sess' \in [Ids -> Row] /\ events' \in 0..MaxEvents /\ lost' \in BOOLEAN
         /\ \A r \in Ids \ {s} : sess'[r] = sess[r]
         /\ \/ sess'[s] = sess[s]
            \/ sess'[s].status = row.status /\ sess'[s].agent = row.agent
<1>1. sess \in [Ids -> Row] /\ events \in 0..MaxEvents /\ lost \in BOOLEAN /\ MaxEvents \in Nat
  BY SessionsAssumption DEF SessionsTypeOK
<1>2. CASE /\ sess' = [sess EXCEPT ![s] = [row EXCEPT !.aged = FALSE]]
           /\ UNCHANGED <<events, lost>>
  <2>1. [row EXCEPT !.aged = FALSE] \in Row BY RowFields
  <2>2. /\ [row EXCEPT !.aged = FALSE].status = row.status
        /\ [row EXCEPT !.aged = FALSE].agent = row.agent
    BY DEF Row
  <2> QED BY <1>1, <1>2, <2>1, <2>2
<1>3. CASE Refused /\ UNCHANGED sess
  BY <1>1, <1>3 DEF Refused, Event
<1> QED BY <1>2, <1>3 DEF Write

LEMMA TallyTypes ==
  ASSUME events \in 0..MaxEvents, lost \in BOOLEAN
  PROVE  /\ Event => events' \in 0..MaxEvents
         /\ UNCHANGED <<events, lost>> \/ Refused
              => events' \in 0..MaxEvents /\ lost' \in BOOLEAN
<1>1. MaxEvents \in Nat BY SessionsAssumption
<1>2. ASSUME Event PROVE events' \in 0..MaxEvents BY <1>1, <1>2 DEF Event
<1>3. ASSUME Refused PROVE events' \in 0..MaxEvents /\ lost' \in BOOLEAN
  BY <1>2, <1>3 DEF Refused
<1> QED BY <1>2, <1>3

-----------------------------------------------------------------------------
(* Types, with what they rest on: a task under way has a session. *)

Held == \A t \in Tasks : ~Quiet(t) => sid[t] \in Ids

Typed == SessionsTypeOK /\ Held

LEMMA TypesInit == SessionsInit => Typed
<1> SUFFICES ASSUME SessionsInit PROVE Typed
  OBVIOUS
<1>0. /\ pc = [t \in Tasks |-> "new"] /\ tries = [t \in Tasks |-> 0]
      /\ sid = [t \in Tasks |-> NoId] /\ onBase = [t \in Tasks |-> FALSE]
      /\ local = [t \in Tasks |-> NoCommit] /\ copy = [t \in Tasks |-> NewRow(CoderOf[t])]
      /\ lock = NoTask /\ remote = NoCommit /\ main = << <<"main", 0>> >> /\ pr = "none"
      /\ todo = [a \in Archivers |-> {}] /\ timer = FALSE /\ stale = [s \in Ids |-> NoRow]
      /\ events = 0 /\ lost = FALSE /\ disturbed = FALSE
      /\ blind = {} /\ orphaned = {} /\ strayed = {}
  BY Zenon DEF SessionsInit
<1>1. sess \in [Ids -> Row]
  <2>1. OldRow \subseteq Row BY CommitFacts DEF OldRow, Row
  <2>2. sess \in [Ids -> {NoRow} \cup OldRow] BY Zenon DEF SessionsInit
  <2> QED BY <2>1, <2>2, NoRowType
<1>2. copy \in [Tasks -> Row]
  <2>1. \A t \in Tasks : NewRow(CoderOf[t]) \in Row BY NewRowType, SessionsAssumption
  <2> QED BY <1>0, <2>1
<1>3. stale \in [Ids -> Row] BY <1>0, NoRowType
<1>4. local \in [Tasks -> Commits] /\ {remote, main} \subseteq Commits
  BY <1>0, CommitFacts
<1>5. pc \in [Tasks -> PC] /\ sid \in [Tasks -> Ids \cup {NoId}] /\ onBase \in [Tasks -> BOOLEAN]
  BY <1>0 DEF PC
<1>6. tries \in [Tasks -> Nat] /\ \A t \in Tasks : tries[t] <= MaxRetries[t]
  BY <1>0, SessionsAssumption
<1>7. /\ lock \in Tasks \cup {NoTask} /\ pr \in {"none", "open", "merged", "closed"}
      /\ todo \in [Archivers -> SUBSET Ids]
  BY <1>0
<1>8. {timer, lost, disturbed} \subseteq BOOLEAN /\ {blind, orphaned, strayed} \subseteq SUBSET Tasks
  BY <1>0
<1>9. events \in 0..MaxEvents BY <1>0, SessionsAssumption
<1>10. Held BY <1>0 DEF Held, Quiet
<1> QED BY <1>1, <1>2, <1>3, <1>4, <1>5, <1>6, <1>7, <1>8, <1>9, <1>10
        DEF SessionsTypeOK, Typed

\* The steps of a task that do not write its row.
LEMMA TypesOfTask ==
  ASSUME Typed, NEW t \in Tasks,
         \/ Fail(t) \/ Prepare(t) \/ Code(t) \/ Push(t) \/ OpenPR(t)
  PROVE  Typed'
<1> USE DEF Typed, SessionsTypeOK, gitVars, gcVars, tally, setVars
<1>1. MaxRetries[t] \in Nat BY SessionsAssumption
<1>2. CASE Fail(t)
  <2>1. pc' \in [Tasks -> PC] BY <1>2 DEF Fail, AttemptFails, Goto, PC
  <2>2. local' \in [Tasks -> Commits] BY <1>2, CommitFacts DEF Fail, AttemptFails
  <2>3. /\ tries' \in [Tasks -> Nat] /\ \A u \in Tasks : tries'[u] <= MaxRetries[u]
        /\ lock' \in Tasks \cup {NoTask}
    BY <1>1, <1>2 DEF Fail, AttemptFails
  <2>4. Held' BY <1>2 DEF Fail, AttemptFails, Goto, Held, Quiet
  <2> QED BY <1>2, <2>1, <2>2, <2>3, <2>4 DEF Fail
<1>3. CASE Prepare(t)
  <2>1. sid[t] \in Ids BY <1>3 DEF Held, Quiet, Prepare
  <2>2. PICK readable \in BOOLEAN :
           /\ IF readable THEN UNCHANGED <<events, lost>> ELSE Refused
           /\ blind' = IF readable THEN blind \ {t} ELSE blind \cup {t}
           /\ local' = [local EXCEPT ![t] = StartPoint(t, Remembered(t, readable))]
    BY <1>3, Zenon DEF Prepare
  <2>3. StartPoint(t, Remembered(t, readable)) \in Commits
    <3>1. Remembered(t, readable) \in Row
      BY <2>1, NewRowType, SessionsAssumption DEF Remembered
    <3> QED BY <3>1, RowFields, CommitFacts DEF StartPoint, ExistingBranch
  <2>4. local' \in [Tasks -> Commits] BY <2>2, <2>3
  <2>5. pc' \in [Tasks -> PC] /\ blind' \in SUBSET Tasks BY <1>3, <2>2 DEF Prepare, Goto, PC
  <2>6. Held' BY <1>3 DEF Prepare, Goto, Held, Quiet
  <2>7. events' \in 0..MaxEvents /\ lost' \in BOOLEAN
    <3>1. UNCHANGED <<events, lost>> \/ Refused BY <2>2
    <3> QED BY <3>1, TallyTypes
  <2> QED BY <1>3, <2>4, <2>5, <2>6, <2>7 DEF Prepare
<1>4. CASE Code(t)
  <2>0. local \in [Tasks -> Commits] /\ remote \in Commits /\ strayed \in SUBSET Tasks
        /\ events \in 0..MaxEvents
    OBVIOUS
  <2>1. <<t, tries[t]>> \in Marks BY DEF Marks
  <2>2. \A h \in Commits : Append(h, <<t, tries[t]>>) \in Commits BY <2>1, CommitFacts
  <2>3. /\ local' \in [Tasks -> Commits] /\ remote' \in Commits
        /\ events' \in 0..MaxEvents /\ strayed' \in SUBSET Tasks
    <3>1. CASE UNCHANGED <<remote, events, strayed>> /\ ~Stray(t)
      <4>1. local' = [local EXCEPT ![t] = Append(local[t], <<t, tries[t]>>)] \/ local' = local
        BY <1>4, <3>1 DEF Code
      <4>2. CASE local' = [local EXCEPT ![t] = Append(local[t], <<t, tries[t]>>)]
        <5>1. Append(local[t], <<t, tries[t]>>) \in Commits BY <2>0, <2>2
        <5> HIDE DEF Typed, SessionsTypeOK
        <5>2. local' \in [Tasks -> Commits] BY <2>0, <4>2, <5>1
        <5> QED BY <2>0, <3>1, <5>2
      <4>3. CASE local' = local BY <2>0, <3>1, <4>3
      <4> QED BY <4>1, <4>2, <4>3
    <3>2. CASE Stray(t)
      <4>1. PICK n \in 1..Len(local[t]), commits \in BOOLEAN :
               local' = [local EXCEPT ![t] =
                           IF commits THEN Append(SubSeq(local[t], 1, n), <<t, tries[t]>>)
                           ELSE SubSeq(local[t], 1, n)]
        BY <3>2, Zenon DEF Stray
      <4>2. SubSeq(local[t], 1, n) \in Commits BY CommitFacts
      <4>3. local' \in [Tasks -> Commits] BY <2>2, <4>1, <4>2
      <4>4. events' \in 0..MaxEvents BY <3>2, TallyTypes DEF Stray
      <4>5. remote' \in Commits
        <5>1. remote' \in {remote, local'[t]} BY <3>2 DEF Stray
        <5>2. local'[t] \in Commits BY <4>3
        <5> QED BY <2>0, <5>1, <5>2
      <4>6. strayed' \in SUBSET Tasks
        <5>1. strayed' = strayed \cup {t} BY <3>2 DEF Stray
        <5> QED BY <2>0, <5>1
      <4> QED BY <4>3, <4>4, <4>5, <4>6
    <3> QED BY <1>4, <3>1, <3>2 DEF Code
  <2>4. pc' \in [Tasks -> PC] BY <1>4 DEF Code, Goto, PC
  <2>5. Held' BY <1>4 DEF Code, Goto, Held, Quiet
  <2> QED BY <1>4, <2>3, <2>4, <2>5 DEF Code
<1>5. CASE Push(t)
  <2>1. pc' \in [Tasks -> PC] BY <1>5 DEF Push, AttemptFails, Goto, PC
  <2>2. Held' BY <1>5 DEF Push, AttemptFails, Goto, Held, Quiet
  <2>3. local' \in [Tasks -> Commits] /\ remote' \in Commits
    BY <1>5, CommitFacts DEF Push, ForcePush, AttemptFails
  <2>4. /\ tries' \in [Tasks -> Nat] /\ \A u \in Tasks : tries'[u] <= MaxRetries[u]
        /\ lock' \in Tasks \cup {NoTask}
    BY <1>1, <1>5 DEF Push, AttemptFails
  <2>5. events' \in 0..MaxEvents /\ orphaned' \in SUBSET Tasks
    BY <1>5, SessionsAssumption DEF Push, Event
  <2> QED BY <1>5, <2>1, <2>2, <2>3, <2>4, <2>5 DEF Push
<1>6. CASE OpenPR(t)
  <2>1. pc' \in [Tasks -> PC] BY <1>6 DEF OpenPR, Goto, PC
  <2>2. Held' BY <1>6 DEF OpenPR, Goto, Held, Quiet
  <2> QED BY <1>6, <2>1, <2>2 DEF OpenPR
<1> QED BY <1>2, <1>3, <1>4, <1>5, <1>6

\* The reads of the row before a write, and the writes.
LEMMA TypesOfRead ==
  ASSUME Typed, NEW t \in Tasks, NEW from, NEW to \in PC, NEW skip, NEW next \in PC,
         ReadRow(t, from, to, skip, next), from \notin {"new", "done", "failed"}
  PROVE  Typed'
<1> USE DEF Typed, SessionsTypeOK, gitVars, gcVars, tally, setVars
<1>1. sid[t] \in Ids BY DEF Held, Quiet, ReadRow
<1>2. pc' \in [Tasks -> PC] BY DEF ReadRow, Goto
<1>3. copy' \in [Tasks -> Row] BY <1>1 DEF ReadRow
<1>4. Held' BY <1>1 DEF ReadRow, Goto, Held, Quiet
<1> QED BY <1>2, <1>3, <1>4 DEF ReadRow

LEMMA TypesOfWrite ==
  ASSUME Typed, NEW t \in Tasks, NEW from, NEW next \in PC, NEW row \in Row,
         WriteRow(t, from, next, row), from \notin {"new", "done", "failed"},
         lock' \in {lock, NoTask}
  PROVE  Typed'
<1> USE DEF Typed, SessionsTypeOK, gitVars, gcVars, tally, setVars
<1>1. sid[t] \in Ids BY DEF Held, Quiet, WriteRow
<1>2. sess' \in [Ids -> Row] /\ events' \in 0..MaxEvents /\ lost' \in BOOLEAN
  BY <1>1, WriteFacts DEF WriteRow
<1>3. pc' \in [Tasks -> PC] BY DEF WriteRow, Goto
<1>4. copy' \in [Tasks -> Row]
  <2>1. NewRow(CoderOf[t]) \in Row BY NewRowType, SessionsAssumption
  <2> QED BY <2>1 DEF WriteRow
<1>5. Held' BY <1>1 DEF WriteRow, Goto, Held, Quiet
<1> QED BY <1>2, <1>3, <1>4, <1>5 DEF WriteRow

LEMMA TypesOfDispatch ==
  ASSUME Typed, NEW t \in Tasks, Dispatch(t)
  PROVE  Typed'
<1> USE DEF Typed, SessionsTypeOK, gitVars, gcVars, tally, setVars
<1>1. PICK s \in Ids : GetOrCreate(t, s) /\ sid' = [sid EXCEPT ![t] = s]
  BY DEF Dispatch
<1>2. sess' \in [Ids -> Row]
  <2>1. NewRow(CoderOf[t]) \in Row BY NewRowType, SessionsAssumption
  <2> QED BY <1>1, <2>1 DEF GetOrCreate
<1>3. onBase' \in [Tasks -> BOOLEAN]
  <2>1. PICK r \in Ids, fromPR \in BOOLEAN :
           sid' = [sid EXCEPT ![t] = r]
           /\ onBase' = [onBase EXCEPT ![t] = fromPR \/ sess'[r].branch]
    BY DEF Dispatch
  <2>2. sess'[r].branch \in BOOLEAN BY <1>2, RowFields
  <2>3. (fromPR \/ sess'[r].branch) \in BOOLEAN BY <2>2
  <2> QED BY <2>1, <2>3
<1>4. pc' \in [Tasks -> PC] BY DEF Dispatch, Goto, PC
<1>5. Held' BY <1>1 DEF Dispatch, Goto, Held, Quiet
<1> QED BY <1>1, <1>2, <1>3, <1>4, <1>5 DEF Dispatch

LEMMA TypesOfRow ==
  ASSUME Typed, NEW t \in Tasks,
         \/ SaveBranchRead(t) \/ SaveBranch(t) \/ SaveHeadRead(t) \/ SaveHead(t)
         \/ CompleteRead(t) \/ Complete(t)
  PROVE  Typed'
<1>1. copy[t] \in Row /\ local[t] \in Commits BY DEF Typed, SessionsTypeOK
<1>2. /\ [copy[t] EXCEPT !.branch = TRUE] \in Row
      /\ [copy[t] EXCEPT !.status = "idle"] \in Row
  BY <1>1, RowFields DEF Statuses
<1>3. CASE SaveBranchRead(t)
  <2>1. "writeBranch" \in PC /\ "code" \in PC BY DEF PC
  <2> QED BY <1>3, <2>1, TypesOfRead DEF SaveBranchRead
<1>4. CASE SaveHeadRead(t)
  <2>1. "writeHead" \in PC /\ "open" \in PC BY DEF PC
  <2> QED BY <1>4, <2>1, TypesOfRead DEF SaveHeadRead
<1>5. CASE CompleteRead(t)
  <2>1. "writeComplete" \in PC /\ "done" \in PC BY DEF PC
  <2> QED BY <1>5, <2>1, TypesOfRead DEF CompleteRead
<1>6. CASE SaveBranch(t)
  <2>1. "code" \in PC BY DEF PC
  <2> QED BY <1>6, <1>2, <2>1, TypesOfWrite DEF SaveBranch
<1>7. CASE SaveHead(t)
  <2>1. "open" \in PC BY DEF PC
  <2>2. PICK head \in HeadSHA(t) :
           WriteRow(t, "writeHead", "open", [copy[t] EXCEPT !.branch = TRUE, !.head = head])
    BY <1>7 DEF SaveHead
  <2>3. head \in Commits BY DEF HeadSHA, Typed, SessionsTypeOK
  <2>4. [copy[t] EXCEPT !.branch = TRUE, !.head = head] \in Row BY <1>1, <2>3, RowFields
  <2>5. lock' = lock BY <1>7 DEF SaveHead
  <2> QED BY <2>1, <2>2, <2>4, <2>5, TypesOfWrite
<1>8. CASE Complete(t)
  <2>1. "done" \in PC BY DEF PC
  <2> QED BY <1>8, <1>2, <2>1, TypesOfWrite DEF Complete
<1> QED BY <1>3, <1>4, <1>5, <1>6, <1>7, <1>8

\* Archival, the cleanup loop and people: the tasks do not move.
LEMMA TypesOfArchive ==
  ASSUME Typed,
         \/ \E a \in Archivers, s \in Ids : ArchiveOne(a, s)
         \/ Close \/ \E linked \in BOOLEAN : Merge(linked)
         \/ TimerFires \/ Reset \/ Age
  PROVE  Typed'
<1> USE DEF Typed, SessionsTypeOK, taskVars, gitVars, gcVars, tally, setVars
<1>1. /\ \A a \in Archivers : [todo EXCEPT ![a] = {s \in Ids : Listed(s)}] \in [Archivers -> SUBSET Ids]
      /\ MaxEvents \in Nat
  BY SessionsAssumption
<1>2. ASSUME NEW a \in Archivers, NEW s \in Ids, ArchiveOne(a, s) PROVE Typed'
  <2>1. sess' \in [Ids -> Row]
    <3>1. /\ [sess[s] EXCEPT !.status = "archived"] \in Row
          /\ [[sess[s] EXCEPT !.status = "archived"] EXCEPT !.aged = FALSE] \in Row
      BY RowFields DEF Statuses
    <3> QED BY <1>2, <3>1 DEF ArchiveOne
  <2>5. UNCHANGED <<events, lost>> \/ (Event /\ lost' = TRUE)
    BY <1>2, Zenon DEF ArchiveOne, Refused
  <2>6. Event => events' \in 0..MaxEvents BY <1>1 DEF Event
  <2>2. events' \in 0..MaxEvents /\ lost' \in BOOLEAN
    <3>1. CASE UNCHANGED <<events, lost>> BY <3>1
    <3>2. CASE Event /\ lost' = TRUE BY <3>2, <2>6
    <3> QED BY <2>5, <3>1, <3>2
  <2>3. todo' \in [Archivers -> SUBSET Ids] BY <1>2 DEF ArchiveOne
  <2>4. Held' BY <1>2 DEF ArchiveOne, Held, Quiet
  <2> QED BY <1>2, <2>1, <2>2, <2>3, <2>4 DEF ArchiveOne
<1>3. CASE Close
  <2>1. Held' BY <1>3 DEF Close, Held, Quiet
  <2> QED BY <1>1, <1>3, <2>1 DEF Close, Event, List, Archivers
<1>4. ASSUME NEW linked \in BOOLEAN, Merge(linked) PROVE Typed'
  <2>1. Held' BY <1>4 DEF Merge, Held, Quiet
  <2>2. events' \in 0..MaxEvents /\ timer' \in BOOLEAN BY <1>1, <1>4 DEF Merge, Event
  <2>3. todo' \in [Archivers -> SUBSET Ids] BY <1>1, <1>4 DEF Merge, List, Archivers
  <2>4. {remote', main'} \subseteq Commits BY <1>4 DEF Merge
  <2> QED BY <1>4, <2>1, <2>2, <2>3, <2>4 DEF Merge
<1>5. CASE TimerFires
  <2>1. Held' BY <1>5 DEF TimerFires, Held, Quiet
  <2> QED BY <1>1, <1>5, <2>1 DEF TimerFires, List, Archivers
<1>6. CASE Reset
  <2>1. Held' BY <1>6 DEF Reset, Held, Quiet
  <2>2. disturbed' \in BOOLEAN BY <1>6 DEF Reset
  <2> QED BY <1>1, <1>6, <2>1, <2>2 DEF Reset, Event, List, Archivers
<1>7. CASE Age
  <2>1. \A s \in Ids : [sess[s] EXCEPT !.aged = (sess[s].aged \/ sess[s].status # "none")] \in Row
    <3> SUFFICES ASSUME NEW s \in Ids
                 PROVE  [sess[s] EXCEPT !.aged = (sess[s].aged \/ sess[s].status # "none")] \in Row
      OBVIOUS
    <3>1. (sess[s].aged \/ sess[s].status # "none") \in BOOLEAN BY RowFields
    <3>2. \A v \in BOOLEAN : [sess[s] EXCEPT !.aged = v] \in Row BY RowFields
    <3> QED BY <3>1, <3>2
  <2>2. sess' \in [Ids -> Row] BY <1>7, <2>1 DEF Age
  <2>3. Held' BY <1>7 DEF Age, Held, Quiet
  <2> QED BY <1>7, <2>2, <2>3 DEF Age
<1> QED BY <1>2, <1>3, <1>4, <1>5, <1>6, <1>7

LEMMA TypesOfLoop ==
  ASSUME Typed,
         \/ CleanupIdleSessions \/ CleanupArchivedWorkspaces \/ EnforceDiskLimit
         \/ \E s \in Ids : Reclaim(s)
         \/ People \/ Restart
  PROVE  Typed'
<1> USE DEF Typed, SessionsTypeOK, taskVars, gitVars, gcVars, tally, setVars
<1>1. CASE CleanupIdleSessions
  <2>1. Held' BY <1>1 DEF CleanupIdleSessions, Held, Quiet
  <2> QED BY <1>1, <2>1 DEF CleanupIdleSessions, IdleExpired, Archivers
<1>2. ASSUME NEW rows, SweepWorkspaces(rows) PROVE Typed'
  <2>1. stale' \in [Ids -> Row] BY <1>2, NoRowType DEF SweepWorkspaces
  <2>2. Held' BY <1>2 DEF SweepWorkspaces, Held, Quiet
  <2> QED BY <1>2, <2>1, <2>2 DEF SweepWorkspaces
<1>3. ASSUME NEW s \in Ids, Reclaim(s) PROVE Typed'
  <2>1. [stale[s] EXCEPT !.ws = FALSE] \in Row BY RowFields
  <2>2. sess' \in [Ids -> Row] /\ events' \in 0..MaxEvents /\ lost' \in BOOLEAN
    BY <1>3, <2>1, WriteFacts DEF Reclaim
  <2>3. stale' \in [Ids -> Row] BY <1>3, NoRowType DEF Reclaim
  <2>4. Held' BY <1>3 DEF Reclaim, Held, Quiet
  <2> QED BY <1>3, <2>2, <2>3, <2>4 DEF Reclaim
<1>4. CASE People
  <2>1. <<"person", 0>> \in Marks BY DEF Marks
  <2>2. remote' \in Commits BY <1>4, <2>1, CommitFacts DEF People
  <2>3. Held' BY <1>4 DEF People, Held, Quiet
  <2>4. events' \in 0..MaxEvents BY <1>4, SessionsAssumption DEF People, Event
  <2>5. pr' \in {"none", "open", "merged", "closed"} BY <1>4 DEF People
  <2> QED BY <1>4, <2>2, <2>3, <2>4, <2>5 DEF People
<1>5. CASE Restart
  <2>1. pc' \in [Tasks -> PC] BY <1>5 DEF Restart, PC
  <2>2. lock' \in Tasks \cup {NoTask} BY <1>5 DEF Restart
  <2>3. local' \in [Tasks -> Commits] BY <1>5, CommitFacts DEF Restart
  <2>4. copy' \in [Tasks -> Row]
    <3>1. \A t \in Tasks : NewRow(CoderOf[t]) \in Row BY NewRowType, SessionsAssumption
    <3> QED BY <1>5, <3>1 DEF Restart
  <2>5. stale' \in [Ids -> Row] BY <1>5, NoRowType DEF Restart
  <2>6. todo' \in [Archivers -> SUBSET Ids] /\ timer' \in BOOLEAN BY <1>5 DEF Restart
  <2>7. events' \in 0..MaxEvents /\ orphaned' \in SUBSET Tasks
    BY <1>5, SessionsAssumption DEF Restart, Event
  <2>8. Held' BY <1>5 DEF Restart, Held, Quiet
  <2> QED BY <1>5, <2>1, <2>2, <2>3, <2>4, <2>5, <2>6, <2>7, <2>8 DEF Restart
<1> QED BY <1>1, <1>2, <1>3, <1>4, <1>5 DEF CleanupArchivedWorkspaces, EnforceDiskLimit

LEMMA TypesNext == Typed /\ [SessionsNext]_sessionVars => Typed'
<1> SUFFICES ASSUME Typed, [SessionsNext]_sessionVars PROVE Typed'
  OBVIOUS
<1>1. CASE UNCHANGED sessionVars
  BY <1>1 DEF sessionVars, taskVars, gitVars, gcVars, tally, setVars, Typed, SessionsTypeOK, Held, Quiet
<1>2. ASSUME NEW t \in Tasks, TaskStep(t) PROVE Typed'
  BY <1>2, TypesOfTask, TypesOfRow, TypesOfDispatch DEF TaskStep
<1>3. ASSUME SessionsNext, ~ \E t \in Tasks : TaskStep(t) PROVE Typed'
  BY <1>3, TypesOfArchive, TypesOfLoop DEF SessionsNext, LoopStep, Archivers
<1> QED BY <1>1, <1>2, <1>3

(* Rows keep their shape: what a task, an archiver or a listing of the     *)
(* cleanup loop writes back is a row again, and nothing counts beyond its  *)
(* bound.                                                                  *)
THEOREM SessionsTypes == SessionsSpec => []SessionsTypeOK
<1>1. Typed => SessionsTypeOK BY DEF Typed
<1> QED BY <1>1, TypesInit, TypesNext, PTL DEF SessionsSpec

-----------------------------------------------------------------------------
(* One open session of a coder.  The archived session of a task is opened   *)
(* again by the task's own writes only, so what has to be shown is that no  *)
(* other session of the coder is open while a task is under way: the lock   *)
(* is the task's, and a new session was made only when none was open.       *)

SoleTask == ~disturbed => \A t \in Tasks : ~Quiet(t) => lock = t

OwnRow ==
  \A t \in Tasks :
    ~Quiet(t) => sess[sid[t]].status # "none" /\ sess[sid[t]].agent = CoderOf[t]

Writing == {"writeBranch", "writeHead", "writeComplete"}

CopyOwn ==
  \A t \in Tasks :
    pc[t] \in Writing => copy[t].agent = CoderOf[t] /\ copy[t].status # "none"

StaleArchived ==
  \A s \in Ids :
    stale[s].status # "none" =>
      /\ stale[s].status = "archived" /\ stale[s].agent = sess[s].agent
      /\ sess[s].status # "none"

TaskSession ==
  ~disturbed => \A t \in Tasks : ~Quiet(t) => OpenOf(CoderOf[t]) \subseteq {sid[t]}

SessInv ==
  Typed /\ SoleTask /\ OwnRow /\ CopyOwn /\ StaleArchived /\ TaskSession /\ OneOpenSession

\* What a step may do to the rows: nobody takes a row out of the table or gives
\* it to another coder, and only those in E may be opened.
RowsKept(E) ==
  /\ \A s \in Ids : sess[s].status # "none" =>
       sess'[s].status # "none" /\ sess'[s].agent = sess[s].agent
  /\ \A s \in Ids \ E : Listed(s)' => Listed(s) /\ sess'[s].agent = sess[s].agent

\* What it may do to the tasks: nobody starts, and the lock stays with the one
\* under way.
TasksKept ==
  /\ \A u \in Tasks : ~Quiet(u)' => ~Quiet(u) /\ sid'[u] = sid[u]
  /\ ~disturbed' => ~disturbed /\ \A u \in Tasks : ~Quiet(u)' => lock' = u

LEMMA InvInit == SessionsInit => SessInv
<1> SUFFICES ASSUME SessionsInit PROVE SessInv
  OBVIOUS
<1>1. /\ pc = [t \in Tasks |-> "new"] /\ stale = [s \in Ids |-> NoRow]
      /\ \A c \in Coders : \A r, s \in OpenOf(c) : r = s
  BY Zenon DEF SessionsInit
<1>2. NoRow.status = "none" BY DEF NoRow, NewRow
<1>3. StaleArchived BY <1>1, <1>2 DEF StaleArchived
<1>4. \A t \in Tasks : Quiet(t) /\ pc[t] \notin Writing BY <1>1 DEF Quiet, Writing
<1> QED BY <1>1, <1>3, <1>4, TypesInit
        DEF SessInv, SoleTask, OwnRow, CopyOwn, TaskSession, OneOpenSession

\* A step that keeps the rows, but for those of a task under way, and the tasks.
LEMMA Kept ==
  ASSUME SessInv, Typed', TasksKept,
         NEW E, E = {} \/ \E t \in Tasks : ~Quiet(t) /\ E = {sid[t]},
         RowsKept(E)
  PROVE  SoleTask' /\ OwnRow' /\ TaskSession' /\ OneOpenSession'
<1>1. SoleTask' BY DEF TasksKept, SoleTask
<1>2. OwnRow'
  <2> SUFFICES ASSUME NEW u \in Tasks, ~Quiet(u)'
               PROVE  sess'[sid'[u]].status # "none" /\ sess'[sid'[u]].agent = CoderOf[u]
    BY DEF OwnRow
  <2>1. ~Quiet(u) /\ sid'[u] = sid[u] BY DEF TasksKept
  <2>2. sid[u] \in Ids BY <2>1 DEF SessInv, Typed, Held
  <2>3. sess[sid[u]].status # "none" /\ sess[sid[u]].agent = CoderOf[u]
    BY <2>1 DEF SessInv, OwnRow
  <2> QED BY <2>1, <2>2, <2>3 DEF RowsKept
<1>3. TaskSession'
  <2> SUFFICES ASSUME ~disturbed', NEW u \in Tasks, ~Quiet(u)',
                      NEW s \in Ids, Listed(s)', sess'[s].agent = CoderOf[u]
               PROVE  s = sid'[u]
    BY DEF TaskSession, OpenOf
  <2>1. ~Quiet(u) /\ sid'[u] = sid[u] /\ ~disturbed BY DEF TasksKept
  <2>2. \A t \in Tasks : ~Quiet(t) => t = u BY <2>1 DEF SessInv, SoleTask
  <2>3. CASE s \in E BY <2>1, <2>2, <2>3
  <2>4. CASE s \notin E
    <3>1. Listed(s) /\ sess[s].agent = CoderOf[u] BY <2>4 DEF RowsKept
    <3>2. s \in OpenOf(CoderOf[u]) BY <3>1 DEF OpenOf
    <3> QED BY <2>1, <3>2 DEF SessInv, TaskSession
  <2> QED BY <2>3, <2>4
<1>4. OneOpenSession'
  <2> SUFFICES ASSUME ~disturbed', NEW c \in Coders,
                      NEW r \in Ids, Listed(r)', sess'[r].agent = c,
                      NEW s \in Ids, Listed(s)', sess'[s].agent = c
               PROVE  r = s
    BY DEF OneOpenSession, OpenOf
  <2>1. ~disturbed BY DEF TasksKept
  <2>2. \A x \in Ids \ E : Listed(x)' /\ sess'[x].agent = c => x \in OpenOf(c)
    BY DEF RowsKept, OpenOf
  <2>3. \A x, y \in OpenOf(c) : x = y BY <2>1 DEF SessInv, OneOpenSession
  <2>4. CASE r \notin E /\ s \notin E BY <2>2, <2>3, <2>4
  <2>5. ASSUME NEW t \in Tasks, ~Quiet(t), E = {sid[t]}, r \in E \/ s \in E PROVE r = s
    <3>1. sid[t] \in Ids BY <2>5 DEF SessInv, Typed, Held
    <3>2. sess'[sid[t]].agent = CoderOf[t]
      BY <2>5, <3>1 DEF SessInv, OwnRow, RowsKept
    <3>3. c = CoderOf[t] BY <2>5, <3>2
    <3>4. OpenOf(c) \subseteq {sid[t]} BY <2>1, <2>5, <3>3 DEF SessInv, TaskSession
    <3> QED BY <2>2, <2>5, <3>4
  <2> QED BY <2>4, <2>5
<1> QED BY <1>1, <1>2, <1>3, <1>4

\* The copies of rows that a step leaves alone.
LEMMA KeptCopies ==
  ASSUME SessInv, NEW E, RowsKept(E)
  PROVE  /\ (\A s \in Ids : stale'[s] \in {stale[s], NoRow}) => StaleArchived'
         /\ UNCHANGED <<pc, copy>> => CopyOwn'
<1>1. NoRow.status = "none" BY DEF NoRow, NewRow
<1>2. ASSUME \A s \in Ids : stale'[s] \in {stale[s], NoRow} PROVE StaleArchived'
  <2> SUFFICES ASSUME NEW s \in Ids, stale'[s].status # "none"
               PROVE  /\ stale'[s].status = "archived" /\ stale'[s].agent = sess'[s].agent
                      /\ sess'[s].status # "none"
    BY DEF StaleArchived
  <2>1. stale'[s] = stale[s] BY <1>1, <1>2
  <2> QED BY <2>1 DEF SessInv, StaleArchived, RowsKept
<1>3. ASSUME UNCHANGED <<pc, copy>> PROVE CopyOwn'
  BY <1>3 DEF SessInv, CopyOwn
<1> QED BY <1>2, <1>3

\* Tasks that stay where they are, under the same lock.
LEMMA StillKept ==
  ASSUME SessInv, UNCHANGED <<pc, sid>>, disturbed => disturbed',
         ~disturbed' => lock' = lock \/ lock = NoTask
  PROVE  TasksKept
BY SessionsAssumption DEF SessInv, Typed, SessionsTypeOK, SoleTask, TasksKept, Quiet

\* A task under way that goes on, or ends and lets the lock go.
LEMMA MoveKept ==
  ASSUME SessInv, NEW t \in Tasks, ~Quiet(t), NEW next \in PC, Goto(t, next),
         UNCHANGED <<sid, disturbed>>,
         lock' = lock \/ next \in {"done", "failed"}
  PROVE  TasksKept
<1>1. pc \in [Tasks -> PC] BY DEF SessInv, Typed, SessionsTypeOK
<1>2. \A u \in Tasks : ~Quiet(u)' => ~Quiet(u) BY <1>1 DEF Goto, Quiet
<1>3. ASSUME ~disturbed', NEW u \in Tasks, ~Quiet(u)' PROVE lock' = u
  <2>1. lock = t /\ lock = u BY <1>2, <1>3 DEF SessInv, SoleTask
  <2>2. next \notin {"done", "failed"} BY <1>1, <1>3, <2>1 DEF Goto, Quiet
  <2> QED BY <2>1, <2>2
<1> QED BY <1>2, <1>3 DEF TasksKept

LEMMA InvOfTask ==
  ASSUME SessInv, Typed', NEW t \in Tasks,
         \/ Fail(t) \/ Prepare(t) \/ Code(t) \/ Push(t) \/ OpenPR(t)
  PROVE  SessInv'
<1>1. /\ ~Quiet(t) /\ UNCHANGED <<sess, sid, copy, disturbed, stale>>
  BY DEF Fail, Prepare, Code, Push, OpenPR, Quiet, gcVars, tally, setVars
<1>2. PICK next \in PC \ Writing :
         Goto(t, next) /\ (lock' = lock \/ next \in {"done", "failed"})
  BY DEF Fail, AttemptFails, Prepare, Code, Push, OpenPR, PC, Writing
<1>3. TasksKept BY <1>1, <1>2, MoveKept
<1>4. RowsKept({}) BY <1>1 DEF RowsKept, Listed
<1>5. SoleTask' /\ OwnRow' /\ TaskSession' /\ OneOpenSession' BY <1>3, <1>4, Kept
<1>6. StaleArchived' BY <1>1, <1>4, KeptCopies
<1>7. CopyOwn'
  <2>1. pc \in [Tasks -> PC] BY DEF SessInv, Typed, SessionsTypeOK
  <2> QED BY <1>1, <1>2, <2>1 DEF SessInv, CopyOwn, Goto
<1> QED BY <1>5, <1>6, <1>7 DEF SessInv

LEMMA InvOfRead ==
  ASSUME SessInv, Typed', NEW t \in Tasks, NEW from, NEW to \in PC, NEW skip,
         NEW next \in PC \ Writing,
         ReadRow(t, from, to, skip, next), from \notin {"new", "done", "failed"}
  PROVE  SessInv'
<1>1. /\ ~Quiet(t) /\ UNCHANGED <<sess, sid, lock, disturbed, stale>>
  BY DEF ReadRow, Quiet, gcVars, tally, setVars
<1>2. pc \in [Tasks -> PC] /\ copy \in [Tasks -> Row]
  BY DEF SessInv, Typed, SessionsTypeOK
<1>3. TasksKept BY <1>1, MoveKept DEF ReadRow
<1>4. RowsKept({}) BY <1>1 DEF RowsKept, Listed
<1>5. SoleTask' /\ OwnRow' /\ TaskSession' /\ OneOpenSession' BY <1>3, <1>4, Kept
<1>6. StaleArchived' BY <1>1, <1>4, KeptCopies
<1>7. CopyOwn'
  <2> SUFFICES ASSUME NEW u \in Tasks, pc'[u] \in Writing
               PROVE  copy'[u].agent = CoderOf[u] /\ copy'[u].status # "none"
    BY DEF CopyOwn
  <2>1. CASE u # t
    BY <1>2, <2>1 DEF SessInv, CopyOwn, ReadRow, Goto
  <2>2. CASE u = t
    <3>1. ~skip BY <1>2, <2>2 DEF ReadRow, Goto
    <3>2. copy'[t] = sess[sid[t]] BY <1>2, <3>1 DEF ReadRow
    <3> QED BY <1>1, <2>2, <3>2 DEF SessInv, OwnRow
  <2> QED BY <2>1, <2>2
<1> QED BY <1>5, <1>6, <1>7 DEF SessInv

LEMMA InvOfWrite ==
  ASSUME SessInv, Typed', NEW t \in Tasks, NEW from \in Writing,
         NEW next \in PC \ Writing, NEW row \in Row, WriteRow(t, from, next, row),
         row.agent = copy[t].agent, row.status # "none",
         lock' = lock \/ next \in {"done", "failed"}
  PROVE  SessInv'
<1>1. /\ ~Quiet(t) /\ pc[t] = from /\ UNCHANGED <<sid, disturbed, stale>>
  BY DEF WriteRow, Quiet, gcVars, Writing
<1>2. pc \in [Tasks -> PC] /\ copy \in [Tasks -> Row] /\ SessionsTypeOK
  BY DEF SessInv, Typed, SessionsTypeOK
<1>3. TasksKept BY <1>1, MoveKept DEF WriteRow
<1>4. sid[t] \in Ids BY <1>1 DEF SessInv, Typed, Held
<1>5. /\ \A r \in Ids \ {sid[t]} : sess'[r] = sess[r]
      /\ \/ sess'[sid[t]] = sess[sid[t]]
         \/ sess'[sid[t]].status = row.status /\ sess'[sid[t]].agent = row.agent
  BY <1>2, <1>4, WriteFacts DEF WriteRow
<1>6. RowsKept({sid[t]})
  <2>1. row.agent = CoderOf[t] BY <1>1 DEF SessInv, CopyOwn
  <2>2. sess[sid[t]].agent = CoderOf[t] BY <1>1 DEF SessInv, OwnRow
  <2> QED BY <1>5, <2>1, <2>2 DEF RowsKept, Listed
<1>7. SoleTask' /\ OwnRow' /\ TaskSession' /\ OneOpenSession'
  BY <1>1, <1>3, <1>6, Kept
<1>8. StaleArchived' BY <1>1, <1>6, KeptCopies
<1>9. CopyOwn' BY <1>2 DEF SessInv, CopyOwn, WriteRow, Goto
<1> QED BY <1>7, <1>8, <1>9 DEF SessInv

LEMMA InvOfRow ==
  ASSUME SessInv, Typed', NEW t \in Tasks,
         \/ SaveBranchRead(t) \/ SaveBranch(t) \/ SaveHeadRead(t) \/ SaveHead(t)
         \/ CompleteRead(t) \/ Complete(t)
  PROVE  SessInv'
<1>1. copy[t] \in Row /\ local[t] \in Commits BY DEF SessInv, Typed, SessionsTypeOK
<1>2. /\ [copy[t] EXCEPT !.branch = TRUE] \in Row
      /\ [copy[t] EXCEPT !.status = "idle"] \in Row
  BY <1>1, RowFields DEF Statuses
<1>3. /\ {"writeBranch", "writeHead", "writeComplete"} \subseteq PC
      /\ {"code", "open", "done"} \subseteq PC \ Writing
  BY DEF PC, Writing
<1>4. pc[t] \in Writing => copy[t].agent = CoderOf[t] /\ copy[t].status # "none"
  BY DEF SessInv, CopyOwn
<1>5. CASE SaveBranchRead(t) BY <1>3, <1>5, InvOfRead DEF SaveBranchRead
<1>6. CASE SaveHeadRead(t) BY <1>3, <1>6, InvOfRead DEF SaveHeadRead
<1>7. CASE CompleteRead(t) BY <1>3, <1>7, InvOfRead DEF CompleteRead
<1>8. CASE SaveBranch(t)
  <2> DEFINE row == [copy[t] EXCEPT !.branch = TRUE]
  <2>1. row.agent = copy[t].agent /\ row.status = copy[t].status BY <1>1 DEF Row
  <2>2. "writeBranch" \in Writing /\ pc[t] = "writeBranch"
    BY <1>8 DEF SaveBranch, WriteRow, Writing
  <2>3. WriteRow(t, "writeBranch", "code", row) /\ lock' = lock BY <1>8 DEF SaveBranch
  <2>4. row \in Row /\ row.agent = copy[t].agent /\ row.status # "none"
    BY <1>2, <1>4, <2>1, <2>2
  <2> HIDE DEF row
  <2> QED BY <1>3, <2>2, <2>3, <2>4, InvOfWrite
<1>9. CASE SaveHead(t)
  <2>0. PICK head \in HeadSHA(t) :
           WriteRow(t, "writeHead", "open", [copy[t] EXCEPT !.branch = TRUE, !.head = head])
    BY <1>9 DEF SaveHead
  <2>5. head \in Commits BY DEF HeadSHA, SessInv, Typed, SessionsTypeOK
  <2> DEFINE row == [copy[t] EXCEPT !.branch = TRUE, !.head = head]
  <2>1. row.agent = copy[t].agent /\ row.status = copy[t].status BY <1>1 DEF Row
  <2>2. "writeHead" \in Writing /\ pc[t] = "writeHead"
    BY <1>9 DEF SaveHead, WriteRow, Writing
  <2>3. WriteRow(t, "writeHead", "open", row) /\ lock' = lock BY <1>9, <2>0 DEF SaveHead
  <2>6. row \in Row BY <1>1, <2>5, RowFields
  <2>4. row \in Row /\ row.agent = copy[t].agent /\ row.status # "none"
    BY <1>4, <2>1, <2>2, <2>6
  <2> HIDE DEF row
  <2> QED BY <1>3, <2>2, <2>3, <2>4, InvOfWrite
<1>10. CASE Complete(t)
  <2> DEFINE row == [copy[t] EXCEPT !.status = "idle"]
  <2>1. row.agent = copy[t].agent /\ row.status # "none" BY <1>1 DEF Row
  <2>2. "writeComplete" \in Writing BY DEF Writing
  <2>3. WriteRow(t, "writeComplete", "done", row) BY <1>10 DEF Complete
  <2>4. row \in Row BY <1>2
  <2> HIDE DEF row
  <2> QED BY <1>3, <2>1, <2>2, <2>3, <2>4, InvOfWrite
<1> QED BY <1>5, <1>6, <1>7, <1>8, <1>9, <1>10

LEMMA InvOfDispatch ==
  ASSUME SessInv, Typed', NEW t \in Tasks, Dispatch(t)
  PROVE  SessInv'
<1>1. PICK s \in Ids : GetOrCreate(t, s) /\ sid' = [sid EXCEPT ![t] = s]
  BY DEF Dispatch
<1>2. /\ pc' = [pc EXCEPT ![t] = "prepare"] /\ lock = NoTask /\ lock' = t
      /\ UNCHANGED <<copy, stale, disturbed>>
  BY DEF Dispatch, Goto, gcVars, tally, setVars
<1>3. pc \in [Tasks -> PC] /\ sid \in [Tasks -> Ids \cup {NoId}] /\ sess \in [Ids -> Row]
  BY DEF SessInv, Typed, SessionsTypeOK
<1>4. ~disturbed => \A u \in Tasks : Quiet(u)
  BY <1>2, SessionsAssumption DEF SessInv, SoleTask
<1>5. \A u \in Tasks \ {t} : Quiet(u)' = Quiet(u) /\ sid'[u] = sid[u]
  BY <1>1, <1>2, <1>3 DEF Quiet
<1>6. /\ \A r \in Ids : sess[r].status # "none" => sess'[r] = sess[r]
      /\ sess'[s].status # "none" /\ sess'[s].agent = CoderOf[t]
      /\ \A r \in Ids \ {s} : sess'[r] = sess[r]
  BY <1>1, <1>3 DEF GetOrCreate, OpenOf, Listed, NewRow
<1>7. sid'[t] = s BY <1>1, <1>3
<1>8. ~disturbed => OpenOf(CoderOf[t])' \subseteq {s}
  <2>1. CASE s \in OpenOf(CoderOf[t]) /\ UNCHANGED sess
    <3>1. CoderOf[t] \in Coders BY SessionsAssumption
    <3>2. OpenOf(CoderOf[t])' = OpenOf(CoderOf[t]) BY <2>1 DEF OpenOf, Listed
    <3> QED BY <2>1, <3>1, <3>2 DEF SessInv, OneOpenSession
  <2>2. CASE OpenOf(CoderOf[t]) = {} BY <1>6, <2>2 DEF OpenOf, Listed
  <2> QED BY <1>1, <2>1, <2>2 DEF GetOrCreate
<1>9. SoleTask' BY <1>2, <1>4, <1>5 DEF SoleTask
<1>10. OwnRow'
  <2> SUFFICES ASSUME NEW u \in Tasks, ~Quiet(u)'
               PROVE  sess'[sid'[u]].status # "none" /\ sess'[sid'[u]].agent = CoderOf[u]
    BY DEF OwnRow
  <2>1. CASE u = t BY <1>6, <1>7, <2>1
  <2>2. CASE u # t
    <3>1. ~Quiet(u) /\ sid'[u] = sid[u] BY <1>5, <2>2
    <3>2. sid[u] \in Ids BY <3>1 DEF SessInv, Typed, Held
    <3>3. sess[sid[u]].status # "none" /\ sess[sid[u]].agent = CoderOf[u]
      BY <3>1 DEF SessInv, OwnRow
    <3> QED BY <1>6, <3>1, <3>2, <3>3
  <2> QED BY <2>1, <2>2
<1>11. CopyOwn' BY <1>2, <1>3 DEF SessInv, CopyOwn, Writing
<1>12. StaleArchived' BY <1>2, <1>6 DEF SessInv, StaleArchived
<1>13. TaskSession' BY <1>2, <1>4, <1>5, <1>7, <1>8 DEF TaskSession
<1>14. OneOpenSession'
  <2> SUFFICES ASSUME ~disturbed, NEW c \in Coders,
                      NEW x \in OpenOf(c)', NEW y \in OpenOf(c)'
               PROVE  x = y
    BY <1>2 DEF OneOpenSession
  <2>1. CASE c = CoderOf[t] BY <1>8, <2>1
  <2>2. CASE c # CoderOf[t]
    <3>1. x # s /\ y # s BY <1>6, <2>2 DEF OpenOf
    <3>2. x \in OpenOf(c) /\ y \in OpenOf(c) BY <1>6, <3>1 DEF OpenOf, Listed
    <3> QED BY <3>2 DEF SessInv, OneOpenSession
  <2> QED BY <2>1, <2>2
<1> QED BY <1>9, <1>10, <1>11, <1>12, <1>13, <1>14 DEF SessInv

\* A restart ends the tasks that run and leaves one that waits.
LEMMA InvOfRestart ==
  ASSUME SessInv, Typed', Restart
  PROVE  SessInv'
<1>1. PICK waiting \in SUBSET {t \in Tasks : pc[t] = "prepare" /\ tries[t] = 0} :
         /\ pc' = [t \in Tasks |-> IF Quiet(t) \/ t \in waiting THEN pc[t] ELSE "failed"]
         /\ lock' = IF lock \in waiting THEN lock ELSE NoTask
  BY DEF Restart
<1>2. UNCHANGED <<sess, sid, disturbed>> /\ stale' = [s \in Ids |-> NoRow] BY DEF Restart
<1>3. \A u \in Tasks : /\ ~Quiet(u)' => ~Quiet(u) /\ u \in waiting
                       /\ pc'[u] \notin Writing
  BY <1>1 DEF Quiet, Writing
<1>4. TasksKept
  <2>1. ASSUME ~disturbed, NEW u \in Tasks, ~Quiet(u)' PROVE lock' = u
    <3>1. ~Quiet(u) /\ u \in waiting BY <1>3, <2>1
    <3>2. lock = u BY <2>1, <3>1 DEF SessInv, SoleTask
    <3> QED BY <1>1, <3>1, <3>2
  <2> QED BY <1>2, <1>3, <2>1 DEF TasksKept
<1>5. RowsKept({}) BY <1>2 DEF RowsKept, Listed
<1>6. SoleTask' /\ OwnRow' /\ TaskSession' /\ OneOpenSession' BY <1>4, <1>5, Kept
<1>7. StaleArchived' BY <1>2, <1>5, KeptCopies
<1>8. CopyOwn' BY <1>3 DEF CopyOwn
<1> QED BY <1>6, <1>7, <1>8 DEF SessInv

\* Everything that leaves the tasks where they are.
LEMMA InvOfOthers ==
  ASSUME SessInv, Typed',
         \/ \E a \in Archivers, s \in Ids : ArchiveOne(a, s)
         \/ Close \/ \E linked \in BOOLEAN : Merge(linked)
         \/ TimerFires \/ Reset \/ Age \/ People
         \/ CleanupIdleSessions \/ CleanupArchivedWorkspaces \/ EnforceDiskLimit
         \/ \E s \in Ids : Reclaim(s)
  PROVE  SessInv'
<1> DEFINE Still == /\ UNCHANGED <<pc, sid, copy>>
                    /\ disturbed => disturbed'
                    /\ ~disturbed' => lock' = lock \/ lock = NoTask
           Rows  == /\ RowsKept({})
                    /\ (\A s \in Ids : stale'[s] \in {stale[s], NoRow}) \/ StaleArchived'
<1>1. Still
  <2>1. ASSUME UNCHANGED <<taskVars, lock, disturbed>> PROVE Still
    BY <2>1 DEF taskVars
  <2>2. CASE Reset BY <2>2 DEF Reset, taskVars
  <2>3. CASE \/ \E a \in Archivers, s \in Ids : ArchiveOne(a, s)
             \/ Close \/ \E linked \in BOOLEAN : Merge(linked)
             \/ TimerFires \/ Age \/ People
             \/ CleanupIdleSessions \/ CleanupArchivedWorkspaces \/ EnforceDiskLimit
             \/ \E s \in Ids : Reclaim(s)
    <3>1. UNCHANGED <<taskVars, lock, disturbed>>
      BY <2>3, Zenon
         DEF ArchiveOne, Close, Merge, TimerFires, Age, People, CleanupIdleSessions,
             CleanupArchivedWorkspaces, EnforceDiskLimit, SweepWorkspaces, Reclaim, tally, setVars
    <3> QED BY <2>1, <3>1
  <2> QED BY <2>2, <2>3
<1>2. sess \in [Ids -> Row] /\ stale \in [Ids -> Row] /\ SessionsTypeOK
  BY DEF SessInv, Typed, SessionsTypeOK
<1>3. Rows
  <2>1. ASSUME UNCHANGED <<sess, stale>> PROVE Rows
    BY <2>1 DEF RowsKept, Listed
  <2>2. ASSUME NEW a \in Archivers, NEW s \in Ids, ArchiveOne(a, s) PROVE Rows
    <3>1. UNCHANGED stale BY <2>2 DEF ArchiveOne
    <3>2. /\ \A r \in Ids \ {s} : sess'[r] = sess[r]
          /\ \/ sess'[s] = sess[s]
             \/ sess'[s].agent = sess[s].agent /\ sess'[s].status = "archived"
      <4>1. CASE sess' = [sess EXCEPT ![s].status = "archived", ![s].aged = FALSE]
        <5>1. sess[s] \in Row BY <1>2
        <5>2. sess'[s] = [[sess[s] EXCEPT !.status = "archived"] EXCEPT !.aged = FALSE]
          BY <1>2, <4>1
        <5>3. sess'[s].agent = sess[s].agent /\ sess'[s].status = "archived"
          BY <5>1, <5>2 DEF Row
        <5> QED BY <1>2, <4>1, <5>3
      <4>2. CASE UNCHANGED sess BY <4>2
      <4> QED BY <2>2, <4>1, <4>2 DEF ArchiveOne
    <3> QED BY <3>1, <3>2 DEF RowsKept, Listed
  <2>3. ASSUME NEW s \in Ids, Reclaim(s) PROVE Rows
    <3> DEFINE row == [stale[s] EXCEPT !.ws = FALSE]
    <3>1. \A r \in Ids : stale'[r] \in {stale[r], NoRow} BY <1>2, <2>3 DEF Reclaim
    <3>2. row \in Row /\ row.status = stale[s].status /\ row.agent = stale[s].agent
      <4>1. stale[s] \in Row BY <1>2
      <4>2. row \in Row BY <4>1, RowFields
      <4>3. row.status = stale[s].status /\ row.agent = stale[s].agent BY <4>1 DEF Row
      <4> QED BY <4>2, <4>3
    <3>3. /\ stale[s].status = "archived" /\ stale[s].agent = sess[s].agent
      BY <2>3 DEF SessInv, StaleArchived, Reclaim
    <3>4. Write(s, row) BY <2>3 DEF Reclaim
    <3> HIDE DEF row
    <3>5. /\ \A r \in Ids \ {s} : sess'[r] = sess[r]
          /\ \/ sess'[s] = sess[s]
             \/ sess'[s].status = row.status /\ sess'[s].agent = row.agent
      BY <1>2, <3>2, <3>4, WriteFacts
    <3> QED BY <3>1, <3>2, <3>3, <3>5 DEF RowsKept, Listed
  <2>4. CASE Age
    <3>1. \A s \in Ids : sess'[s].status = sess[s].status /\ sess'[s].agent = sess[s].agent
      BY <1>2, <2>4 DEF Age, Row
    <3>2. UNCHANGED stale BY <2>4 DEF Age, gcVars
    <3> QED BY <3>1, <3>2 DEF RowsKept, Listed
  <2>5. ASSUME NEW rows, SweepWorkspaces(rows), \A s \in rows : sess[s].status = "archived"
        PROVE  Rows
    <3>1. NoRow.status = "none" BY DEF NoRow, NewRow
    <3>2. StaleArchived' BY <1>2, <2>5, <3>1 DEF SweepWorkspaces, StaleArchived
    <3> QED BY <2>5, <3>2 DEF SweepWorkspaces, RowsKept, Listed
  <2>6. CASE CleanupArchivedWorkspaces \/ EnforceDiskLimit
    <3>1. PICK rows : SweepWorkspaces(rows) /\ \A s \in rows : sess[s].status = "archived"
      BY <2>6 DEF CleanupArchivedWorkspaces, EnforceDiskLimit, Reclaimable
    <3> QED BY <2>5, <3>1
  <2>7. CASE \/ Close \/ \E linked \in BOOLEAN : Merge(linked)
             \/ TimerFires \/ Reset \/ People \/ CleanupIdleSessions
    <3>1. UNCHANGED <<sess, stale>>
      BY <2>7 DEF Close, Merge, TimerFires, Reset, People, CleanupIdleSessions, gcVars
    <3> QED BY <2>1, <3>1
  <2> QED BY <2>2, <2>3, <2>4, <2>6, <2>7
<1>4. TasksKept BY <1>1, StillKept
<1>5. SoleTask' /\ OwnRow' /\ TaskSession' /\ OneOpenSession' BY <1>3, <1>4, Kept
<1>6. CopyOwn' /\ StaleArchived' BY <1>1, <1>3, KeptCopies
<1> QED BY <1>5, <1>6 DEF SessInv

LEMMA InvNext == SessInv /\ [SessionsNext]_sessionVars => SessInv'
<1> SUFFICES ASSUME SessInv, [SessionsNext]_sessionVars PROVE SessInv'
  OBVIOUS
<1>1. Typed' BY TypesNext DEF SessInv
<1>2. CASE UNCHANGED sessionVars
  <2>1. UNCHANGED <<sess, pc, sid, copy, lock, stale, disturbed>>
    BY <1>2 DEF sessionVars, taskVars, gcVars, tally, setVars
  <2> QED BY <1>1, <2>1
          DEF SessInv, SoleTask, OwnRow, CopyOwn, StaleArchived, TaskSession,
              OneOpenSession, OpenOf, Listed, Quiet
<1>3. ASSUME NEW t \in Tasks, TaskStep(t) PROVE SessInv'
  BY <1>1, <1>3, InvOfTask, InvOfRow, InvOfDispatch DEF TaskStep
<1>4. ASSUME SessionsNext, ~ \E t \in Tasks : TaskStep(t) PROVE SessInv'
  BY <1>1, <1>4, InvOfOthers, InvOfRestart DEF SessionsNext, LoopStep, Archivers
<1> QED BY <1>2, <1>3, <1>4

(* While no reset takes the lock of a live task, a coder never has two      *)
(* sessions open on the issue, whatever was archived, opened again, lost or *)
(* written back late in between.                                            *)
THEOREM OneSession == SessionsSpec => []OneOpenSession
<1>1. SessInv => OneOpenSession BY DEF SessInv
<1> QED BY <1>1, InvInit, InvNext, PTL DEF SessionsSpec

-----------------------------------------------------------------------------
(* Histories.  The tips of a task in a history are the commits of the task  *)
(* that lie on it, each with all that is below it.                          *)

LEMMA PrefixMeaning ==
  ASSUME NEW a \in Commits, NEW b \in Commits
  PROVE  IsPrefix(a, b) <=> Len(a) <= Len(b) /\ \A i \in 1..Len(a) : a[i] = b[i]
<1>1. /\ Len(a) \in Nat /\ Len(b) \in Nat
      /\ \A i \in 1..Len(a) : a[i] \in Marks
      /\ \A i \in 1..Len(b) : b[i] \in Marks
  BY LenProperties, ElementOfSeq DEF Commits
<1>2. SubSeq(a, 1, Len(a)) \in Seq(Marks) /\ Len(SubSeq(a, 1, Len(a))) = Len(a)
  BY <1>1, SubSeqProperties
<1>3. \A i \in 1..Len(a) : SubSeq(a, 1, Len(a))[i] = a[i]
  BY <1>1, SubSeqProperties
<1>4. ASSUME Len(a) <= Len(b)
      PROVE  /\ SubSeq(b, 1, Len(a)) \in Seq(Marks) /\ Len(SubSeq(b, 1, Len(a))) = Len(a)
             /\ \A i \in 1..Len(a) : SubSeq(b, 1, Len(a))[i] = b[i]
  <2>1. \A i \in 1..Len(a) : b[i] \in Marks BY <1>1, <1>4
  <2> QED BY <1>1, <2>1, SubSeqProperties
<1>5. ASSUME Len(a) <= Len(b), \A i \in 1..Len(a) : a[i] = b[i] PROVE IsPrefix(a, b)
  <2>1. SubSeq(a, 1, Len(a)) = SubSeq(b, 1, Len(a)) BY <1>2, <1>3, <1>4, <1>5, SeqEqual
  <2> QED BY <1>5, <2>1 DEF IsPrefix
<1>6. ASSUME IsPrefix(a, b) PROVE Len(a) <= Len(b) /\ \A i \in 1..Len(a) : a[i] = b[i]
  <2>1. Len(a) <= Len(b) /\ SubSeq(a, 1, Len(a)) = SubSeq(b, 1, Len(a))
    BY <1>6 DEF IsPrefix
  <2> QED BY <1>3, <1>4, <2>1
<1> QED BY <1>5, <1>6

LEMMA PrefixOrder ==
  /\ \A a \in Commits : IsPrefix(a, a) /\ IsPrefix(NoCommit, a)
  /\ \A a \in Commits : IsPrefix(a, NoCommit) => a = NoCommit
  /\ \A a, b, c \in Commits : IsPrefix(a, b) /\ IsPrefix(b, c) => IsPrefix(a, c)
<1>1. NoCommit \in Commits /\ Len(NoCommit) = 0 /\ \A a \in Commits : Len(a) \in Nat
  BY CommitFacts, LenProperties DEF NoCommit, Commits
<1>2. \A a \in Commits : IsPrefix(a, a) /\ IsPrefix(NoCommit, a)
  BY <1>1, PrefixMeaning
<1>3. \A a \in Commits : IsPrefix(a, NoCommit) => a = NoCommit
  <2> SUFFICES ASSUME NEW a \in Commits, IsPrefix(a, NoCommit) PROVE a = NoCommit
    OBVIOUS
  <2>1. Len(a) = 0 BY <1>1, PrefixMeaning
  <2> QED BY <2>1, EmptySeq DEF Commits, NoCommit
<1>4. \A a, b, c \in Commits : IsPrefix(a, b) /\ IsPrefix(b, c) => IsPrefix(a, c)
  <2> SUFFICES ASSUME NEW a \in Commits, NEW b \in Commits, NEW c \in Commits,
                      IsPrefix(a, b), IsPrefix(b, c)
               PROVE  IsPrefix(a, c)
    OBVIOUS
  <2>1. Len(a) <= Len(b) /\ \A i \in 1..Len(a) : a[i] = b[i] BY PrefixMeaning
  <2>2. Len(b) <= Len(c) /\ \A i \in 1..Len(b) : b[i] = c[i] BY PrefixMeaning
  <2>3. Len(a) <= Len(c) /\ \A i \in 1..Len(a) : a[i] = c[i] BY <1>1, <2>1, <2>2
  <2> QED BY <2>3, PrefixMeaning
<1> QED BY <1>2, <1>3, <1>4

LEMMA Appended ==
  ASSUME NEW b \in Commits, NEW m \in Marks
  PROVE  /\ Append(b, m) \in Commits /\ Append(b, m) # NoCommit
         /\ Last(Append(b, m)) = m
         /\ IsPrefix(b, Append(b, m))
         /\ \A a \in Commits : IsPrefix(a, Append(b, m)) => a = Append(b, m) \/ IsPrefix(a, b)
<1> DEFINE d == Append(b, m)
<1>1. /\ d \in Commits /\ d # NoCommit /\ Len(d) = Len(b) + 1 /\ Len(b) \in Nat
      /\ \A i \in 1..Len(b) : d[i] = b[i]
      /\ d[Len(b) + 1] = m
  BY AppendProperties, LenProperties DEF Commits, NoCommit
<1> HIDE DEF d
<1>2. Last(d) = m BY <1>1 DEF Last
<1>3. IsPrefix(b, d) BY <1>1, PrefixMeaning
<1>4. ASSUME NEW a \in Commits, IsPrefix(a, d) PROVE a = d \/ IsPrefix(a, b)
  <2>1. Len(a) \in Nat BY LenProperties DEF Commits
  <2>2. Len(a) <= Len(d) /\ \A i \in 1..Len(a) : a[i] = d[i] BY <1>1, <1>4, PrefixMeaning
  <2>3. CASE Len(a) = Len(d) BY <1>1, <2>2, <2>3, SeqEqual DEF Commits
  <2>4. CASE Len(a) # Len(d)
    <3>1. Len(a) <= Len(b) /\ \A i \in 1..Len(a) : a[i] = b[i] BY <1>1, <2>1, <2>2, <2>4
    <3> QED BY <3>1, PrefixMeaning
  <2> QED BY <2>3, <2>4
<1> QED BY <1>1, <1>2, <1>3, <1>4 DEF d

LEMMA FrontPrefix ==
  ASSUME NEW b \in Commits, b # NoCommit
  PROVE  Front(b) \in Commits /\ IsPrefix(Front(b), b)
<1>1. Len(b) \in Nat \ {0} /\ \A i \in 1..(Len(b) - 1) : b[i] \in Marks
  BY EmptySeq, LenProperties, ElementOfSeq DEF Commits, NoCommit
<1>2. /\ Len(SubSeq(b, 1, Len(b) - 1)) = Len(b) - 1
      /\ \A i \in 1..(Len(b) - 1) : SubSeq(b, 1, Len(b) - 1)[i] = b[i]
      /\ SubSeq(b, 1, Len(b) - 1) \in Seq(Marks)
  <2> DEFINE n == Len(b) - 1
  <2>1. n \in Nat /\ \A i \in 1..n : b[i] \in Marks BY <1>1
  <2> HIDE DEF n
  <2>2. /\ SubSeq(b, 1, n) \in Seq(Marks)
        /\ Len(SubSeq(b, 1, n)) = IF 1 <= n THEN n - 1 + 1 ELSE 0
        /\ \A i \in 1..(n - 1 + 1) : SubSeq(b, 1, n)[i] = b[1 + i - 1]
    BY <2>1, SubSeqProperties
  <2>3. Len(SubSeq(b, 1, n)) = n BY <2>1, <2>2
  <2>4. \A i \in 1..n : SubSeq(b, 1, n)[i] = b[i] BY <2>1, <2>2
  <2> QED BY <2>2, <2>3, <2>4 DEF n
<1>3. /\ Front(b) \in Commits /\ Len(Front(b)) <= Len(b)
      /\ \A i \in 1..Len(Front(b)) : Front(b)[i] = b[i]
  BY <1>1, <1>2 DEF Front, Commits
<1> QED BY <1>3, PrefixMeaning

LEMMA KeptPrefix ==
  ASSUME NEW b \in Commits, NEW n \in 1..Len(b)
  PROVE  SubSeq(b, 1, n) \in Commits /\ IsPrefix(SubSeq(b, 1, n), b)
<1>1. Len(b) \in Nat /\ \A i \in 1..Len(b) : b[i] \in Marks
  BY LenProperties, ElementOfSeq DEF Commits
<1> DEFINE k == SubSeq(b, 1, n)
<1>2. k \in Seq(Marks) /\ Len(k) = n /\ \A j \in 1..n : k[j] = b[j]
  BY <1>1, SubSeqProperties
<1> HIDE DEF k
<1>3. k \in Commits BY <1>2 DEF Commits
<1>4. IsPrefix(k, b) BY <1>1, <1>2, <1>3, PrefixMeaning
<1> QED BY <1>3, <1>4 DEF k

Tips(t, c) == {p \in Commits : p # NoCommit /\ IsPrefix(p, c) /\ Last(p)[1] = t}

LEMMA TipFacts ==
  /\ \A t : Tips(t, NoCommit) = {}
  /\ \A t : \A b, c \in Commits : IsPrefix(b, c) => Tips(t, b) \subseteq Tips(t, c)
  /\ \A t : \A b \in Commits, m \in Marks :
       Tips(t, Append(b, m)) \subseteq
         Tips(t, b) \cup (IF m[1] = t THEN {Append(b, m)} ELSE {})
<1>1. \A t : Tips(t, NoCommit) = {} BY PrefixOrder DEF Tips
<1>2. \A t : \A b, c \in Commits : IsPrefix(b, c) => Tips(t, b) \subseteq Tips(t, c)
  BY PrefixOrder DEF Tips
<1>3. ASSUME NEW t, NEW b \in Commits, NEW m \in Marks, NEW p \in Tips(t, Append(b, m)),
             p \notin Tips(t, b)
      PROVE  m[1] = t /\ p = Append(b, m)
  <2>1. p \in Commits /\ p # NoCommit /\ IsPrefix(p, Append(b, m)) /\ Last(p)[1] = t
    BY <1>3 DEF Tips
  <2>2. ~ IsPrefix(p, b) BY <1>3, <2>1 DEF Tips
  <2>3. p = Append(b, m) BY <2>1, <2>2, Appended
  <2> QED BY <2>1, <2>3, Appended
<1> QED BY <1>1, <1>2, <1>3

\* The marks of a history are those of its tips.
LEMMA TipMarks ==
  ASSUME NEW c \in Commits
  PROVE  /\ \A t : \A p \in Tips(t, c) : Last(p) \in Range(c)
         /\ \A m \in Range(c) : \E p \in Tips(m[1], c) : Last(p) = m
<1>1. Len(c) \in Nat /\ DOMAIN c = 1..Len(c) /\ \A i \in 1..Len(c) : c[i] \in Marks
  BY LenProperties, ElementOfSeq DEF Commits
<1>2. ASSUME NEW t, NEW p \in Tips(t, c) PROVE Last(p) \in Range(c)
  <2>1. p \in Commits /\ p # NoCommit /\ IsPrefix(p, c) BY DEF Tips
  <2>2. Len(p) \in Nat \ {0} BY <2>1, EmptySeq DEF Commits, NoCommit
  <2>3. Len(p) <= Len(c) /\ p[Len(p)] = c[Len(p)] BY <2>1, <2>2, PrefixMeaning
  <2> QED BY <1>1, <2>2, <2>3 DEF Last, Range
<1>3. ASSUME NEW m \in Range(c) PROVE \E p \in Tips(m[1], c) : Last(p) = m
  <2>1. PICK i \in 1..Len(c) : c[i] = m BY <1>1 DEF Range
  <2> DEFINE p == SubSeq(c, 1, i)
  <2>2. /\ p \in Seq(Marks) /\ Len(p) = i /\ \A j \in 1..i : p[j] = c[j]
    BY <1>1, <2>1, SubSeqProperties
  <2> HIDE DEF p
  <2>3. p \in Commits BY <2>2 DEF Commits
  <2>4. Last(p) = m /\ p # NoCommit
    BY <2>1, <2>2, EmptySeq DEF Last, NoCommit
  <2>5. IsPrefix(p, c) BY <1>1, <2>1, <2>2, <2>3, PrefixMeaning
  <2>6. p \in Tips(m[1], c) BY <2>3, <2>4, <2>5 DEF Tips
  <2> QED BY <2>4, <2>6
<1> QED BY <1>2, <1>3

-----------------------------------------------------------------------------
(* Work is kept.  Where the commits of the tasks of a session may be: what  *)
(* is on the branch is merged, under the recorded head of its session, or   *)
(* just pushed by the task that is about to record it; what a clone holds   *)
(* of other tasks is safe in the same way, and holds all that the branch    *)
(* has of its own session.                                                  *)

Working(t) == pc[t] \in {"saveBranch", "writeBranch", "code", "push"}
Saving(t)  == pc[t] \in {"saveHead", "writeHead"}
Modern(t)  == sid[t] \in Ids \ Legacy

Anchored(t, p) == sess[sid[t]].branch /\ IsPrefix(p, sess[sid[t]].head)
Safe(t, p)     == IsPrefix(p, main) \/ Anchored(t, p)
OnGitea(t)     == Tips(t, remote) \cup Tips(t, main)
Anywhere(t)    == OnGitea(t) \cup UNION {Tips(t, local[u]) : u \in Tasks}

\* Only rows from before B2.2 have a workspace, and only these are swept.
OldOnly ==
  /\ \A s \in Ids : sess[s].ws \/ stale[s].status # "none" => s \in Legacy
  /\ \A t \in Tasks : pc[t] \in Writing /\ copy[t].ws => ~Modern(t)

HasSession == \A t \in Tasks : pc[t] # "new" => sid[t] \in Ids /\ sess[sid[t]].status # "none"

\* Nothing is by a task that has not started.
Authors == \A t \in Tasks : pc[t] = "new" => Anywhere(t) = {}

\* What a task is about to write back is still what the row says.
CopyFresh ==
  \A t \in Tasks :
    pc[t] \in Writing /\ Modern(t) =>
      copy[t].branch = sess[sid[t]].branch /\ copy[t].head = sess[sid[t]].head

HeadHasBranch == \A s \in Ids \ Legacy : sess[s].head # NoCommit => sess[s].branch

SavingHolds ==
  \A u, t \in Tasks : Saving(u) => \A p \in Tips(t, remote) : IsPrefix(p, local[u])

CloneKeepsOwn ==
  \A t, u \in Tasks :
    /\ Working(t) /\ Modern(t) /\ t \notin strayed
    /\ sid[u] = sid[t] /\ (Slipped => onBase[t])
    => \A p \in Tips(u, remote) : Last(p) \in Range(local[t])

\* A task that ended between its push and its save has left its own work only.
PushedSafe ==
  \A t \in Tasks \ orphaned :
    Modern(t) /\ ~Saving(t) => \A p \in Tips(t, remote) : Safe(t, p)

CloneSafe ==
  \A u \in Tasks, t \in Tasks \ orphaned :
    Working(u) /\ t # u /\ Modern(t) => \A p \in Tips(t, local[u]) : Safe(t, p)

BranchKnown ==
  \A t \in Tasks \ orphaned :
    Modern(t) /\ OnGitea(t) # {} => sess[sid[t]].branch \/ Saving(t)

\* A task without a base branch is the first of its session.
OwnAnchor ==
  orphaned = {} => \A t, u \in Tasks :
    ~Quiet(t) /\ ~onBase[t] /\ Modern(t) /\ sid[u] = sid[t] =>
      \A p \in OnGitea(u) : Anchored(t, p) \/ (Saving(t) /\ IsPrefix(p, local[t]))

FromAnchor ==
  \A t \in Tasks :
    (Working(t) \/ Saving(t)) /\ ~onBase[t] /\ Modern(t) =>
      IsPrefix(sess[sid[t]].head, local[t])

Recorded == PushedSafe /\ CloneSafe /\ BranchKnown /\ OwnAnchor /\ FromAnchor

Base == OldOnly /\ HasSession /\ Authors

WorkInv ==
  /\ SessInv /\ Base
  /\ ~disturbed => CopyFresh /\ HeadHasBranch /\ SavingHolds /\ CloneKeepsOwn
  /\ ~disturbed /\ ~lost /\ strayed = {} => Recorded

\* A task works without its session after a failed read only.
NoneBlind == lost \/ blind = {}

\* A step that leaves the anchors and puts nothing new on Gitea but what is there.
Settled ==
  /\ UNCHANGED <<sid, onBase>> /\ (lost => lost')
  /\ orphaned \subseteq orphaned' /\ strayed \subseteq strayed'
  /\ \A s \in Ids \ Legacy :
       sess'[s].head = sess[s].head /\ (sess[s].branch => sess'[s].branch)
  /\ IsPrefix(main, main')
  /\ \A t \in Tasks : Tips(t, remote') \subseteq Tips(t, remote)
                      /\ Tips(t, main') \subseteq OnGitea(t)
  /\ \A t \in Tasks :
       /\ Working(t)' => Working(t)
       /\ Saving(t)' => Saving(t)
       /\ Saving(t) => Saving(t)' \/ t \in orphaned'
       /\ ~Quiet(t)' => ~Quiet(t)
       /\ (Working(t)' \/ Saving(t)') =>
             \/ local'[t] = local[t]
             \/ Working(t)' /\ \E k \in Nat : local'[t] = Append(local[t], <<t, k>>)

LEMMA SafeStays ==
  ASSUME SessionsTypeOK, SessionsTypeOK', Settled, NEW t \in Tasks, Modern(t), NEW p \in Commits
  PROVE  /\ Anchored(t, p) => Anchored(t, p)'
         /\ Safe(t, p) => Safe(t, p)'
<1>1. main \in Commits /\ main' \in Commits BY DEF SessionsTypeOK
<1>2. sid'[t] = sid[t] BY DEF Settled
<1>3. Anchored(t, p) => Anchored(t, p)' BY <1>2 DEF Anchored, Settled, Modern
<1>4. IsPrefix(p, main) => IsPrefix(p, main') BY <1>1, PrefixOrder DEF Settled
<1> QED BY <1>3, <1>4 DEF Safe

LEMMA SettledRecorded ==
  ASSUME SessionsTypeOK, SessionsTypeOK', Settled, Recorded
  PROVE  Recorded'
<1>1. UNCHANGED <<sid, onBase>> /\ \A t \in Tasks : Modern(t)' = Modern(t)
  BY DEF Settled, Modern
<1>2. \A t \in Tasks : OnGitea(t)' \subseteq OnGitea(t) BY DEF Settled, OnGitea
<1>3. \A t : OnGitea(t) \subseteq Commits BY DEF OnGitea, Tips
<1>4. local \in [Tasks -> Commits] BY DEF SessionsTypeOK
<1>5. PushedSafe'
  <2> SUFFICES ASSUME NEW t \in Tasks \ orphaned', Modern(t)', ~Saving(t)',
                      NEW p \in Tips(t, remote')
               PROVE  Safe(t, p)'
    BY DEF PushedSafe
  <2>1. Modern(t) /\ ~Saving(t) /\ t \notin orphaned /\ p \in Tips(t, remote)
    BY <1>1 DEF Settled
  <2>2. Safe(t, p) BY <2>1 DEF Recorded, PushedSafe
  <2>3. p \in Commits BY DEF Tips
  <2> QED BY <2>1, <2>2, <2>3, SafeStays
<1>6. CloneSafe'
  <2> SUFFICES ASSUME NEW u \in Tasks, NEW t \in Tasks \ orphaned', Working(u)', t # u,
                      Modern(t)', NEW p \in Tips(t, local'[u])
               PROVE  Safe(t, p)'
    BY DEF CloneSafe
  <2>1. Modern(t) /\ Working(u) /\ t \notin orphaned BY <1>1 DEF Settled
  <2>2. p \in Tips(t, local[u])
    <3>1. CASE local'[u] = local[u] BY <3>1
    <3>2. ASSUME NEW k \in Nat, local'[u] = Append(local[u], <<u, k>>)
          PROVE  p \in Tips(t, local[u])
      <4>1. <<u, k>> \in Marks /\ <<u, k>>[1] # t BY DEF Marks
      <4>2. local[u] \in Commits BY <1>4
      <4> QED BY <3>2, <4>1, <4>2, TipFacts
    <3> QED BY <3>1, <3>2 DEF Settled
  <2>3. Safe(t, p) BY <2>1, <2>2 DEF Recorded, CloneSafe
  <2>4. p \in Commits BY DEF Tips
  <2> QED BY <2>1, <2>3, <2>4, SafeStays
<1>7. BranchKnown'
  <2> SUFFICES ASSUME NEW t \in Tasks \ orphaned', Modern(t)', OnGitea(t)' # {}
               PROVE  sess'[sid'[t]].branch \/ Saving(t)'
    BY DEF BranchKnown
  <2>1. Modern(t) /\ OnGitea(t) # {} /\ t \notin orphaned BY <1>1, <1>2 DEF Settled
  <2>2. sess[sid[t]].branch \/ Saving(t) BY <2>1 DEF Recorded, BranchKnown
  <2> QED BY <1>1, <2>1, <2>2 DEF Settled, Modern
<1>8. OwnAnchor'
  <2> SUFFICES ASSUME orphaned' = {}, NEW t \in Tasks, NEW u \in Tasks, ~Quiet(t)',
                      ~onBase'[t], Modern(t)', sid'[u] = sid'[t], NEW p \in OnGitea(u)'
               PROVE  Anchored(t, p)' \/ (Saving(t)' /\ IsPrefix(p, local'[t]))
    BY DEF OwnAnchor
  <2>0. orphaned = {} BY DEF Settled
  <2>1. ~Quiet(t) /\ ~onBase[t] /\ Modern(t) /\ sid[u] = sid[t] /\ p \in OnGitea(u)
    BY <1>1, <1>2 DEF Settled
  <2>2. Anchored(t, p) \/ (Saving(t) /\ IsPrefix(p, local[t]))
    BY <2>0, <2>1 DEF Recorded, OwnAnchor
  <2>3. CASE Anchored(t, p) BY <1>3, <2>1, <2>3, SafeStays
  <2>4. CASE Saving(t) /\ IsPrefix(p, local[t])
    <3>1. Saving(t)' BY <2>4 DEF Settled
    <3>2. ~Working(t)' BY <3>1 DEF Working, Saving
    <3> QED BY <2>4, <3>1, <3>2 DEF Settled
  <2> QED BY <2>2, <2>3, <2>4
<1>9. FromAnchor'
  <2> SUFFICES ASSUME NEW t \in Tasks, Working(t)' \/ Saving(t)', ~onBase'[t], Modern(t)'
               PROVE  IsPrefix(sess'[sid'[t]].head, local'[t])
    BY DEF FromAnchor
  <2>1. (Working(t) \/ Saving(t)) /\ ~onBase[t] /\ Modern(t) BY <1>1 DEF Settled
  <2>2. IsPrefix(sess[sid[t]].head, local[t]) BY <2>1 DEF Recorded, FromAnchor
  <2>3. sess'[sid'[t]].head = sess[sid[t]].head BY <1>1, <2>1 DEF Settled, Modern
  <2>4. sess[sid[t]].head \in Commits
    BY <2>1, RowFields DEF SessionsTypeOK, Modern
  <2>5. CASE local'[t] = local[t] BY <2>2, <2>3, <2>5
  <2>6. ASSUME NEW k \in Nat, local'[t] = Append(local[t], <<t, k>>)
        PROVE  IsPrefix(sess[sid[t]].head, local'[t])
    <3>1. <<t, k>> \in Marks BY DEF Marks
    <3>2. local[t] \in Commits BY <1>4
    <3>3. IsPrefix(local[t], local'[t]) /\ local'[t] \in Commits BY <2>6, <3>1, <3>2, Appended
    <3> QED BY <2>2, <2>4, <3>2, <3>3, PrefixOrder
  <2> QED BY <2>3, <2>5, <2>6 DEF Settled
<1> QED BY <1>5, <1>6, <1>7, <1>8, <1>9 DEF Recorded

LEMMA RangeAppend ==
  ASSUME NEW c \in Commits, NEW m \in Marks
  PROVE  Range(c) \subseteq Range(Append(c, m))
<1>1. /\ Append(c, m) \in Seq(Marks) /\ Len(Append(c, m)) = Len(c) + 1 /\ Len(c) \in Nat
      /\ \A i \in 1..Len(c) : Append(c, m)[i] = c[i]
  BY AppendProperties, LenProperties DEF Commits
<1>2. Range(c) = {c[i] : i \in 1..Len(c)}
  BY RangeEquality DEF Commits
<1>3. Range(Append(c, m)) = {Append(c, m)[i] : i \in 1..(Len(c) + 1)}
  BY <1>1, RangeEquality
<1> QED BY <1>1, <1>2, <1>3

LEMMA SettledHolds ==
  ASSUME SessionsTypeOK, Settled
  PROVE  /\ SavingHolds => SavingHolds'
         /\ CloneKeepsOwn => CloneKeepsOwn'
<1>1. UNCHANGED <<sid, onBase>> /\ \A t \in Tasks : Modern(t)' = Modern(t)
  BY DEF Settled, Modern
<1>2. local \in [Tasks -> Commits] BY DEF SessionsTypeOK
<1>3. ASSUME SavingHolds PROVE SavingHolds'
  <2> SUFFICES ASSUME NEW u \in Tasks, NEW t \in Tasks, Saving(u)', NEW p \in Tips(t, remote')
               PROVE  IsPrefix(p, local'[u])
    BY DEF SavingHolds
  <2>1. Saving(u) /\ p \in Tips(t, remote) /\ ~Working(u)' BY DEF Settled, Working, Saving
  <2>2. local'[u] = local[u] BY <2>1 DEF Settled
  <2> QED BY <1>3, <2>1, <2>2 DEF SavingHolds
<1>4. ASSUME CloneKeepsOwn PROVE CloneKeepsOwn'
  <2> SUFFICES ASSUME NEW t \in Tasks, NEW u \in Tasks, Working(t)', Modern(t)',
                      t \notin strayed', sid'[u] = sid'[t], Slipped' => onBase'[t],
                      NEW p \in Tips(u, remote')
               PROVE  Last(p) \in Range(local'[t])
    BY DEF CloneKeepsOwn
  <2>0. Slipped => Slipped' BY DEF Slipped, Settled
  <2>1. /\ Working(t) /\ Modern(t) /\ t \notin strayed /\ sid[u] = sid[t]
        /\ (Slipped => onBase[t]) /\ p \in Tips(u, remote)
    BY <1>1, <2>0 DEF Settled
  <2>2. Last(p) \in Range(local[t]) BY <1>4, <2>1 DEF CloneKeepsOwn
  <2>3. CASE local'[t] = local[t] BY <2>2, <2>3
  <2>4. ASSUME NEW k \in Nat, local'[t] = Append(local[t], <<t, k>>)
        PROVE  Last(p) \in Range(local'[t])
    <3>1. <<t, k>> \in Marks /\ local[t] \in Seq(Marks) BY <1>2 DEF Marks, Commits
    <3>2. Range(local[t]) \subseteq Range(local'[t])
      BY <2>4, <3>1, RangeAppend DEF Commits
    <3> QED BY <2>2, <3>2
  <2> QED BY <2>3, <2>4 DEF Settled
<1> QED BY <1>3, <1>4

-----------------------------------------------------------------------------
(* What the steps do to the rows. *)

LEMMA WriteEffect ==
  ASSUME SessionsTypeOK, NEW s \in Ids, NEW row \in Row, Write(s, row)
  PROVE  /\ \A r \in Ids \ {s} : sess'[r] = sess[r]
         /\ \/ sess' = sess /\ lost'
            \/ /\ lost' = lost
               /\ sess'[s].status = row.status /\ sess'[s].ws = row.ws
               /\ sess'[s].branch = row.branch /\ sess'[s].head = row.head
<1>1. sess \in [Ids -> Row] BY DEF SessionsTypeOK
<1>2. CASE sess' = [sess EXCEPT ![s] = [row EXCEPT !.aged = FALSE]] /\ UNCHANGED <<events, lost>>
  <2>1. LET new == [row EXCEPT !.aged = FALSE]
        IN  new.status = row.status /\ new.ws = row.ws /\ new.branch = row.branch
            /\ new.head = row.head
    BY DEF Row
  <2> QED BY <1>1, <1>2, <2>1
<1>3. CASE Refused /\ UNCHANGED sess BY <1>3 DEF Refused
<1> QED BY <1>2, <1>3 DEF Write

\* One task under way, while no reset has taken its lock.
LEMMA Alone ==
  ASSUME SessInv, ~disturbed, NEW t \in Tasks, ~Quiet(t)
  PROVE  \A u \in Tasks : ~Quiet(u) => u = t
BY DEF SessInv, SoleTask

\* The copies of rows when the task t goes on.
LEMMA CopyOfTask ==
  ASSUME SessInv, ~disturbed, NEW t \in Tasks, ~Quiet(t), NEW next, Goto(t, next),
         UNCHANGED sid,
         next \notin Writing \/ (copy'[t] = sess[sid[t]] /\ UNCHANGED sess)
  PROVE  CopyFresh'
<1> SUFFICES ASSUME NEW u \in Tasks, pc'[u] \in Writing
             PROVE  /\ copy'[u].branch = sess'[sid'[u]].branch
                    /\ copy'[u].head = sess'[sid'[u]].head
  BY DEF CopyFresh
<1>1. pc \in [Tasks -> PC] BY DEF SessInv, Typed, SessionsTypeOK
<1>2. u = t
  <2>1. CASE u # t
    <3>1. pc[u] \in Writing BY <1>1, <2>1 DEF Goto
    <3>2. ~Quiet(u) BY <3>1 DEF Quiet, Writing
    <3> QED BY <3>2, Alone
  <2> QED BY <2>1
<1>3. next \in Writing BY <1>1, <1>2 DEF Goto
<1> QED BY <1>2, <1>3

LEMMA WorkFromSettled ==
  ASSUME WorkInv, SessInv', Base', disturbed => disturbed',
         ~disturbed' => Settled /\ CopyFresh' /\ HeadHasBranch'
  PROVE  WorkInv'
<1>1. SessionsTypeOK /\ SessionsTypeOK' BY DEF WorkInv, SessInv, Typed
<1>2. CASE disturbed' BY <1>2 DEF WorkInv
<1>3. CASE ~disturbed'
  <2>1. ~disturbed /\ Settled BY <1>3
  <2>2. CopyFresh' /\ HeadHasBranch' /\ SavingHolds' /\ CloneKeepsOwn'
    BY <1>1, <1>3, <2>1, SettledHolds DEF WorkInv
  <2>3. ~lost' /\ strayed' = {} => Recorded'
    BY <1>1, <2>1, SettledRecorded DEF WorkInv, Settled
  <2> QED BY <1>3, <2>2, <2>3 DEF WorkInv
<1> QED BY <1>2, <1>3

LEMMA AuthorsKept ==
  ASSUME Authors,
         \A t \in Tasks : pc'[t] = "new" => pc[t] = "new" /\ Anywhere(t)' \subseteq Anywhere(t)
  PROVE  Authors'
BY DEF Authors

-----------------------------------------------------------------------------
(* The steps of a task that leave Gitea and the anchor alone. *)

\* The rows as they are, the clone of t left, dropped or one commit longer.
LEMMA WorkOfMove ==
  ASSUME WorkInv, SessInv', NEW t \in Tasks,
         \/ Fail(t) \/ (Code(t) /\ ~Stray(t)) \/ OpenPR(t)
         \/ SaveBranchRead(t) \/ CompleteRead(t) \/ (SaveHeadRead(t) /\ pc'[t] # "open")
  PROVE  WorkInv'
<1> DEFINE W == {"saveBranch", "writeBranch", "code", "push"}
           V == {"saveHead", "writeHead"}
<1>0. /\ SessionsTypeOK /\ SessInv /\ pc \in [Tasks -> PC] /\ local \in [Tasks -> Commits]
      /\ tries \in [Tasks -> Nat] /\ copy \in [Tasks -> Row] /\ Base
      /\ remote \in Commits /\ main \in Commits
  BY DEF WorkInv, SessInv, Typed, SessionsTypeOK
<1>1. ~Quiet(t) /\ UNCHANGED <<sess, sid, onBase, remote, main, stale, disturbed, lost,
                                 orphaned, strayed>>
  BY DEF Fail, Code, OpenPR, SaveBranchRead, CompleteRead, SaveHeadRead, ReadRow, Quiet,
         gitVars, gcVars, tally, setVars
<1>2. PICK next : /\ Goto(t, next) /\ next # "new"
                  /\ next \in W => pc[t] \in W
                  /\ next \in V <=> pc[t] \in V
                  /\ next \notin Writing \/ copy'[t] = sess[sid[t]]
  <2>1. CASE Fail(t)
    <3>1. PICK next \in {"prepare", "failed"} : Goto(t, next)
      BY <2>1 DEF Fail, AttemptFails
    <3>2. pc[t] \notin V BY <2>1 DEF Fail
    <3> QED BY <3>1, <3>2 DEF Writing
  <2>2. CASE Code(t) /\ ~Stray(t)
    <3>1. Goto(t, "push") /\ pc[t] = "code" BY <2>2 DEF Code
    <3> QED BY <3>1 DEF Writing
  <2>3. CASE OpenPR(t)
    <3>1. Goto(t, "complete") /\ pc[t] = "open" BY <2>3 DEF OpenPR
    <3> QED BY <3>1 DEF Writing
  <2>4. CASE SaveBranchRead(t)
    <3>1. pc[t] = "saveBranch" BY <2>4 DEF SaveBranchRead, ReadRow
    <3>2. CASE Goto(t, "code") BY <3>1, <3>2 DEF Writing
    <3>3. CASE Goto(t, "writeBranch") /\ copy' = [copy EXCEPT ![t] = sess[sid[t]]]
      BY <1>0, <3>1, <3>3
    <3> QED BY <2>4, <3>2, <3>3 DEF SaveBranchRead, ReadRow
  <2>5. CASE CompleteRead(t)
    <3>1. /\ pc[t] = "complete" /\ Goto(t, "writeComplete")
          /\ copy' = [copy EXCEPT ![t] = sess[sid[t]]]
      BY <2>5 DEF CompleteRead, ReadRow
    <3>2. copy'[t] = sess[sid[t]] BY <1>0, <3>1
    <3> QED BY <3>1, <3>2
  <2>6. CASE SaveHeadRead(t) /\ pc'[t] # "open"
    <3>1. /\ pc[t] = "saveHead" /\ Goto(t, "writeHead")
          /\ copy' = [copy EXCEPT ![t] = sess[sid[t]]]
      BY <1>0, <2>6 DEF SaveHeadRead, ReadRow, Goto
    <3>2. copy'[t] = sess[sid[t]] BY <1>0, <3>1
    <3> QED BY <3>1, <3>2
  <2> QED BY <2>1, <2>2, <2>3, <2>4, <2>5, <2>6
<1>3. pc' = [pc EXCEPT ![t] = next] /\ pc'[t] = next /\ \A u \in Tasks \ {t} : pc'[u] = pc[u]
  BY <1>0, <1>2 DEF Goto
<1>4. /\ \A u \in Tasks \ {t} : local'[u] = local[u] /\ copy'[u] = copy[u]
      /\ \/ local'[t] = local[t]
         \/ next \notin W \cup V /\ local'[t] = NoCommit
         \/ next \in W /\ local'[t] = Append(local[t], <<t, tries[t]>>)
  <2>1. CASE Fail(t)
    <3>1. local' = [local EXCEPT ![t] = NoCommit] /\ UNCHANGED copy
      BY <2>1 DEF Fail, AttemptFails
    <3>2. next \in {"prepare", "failed"}
      BY <1>0, <1>3, <2>1 DEF Fail, AttemptFails, Goto
    <3> QED BY <1>0, <3>1, <3>2
  <2>2. CASE Code(t) /\ ~Stray(t)
    <3>1. next = "push" BY <1>0, <1>3, <2>2 DEF Code, Goto
    <3>2. UNCHANGED copy BY <2>2 DEF Code
    <3>3. local' = [local EXCEPT ![t] = Append(local[t], <<t, tries[t]>>)] \/ local' = local
      BY <2>2 DEF Code
    <3> QED BY <1>0, <3>1, <3>2, <3>3
  <2>3. CASE OpenPR(t) BY <2>3 DEF OpenPR
  <2>4. CASE SaveBranchRead(t) \/ CompleteRead(t) \/ SaveHeadRead(t)
    <3>1. UNCHANGED local /\ (UNCHANGED copy \/ copy' = [copy EXCEPT ![t] = sess[sid[t]]])
      BY <2>4 DEF SaveBranchRead, CompleteRead, SaveHeadRead, ReadRow
    <3> QED BY <1>0, <3>1
  <2> QED BY <2>1, <2>2, <2>3, <2>4
<1>5. <<t, tries[t]>> \in Marks /\ tries[t] \in Nat /\ <<t, tries[t]>>[1] = t
  BY <1>0 DEF Marks
<1>6. Base'
  <2>1. OldOnly'
    <3>1. ASSUME NEW u \in Tasks, pc'[u] \in Writing, copy'[u].ws PROVE ~Modern(u)'
      <4>1. CASE u # t
        <5>1. pc[u] \in Writing /\ copy[u].ws BY <1>3, <1>4, <3>1, <4>1
        <5> QED BY <1>0, <1>1, <5>1 DEF Base, OldOnly, Modern
      <4>2. CASE u = t
        <5>1. copy'[t] = sess[sid[t]] BY <1>2, <1>3, <3>1, <4>2
        <5> QED BY <1>0, <1>1, <3>1, <4>2, <5>1 DEF Base, OldOnly, Modern
      <4> QED BY <4>1, <4>2
    <3> QED BY <1>0, <1>1, <3>1 DEF Base, OldOnly
  <2>2. HasSession'
    <3>1. pc[t] # "new" BY <1>1 DEF Quiet
    <3> QED BY <1>0, <1>1, <1>3, <3>1 DEF Base, HasSession
  <2>3. \A u \in Tasks : pc'[u] = "new" => pc[u] = "new" /\ Anywhere(u)' \subseteq Anywhere(u)
    <3> SUFFICES ASSUME NEW u \in Tasks, pc'[u] = "new"
                 PROVE  pc[u] = "new" /\ Anywhere(u)' \subseteq Anywhere(u)
      OBVIOUS
    <3>1. u # t /\ pc[u] = "new" BY <1>2, <1>3
    <3>2. \A w \in Tasks : Tips(u, local'[w]) \subseteq Tips(u, local[w])
      <4>1. Tips(u, NoCommit) = {} BY TipFacts
      <4>2. Tips(u, Append(local[t], <<t, tries[t]>>)) \subseteq Tips(u, local[t])
        BY <1>0, <1>5, <3>1, TipFacts
      <4> QED BY <1>4, <4>1, <4>2
    <3>3. OnGitea(u)' = OnGitea(u) BY <1>1 DEF OnGitea
    <3> QED BY <3>1, <3>2, <3>3 DEF Anywhere
  <2> QED BY <1>0, <2>1, <2>2, <2>3, AuthorsKept DEF Base
<1>7. Settled
  <2>1. ASSUME NEW u \in Tasks
        PROVE  /\ Working(u)' => Working(u)
               /\ Saving(u)' => Saving(u)
               /\ Saving(u) => Saving(u)' \/ u \in orphaned'
               /\ ~Quiet(u)' => ~Quiet(u)
               /\ (Working(u)' \/ Saving(u)') =>
                     \/ local'[u] = local[u]
                     \/ Working(u)' /\ \E k \in Nat : local'[u] = Append(local[u], <<u, k>>)
    <3>1. CASE u # t
      <4>1. pc'[u] = pc[u] /\ local'[u] = local[u] BY <1>3, <1>4, <3>1
      <4> QED BY <4>1 DEF Working, Saving, Quiet
    <3>2. CASE u = t
      <4>1. (Working(t)' <=> next \in W) /\ (Saving(t)' <=> next \in V)
        BY <1>3 DEF Working, Saving
      <4>2. (Working(t) <=> pc[t] \in W) /\ (Saving(t) <=> pc[t] \in V)
        BY DEF Working, Saving
      <4> QED BY <1>1, <1>2, <1>4, <1>5, <3>2, <4>1, <4>2
    <3> QED BY <3>1, <3>2
  <2>2. IsPrefix(main, main') BY <1>0, <1>1, PrefixOrder
  <2>3. \A u \in Tasks : Tips(u, remote') \subseteq Tips(u, remote) /\ Tips(u, main') \subseteq OnGitea(u)
    BY <1>1 DEF OnGitea
  <2> QED BY <1>1, <2>1, <2>2, <2>3 DEF Settled
<1>8. ~disturbed => CopyFresh' BY <1>0, <1>1, <1>2, CopyOfTask
<1>9. ~disturbed => HeadHasBranch' BY <1>1 DEF WorkInv, HeadHasBranch
<1> QED BY <1>1, <1>6, <1>7, <1>8, <1>9, WorkFromSettled

\* A write of a whole row, the anchor aside.
LEMMA RowsOfWrite ==
  ASSUME WorkInv, NEW t \in Tasks, NEW from \in Writing, NEW next \in PC \ Writing,
         NEW row \in Row, WriteRow(t, from, next, row),
         row.status # "none", row.ws = copy[t].ws
  PROVE  OldOnly' /\ HasSession'
<1>1. /\ pc[t] = from /\ ~Quiet(t) /\ UNCHANGED <<sid, stale>>
  BY DEF WriteRow, Quiet, Writing, gcVars
<1>2. /\ SessionsTypeOK /\ pc \in [Tasks -> PC] /\ copy \in [Tasks -> Row] /\ OldOnly
      /\ HasSession
  BY DEF WorkInv, SessInv, Typed, SessionsTypeOK, Base
<1>3. sid[t] \in Ids BY <1>1 DEF WorkInv, SessInv, Typed, Held
<1>4. /\ \A r \in Ids \ {sid[t]} : sess'[r] = sess[r]
      /\ \/ sess' = sess
         \/ sess'[sid[t]].status = row.status /\ sess'[sid[t]].ws = row.ws
  BY <1>2, <1>3, WriteEffect DEF WriteRow
<1>5. pc' = [pc EXCEPT ![t] = next] BY DEF WriteRow, Goto
<1>6. \A u \in Tasks \ {t} : pc'[u] = pc[u] /\ copy'[u] = copy[u]
  BY <1>2, <1>5 DEF WriteRow
<1>7. copy[t].ws => sid[t] \in Legacy BY <1>1, <1>2, <1>3 DEF OldOnly, Modern
<1>8. OldOnly'
  <2>1. \A s \in Ids : sess'[s].ws => s \in Legacy BY <1>2, <1>3, <1>4, <1>7 DEF OldOnly
  <2>2. \A u \in Tasks : pc'[u] \in Writing /\ copy'[u].ws => ~Modern(u)'
    BY <1>1, <1>2, <1>5, <1>6 DEF OldOnly, Modern
  <2> QED BY <1>1, <1>2, <2>1, <2>2 DEF OldOnly
<1>9. HasSession'
  <2>1. \A s \in Ids : sess[s].status # "none" => sess'[s].status # "none" BY <1>4
  <2>2. pc[t] # "new" BY <1>1 DEF Quiet
  <2> QED BY <1>1, <1>2, <1>5, <1>6, <2>1, <2>2 DEF HasSession
<1> QED BY <1>8, <1>9

LEMMA WorkOfWrite ==
  ASSUME WorkInv, SessInv', NEW t \in Tasks, NEW from \in {"writeBranch", "writeComplete"},
         NEW next \in PC \ Writing, NEW row \in Row, WriteRow(t, from, next, row),
         row.status # "none", row.ws = copy[t].ws, row.head = copy[t].head,
         copy[t].branch => row.branch,
         from = "writeComplete" => next = "done", from = "writeBranch" => next = "code"
  PROVE  WorkInv'
<1>1. /\ pc[t] = from /\ ~Quiet(t)
      /\ UNCHANGED <<sid, onBase, local, remote, main, stale, disturbed, orphaned, strayed>>
  BY DEF WriteRow, Quiet, Writing, gcVars, gitVars, setVars
<1>2. /\ SessionsTypeOK /\ SessInv /\ pc \in [Tasks -> PC] /\ OldOnly /\ HasSession /\ Authors
      /\ lost \in BOOLEAN /\ main \in Commits
  BY DEF WorkInv, SessInv, Typed, SessionsTypeOK, Base
<1>3. sid[t] \in Ids BY <1>1 DEF WorkInv, SessInv, Typed, Held
<1>4. /\ \A r \in Ids \ {sid[t]} : sess'[r] = sess[r]
      /\ \/ sess' = sess /\ lost'
         \/ lost' = lost /\ sess'[sid[t]].branch = row.branch /\ sess'[sid[t]].head = row.head
  BY <1>2, <1>3, WriteEffect DEF WriteRow
<1>5. Goto(t, next) /\ pc' = [pc EXCEPT ![t] = next] BY DEF WriteRow, Goto
<1>6. pc'[t] = next /\ \A u \in Tasks \ {t} : pc'[u] = pc[u] BY <1>2, <1>5
<1>7. OldOnly' /\ HasSession'
  <2>1. from \in Writing BY DEF Writing
  <2> QED BY <2>1, RowsOfWrite
<1>8. Base'
  <2>1. \A u \in Tasks : pc'[u] = "new" => pc[u] = "new" /\ Anywhere(u)' \subseteq Anywhere(u)
    BY <1>1, <1>6 DEF Anywhere, OnGitea
  <2> QED BY <1>2, <1>7, <2>1, AuthorsKept DEF Base
<1>9. ASSUME ~disturbed PROVE Settled /\ CopyFresh' /\ HeadHasBranch'
  <2>1. from \in Writing BY DEF Writing
  <2>2. Modern(t) => copy[t].branch = sess[sid[t]].branch /\ copy[t].head = sess[sid[t]].head
    BY <1>1, <1>9, <2>1 DEF WorkInv, CopyFresh
  <2>3. \A s \in Ids \ Legacy :
          sess'[s].head = sess[s].head /\ (sess[s].branch => sess'[s].branch)
    <3>1. CASE sid[t] \in Legacy BY <1>3, <1>4, <3>1
    <3>2. CASE sid[t] \notin Legacy
      <4>1. Modern(t) BY <1>3, <3>2 DEF Modern
      <4> QED BY <1>4, <2>2, <4>1
    <3> QED BY <3>1, <3>2
  <2>4. ASSUME NEW u \in Tasks
        PROVE  /\ Working(u)' => Working(u)
               /\ Saving(u)' => Saving(u)
               /\ Saving(u) => Saving(u)'
               /\ ~Quiet(u)' => ~Quiet(u)
    <3>1. CASE u # t
      <4>1. pc'[u] = pc[u] BY <1>6, <3>1
      <4> QED BY <4>1 DEF Working, Saving, Quiet
    <3>2. CASE u = t BY <1>1, <1>6, <3>2 DEF Working, Saving, Quiet
    <3> QED BY <3>1, <3>2
  <2>5. IsPrefix(main, main') BY <1>1, <1>2, PrefixOrder
  <2>6. \A u \in Tasks : Tips(u, remote') \subseteq Tips(u, remote) /\ Tips(u, main') \subseteq OnGitea(u)
    BY <1>1 DEF OnGitea
  <2>7. lost => lost' BY <1>4
  <2>8. Settled BY <1>1, <2>3, <2>4, <2>5, <2>6, <2>7 DEF Settled
  <2>9. CopyFresh'
    <3>1. next \notin Writing OBVIOUS
    <3> QED BY <1>1, <1>2, <1>5, <1>9, <3>1, CopyOfTask
  <2>10. HeadHasBranch' BY <1>9, <2>3 DEF WorkInv, HeadHasBranch
  <2> QED BY <2>8, <2>9, <2>10
<1> QED BY <1>1, <1>8, <1>9, WorkFromSettled

LEMMA WorkOfSave ==
  ASSUME WorkInv, SessInv', NEW t \in Tasks, SaveBranch(t) \/ Complete(t)
  PROVE  WorkInv'
<1>1. copy[t] \in Row /\ SessInv BY DEF WorkInv, SessInv, Typed, SessionsTypeOK
<1>2. [copy[t] EXCEPT !.branch = TRUE] \in Row /\ [copy[t] EXCEPT !.status = "idle"] \in Row
  BY <1>1, RowFields DEF Statuses
<1>3. "code" \in PC \ Writing /\ "done" \in PC \ Writing BY DEF PC, Writing
<1>4. pc[t] \in Writing => copy[t].status # "none" BY <1>1 DEF SessInv, CopyOwn
<1>5. CASE SaveBranch(t)
  <2> DEFINE row == [copy[t] EXCEPT !.branch = TRUE]
  <2>1. /\ row.status = copy[t].status /\ row.ws = copy[t].ws /\ row.head = copy[t].head
        /\ row.branch
    BY <1>1 DEF Row
  <2>2. WriteRow(t, "writeBranch", "code", row) BY <1>5 DEF SaveBranch
  <2>3. pc[t] \in Writing BY <2>2 DEF WriteRow, Writing
  <2>4. row \in Row BY <1>2
  <2> HIDE DEF row
  <2> QED BY <1>3, <1>4, <2>1, <2>2, <2>3, <2>4, WorkOfWrite
<1>6. CASE Complete(t)
  <2> DEFINE row == [copy[t] EXCEPT !.status = "idle"]
  <2>1. /\ row.status # "none" /\ row.ws = copy[t].ws /\ row.head = copy[t].head
        /\ row.branch = copy[t].branch
    BY <1>1 DEF Row
  <2>2. WriteRow(t, "writeComplete", "done", row) BY <1>6 DEF Complete
  <2>4. row \in Row BY <1>2
  <2> HIDE DEF row
  <2> QED BY <1>3, <2>1, <2>2, <2>4, WorkOfWrite
<1> QED BY <1>5, <1>6

\* The shell goes its own way: what was recorded of this session no longer counts.
LEMMA WorkOfStray ==
  ASSUME WorkInv, SessInv', NEW t \in Tasks, Code(t), Stray(t)
  PROVE  WorkInv'
<1>1. /\ pc[t] = "code" /\ ~Quiet(t) /\ Goto(t, "push") /\ strayed' = strayed \cup {t}
      /\ UNCHANGED <<sess, sid, onBase, copy, main, stale, disturbed, lost, orphaned>>
  BY DEF Code, Stray, Quiet, gcVars
<1>2. /\ SessionsTypeOK /\ SessInv /\ pc \in [Tasks -> PC] /\ local \in [Tasks -> Commits]
      /\ Base /\ tries \in [Tasks -> Nat]
  BY DEF WorkInv, SessInv, Typed, SessionsTypeOK
<1>3. pc'[t] = "push" /\ \A u \in Tasks \ {t} : pc'[u] = pc[u] BY <1>1, <1>2 DEF Goto
<1>4. PICK n \in 1..Len(local[t]), commits \in BOOLEAN :
         LET kept == SubSeq(local[t], 1, n) IN
         local' = [local EXCEPT ![t] = IF commits THEN Append(kept, <<t, tries[t]>>)
                                       ELSE kept]
  BY Zenon DEF Stray
<1> DEFINE kept == SubSeq(local[t], 1, n)
<1>5. kept \in Commits /\ IsPrefix(kept, local[t]) BY <1>2, KeptPrefix
<1>6. /\ \A u \in Tasks \ {t} : local'[u] = local[u]
      /\ local'[t] = kept \/ local'[t] = Append(kept, <<t, tries[t]>>)
      /\ remote' = remote \/ remote' = local'[t]
  BY <1>2, <1>4 DEF Stray
<1> HIDE DEF kept
<1>7. \A u \in Tasks \ {t} : Tips(u, local'[t]) \subseteq Tips(u, local[t])
  <2> SUFFICES ASSUME NEW u \in Tasks \ {t} PROVE Tips(u, local'[t]) \subseteq Tips(u, local[t])
    OBVIOUS
  <2>1. <<t, tries[t]>> \in Marks /\ <<t, tries[t]>>[1] # u BY <1>2 DEF Marks
  <2>2. local[t] \in Commits BY <1>2
  <2>3. Tips(u, kept) \subseteq Tips(u, local[t]) BY <1>5, <2>2, TipFacts
  <2>4. Tips(u, Append(kept, <<t, tries[t]>>)) \subseteq Tips(u, kept)
    BY <1>5, <2>1, TipFacts
  <2> QED BY <1>6, <2>3, <2>4
<1>8. Base'
  <2>1. OldOnly' BY <1>1, <1>2, <1>3 DEF Base, OldOnly, Writing, Modern
  <2>2. HasSession' BY <1>1, <1>2, <1>3 DEF Base, HasSession
  <2>3. \A u \in Tasks : pc'[u] = "new" => pc[u] = "new" /\ Anywhere(u)' \subseteq Anywhere(u)
    <3> SUFFICES ASSUME NEW u \in Tasks, pc'[u] = "new"
                 PROVE  pc[u] = "new" /\ Anywhere(u)' \subseteq Anywhere(u)
      OBVIOUS
    <3>1. u # t /\ pc[u] = "new" BY <1>3
    <3>2. \A w \in Tasks : Tips(u, local'[w]) \subseteq Tips(u, local[w])
      BY <1>6, <1>7, <3>1
    <3>3. Tips(u, remote') \subseteq Tips(u, remote) \cup Tips(u, local[t])
      BY <1>6, <3>2
    <3> QED BY <1>1, <3>1, <3>2, <3>3 DEF Anywhere, OnGitea
  <2> QED BY <1>2, <2>1, <2>2, <2>3, AuthorsKept DEF Base
<1>9. ASSUME ~disturbed
      PROVE  CopyFresh' /\ HeadHasBranch' /\ SavingHolds' /\ CloneKeepsOwn'
  <2>1. \A u \in Tasks \ {t} : Quiet(u) BY <1>1, <1>2, <1>9, Alone
  <2>2. CopyFresh' BY <1>1, <1>2, <1>9, CopyOfTask DEF Writing
  <2>3. HeadHasBranch' BY <1>1, <1>9 DEF WorkInv, HeadHasBranch
  <2>4. \A u \in Tasks : ~Saving(u)' /\ (Working(u)' => u = t)
    BY <1>3, <2>1 DEF Saving, Working, Quiet
  <2>5. t \in strayed' BY <1>1
  <2> QED BY <2>2, <2>3, <2>4, <2>5 DEF SavingHolds, CloneKeepsOwn
<1> QED BY <1>1, <1>8, <1>9 DEF WorkInv

-----------------------------------------------------------------------------
(* The steps of everybody else. *)

\* What they leave of the rows, and what they may do on Gitea.
RowsLeft ==
  \A s \in Ids :
    /\ sess[s].status # "none" => sess'[s].status # "none"
    /\ sess'[s].ws \/ stale'[s].status # "none" => s \in Legacy
    /\ s \notin Legacy => sess'[s].branch = sess[s].branch /\ sess'[s].head = sess[s].head

GiteaLeft ==
  /\ IsPrefix(main, main')
  /\ \A t \in Tasks : Tips(t, remote') \subseteq Tips(t, remote)
                      /\ Tips(t, main') \subseteq OnGitea(t)

TasksLeft ==
  /\ UNCHANGED <<pc, sid, onBase, local, copy, orphaned, strayed>>
  /\ lost => lost'
  /\ disturbed => disturbed'

LEMMA WorkOfRest ==
  ASSUME WorkInv, SessInv', RowsLeft, GiteaLeft, TasksLeft
  PROVE  WorkInv'
<1>1. \A t \in Tasks : /\ Modern(t)' = Modern(t) /\ Working(t)' = Working(t)
                       /\ Saving(t)' = Saving(t) /\ Quiet(t)' = Quiet(t)
  BY DEF TasksLeft, Modern, Working, Saving, Quiet
<1>2. Settled BY <1>1 DEF Settled, RowsLeft, GiteaLeft, TasksLeft
<1>3. OldOnly' /\ HasSession'
  <2>1. OldOnly /\ HasSession BY DEF WorkInv, Base
  <2>2. OldOnly' BY <1>1, <2>1 DEF OldOnly, RowsLeft, TasksLeft
  <2>3. HasSession' BY <2>1 DEF HasSession, RowsLeft, TasksLeft
  <2> QED BY <2>2, <2>3
<1>4. Authors'
  <2>1. \A t \in Tasks : Anywhere(t)' \subseteq Anywhere(t)
    BY DEF Anywhere, OnGitea, GiteaLeft, TasksLeft
  <2>2. UNCHANGED pc BY DEF TasksLeft
  <2> QED BY <2>1, <2>2, AuthorsKept DEF WorkInv, Base
<1>5. ASSUME ~disturbed' PROVE CopyFresh' /\ HeadHasBranch'
  <2>1. CopyFresh /\ HeadHasBranch BY <1>5 DEF WorkInv, TasksLeft
  <2>2. CopyFresh'
    <3> SUFFICES ASSUME NEW t \in Tasks, pc'[t] \in Writing, Modern(t)'
                 PROVE  /\ copy'[t].branch = sess'[sid'[t]].branch
                        /\ copy'[t].head = sess'[sid'[t]].head
      BY DEF CopyFresh
    <3>1. pc[t] \in Writing /\ Modern(t) BY <1>1 DEF TasksLeft
    <3>2. copy[t].branch = sess[sid[t]].branch /\ copy[t].head = sess[sid[t]].head
      BY <2>1, <3>1 DEF CopyFresh
    <3> QED BY <3>1, <3>2 DEF RowsLeft, TasksLeft, Modern
  <2>3. HeadHasBranch' BY <2>1 DEF HeadHasBranch, RowsLeft
  <2> QED BY <2>2, <2>3
<1> QED BY <1>2, <1>3, <1>4, <1>5, WorkFromSettled DEF Base, TasksLeft

LEMMA GiteaAsItIs ==
  ASSUME SessionsTypeOK, UNCHANGED <<remote, main>>
  PROVE  GiteaLeft
BY PrefixOrder DEF SessionsTypeOK, GiteaLeft, OnGitea

LEMMA GiteaOfPeople ==
  ASSUME SessionsTypeOK, People \/ \E linked \in BOOLEAN : Merge(linked)
  PROVE  GiteaLeft
<1>1. main \in Commits /\ remote \in Commits BY DEF SessionsTypeOK
<1>2. CASE \E linked \in BOOLEAN : Merge(linked)
  <2>1. main' = remote /\ remote' = remote /\ IsPrefix(main, remote) BY <1>2 DEF Merge
  <2> QED BY <2>1 DEF GiteaLeft, OnGitea
<1>3. CASE People
  <2>1. main' = main BY <1>3 DEF People
  <2>2. IsPrefix(main, main') BY <1>1, <2>1, PrefixOrder
  <2>3. \A t \in Tasks : Tips(t, remote') \subseteq Tips(t, remote)
    <3> SUFFICES ASSUME NEW t \in Tasks PROVE Tips(t, remote') \subseteq Tips(t, remote)
      OBVIOUS
    <3>1. CASE UNCHANGED remote BY <3>1
    <3>2. CASE remote' = NoCommit BY <3>2, TipFacts
    <3>3. CASE remote' = Append(remote, <<"person", 0>>)
      <4>1. <<"person", 0>> \in Marks /\ <<"person", 0>>[1] # t
        BY SessionsAssumption DEF Marks
      <4> QED BY <1>1, <3>3, <4>1, TipFacts
    <3>4. CASE remote # NoCommit /\ remote' = Front(remote)
      <4>1. Front(remote) \in Commits /\ IsPrefix(Front(remote), remote)
        BY <1>1, <3>4, FrontPrefix
      <4> QED BY <1>1, <3>4, <4>1, TipFacts
    <3> QED BY <1>3, <3>1, <3>2, <3>3, <3>4 DEF People
  <2> QED BY <2>1, <2>2, <2>3 DEF GiteaLeft, OnGitea
<1> QED BY <1>2, <1>3

LEMMA WorkOfOthers ==
  ASSUME WorkInv, SessInv',
         \/ \E a \in Archivers, s \in Ids : ArchiveOne(a, s)
         \/ Close \/ \E linked \in BOOLEAN : Merge(linked)
         \/ TimerFires \/ Reset \/ Age \/ People
         \/ CleanupIdleSessions \/ CleanupArchivedWorkspaces \/ EnforceDiskLimit
         \/ \E s \in Ids : Reclaim(s)
  PROVE  WorkInv'
<1>1. /\ SessionsTypeOK /\ sess \in [Ids -> Row] /\ stale \in [Ids -> Row] /\ OldOnly
      /\ SessInv /\ lost \in BOOLEAN /\ disturbed \in BOOLEAN
  BY DEF WorkInv, SessInv, Typed, SessionsTypeOK, Base
<1>2. NoRow.status = "none" BY DEF NoRow, NewRow
<1>3. TasksLeft
  <2>1. /\ UNCHANGED <<taskVars, orphaned, strayed>>
        /\ (lost => lost') /\ (disturbed => disturbed')
    <3>1. CASE \/ Close \/ \E linked \in BOOLEAN : Merge(linked)
               \/ TimerFires \/ Age \/ People
               \/ CleanupIdleSessions \/ CleanupArchivedWorkspaces \/ EnforceDiskLimit
      <4>1. UNCHANGED <<taskVars, lost, disturbed, orphaned, strayed>>
        BY <3>1, Zenon
           DEF Close, Merge, TimerFires, Age, People, CleanupIdleSessions,
               CleanupArchivedWorkspaces, EnforceDiskLimit, SweepWorkspaces, tally, setVars
      <4> QED BY <4>1
    <3>2. CASE Reset BY <3>2 DEF Reset, setVars
    <3>3. CASE \/ \E a \in Archivers, s \in Ids : ArchiveOne(a, s)
               \/ \E s \in Ids : Reclaim(s)
      <4>1. UNCHANGED <<taskVars, disturbed, orphaned, strayed>> /\ (UNCHANGED lost \/ lost' = TRUE)
        BY <3>3, Zenon DEF ArchiveOne, Reclaim, Write, Refused, setVars
      <4> QED BY <4>1
    <3> QED BY <3>1, <3>2, <3>3
  <2> QED BY <2>1 DEF TasksLeft, taskVars
<1>4. RowsLeft
  <2>1. ASSUME UNCHANGED <<sess, stale>> PROVE RowsLeft
    BY <1>1, <2>1 DEF RowsLeft, OldOnly
  <2>2. ASSUME NEW a \in Archivers, NEW s \in Ids, ArchiveOne(a, s) PROVE RowsLeft
    <3>1. UNCHANGED stale BY <2>2 DEF ArchiveOne
    <3>2. CASE sess' = [sess EXCEPT ![s].status = "archived", ![s].aged = FALSE]
      <4>1. sess[s] \in Row BY <1>1
      <4>2. sess'[s] = [[sess[s] EXCEPT !.status = "archived"] EXCEPT !.aged = FALSE]
        BY <1>1, <3>2
      <4>3. /\ sess'[s].status = "archived" /\ sess'[s].ws = sess[s].ws
            /\ sess'[s].branch = sess[s].branch /\ sess'[s].head = sess[s].head
        BY <4>1, <4>2 DEF Row
      <4>4. \A r \in Ids \ {s} : sess'[r] = sess[r] BY <1>1, <3>2
      <4> QED BY <1>1, <3>1, <4>3, <4>4 DEF RowsLeft, OldOnly
    <3>3. CASE UNCHANGED sess BY <2>1, <3>1, <3>3
    <3> QED BY <2>2, <3>2, <3>3 DEF ArchiveOne
  <2>3. ASSUME NEW s \in Ids, Reclaim(s) PROVE RowsLeft
    <3> DEFINE row == [stale[s] EXCEPT !.ws = FALSE]
    <3>1. \A r \in Ids : stale'[r] \in {stale[r], NoRow} BY <1>1, <2>3 DEF Reclaim
    <3>2. stale[s] \in Row BY <1>1
    <3>3. row \in Row BY <3>2, RowFields
    <3>4. row.status = stale[s].status /\ row.ws = FALSE BY <3>2 DEF Row
    <3>5. stale[s].status # "none" /\ Write(s, row) BY <2>3 DEF Reclaim
    <3>6. s \in Legacy BY <1>1, <3>5 DEF OldOnly
    <3> HIDE DEF row
    <3>7. /\ \A r \in Ids \ {s} : sess'[r] = sess[r]
          /\ sess' = sess \/ (sess'[s].status = row.status /\ sess'[s].ws = row.ws)
      BY <1>1, <3>3, <3>5, WriteEffect
    <3> QED BY <1>1, <1>2, <3>1, <3>4, <3>5, <3>6, <3>7 DEF RowsLeft, OldOnly
  <2>4. CASE Age
    <3>1. \A s \in Ids : /\ sess'[s].status = sess[s].status /\ sess'[s].ws = sess[s].ws
                         /\ sess'[s].branch = sess[s].branch /\ sess'[s].head = sess[s].head
      BY <1>1, <2>4 DEF Age, Row
    <3>2. UNCHANGED stale BY <2>4 DEF Age, gcVars
    <3> QED BY <1>1, <3>1, <3>2 DEF RowsLeft, OldOnly
  <2>5. ASSUME NEW rows, SweepWorkspaces(rows), \A s \in rows : s \in Ids /\ sess[s].ws
        PROVE  RowsLeft
    <3>1. \A s \in Ids : stale'[s].status # "none" => s \in rows
      BY <1>1, <1>2, <2>5 DEF SweepWorkspaces
    <3>2. UNCHANGED sess BY <2>5 DEF SweepWorkspaces
    <3> QED BY <1>1, <2>5, <3>1, <3>2 DEF RowsLeft, OldOnly
  <2>6. CASE CleanupArchivedWorkspaces \/ EnforceDiskLimit
    <3>1. PICK rows : SweepWorkspaces(rows) /\ \A s \in rows : s \in Ids /\ sess[s].ws
      BY <2>6 DEF CleanupArchivedWorkspaces, EnforceDiskLimit, Reclaimable
    <3> QED BY <2>5, <3>1
  <2>7. CASE \/ Close \/ \E linked \in BOOLEAN : Merge(linked)
             \/ TimerFires \/ Reset \/ People \/ CleanupIdleSessions
    <3>1. UNCHANGED <<sess, stale>>
      BY <2>7 DEF Close, Merge, TimerFires, Reset, People, CleanupIdleSessions, gcVars
    <3> QED BY <2>1, <3>1
  <2> QED BY <2>2, <2>3, <2>4, <2>6, <2>7
<1>5. GiteaLeft
  <2>1. CASE People \/ \E linked \in BOOLEAN : Merge(linked) BY <1>1, <2>1, GiteaOfPeople
  <2>2. CASE \/ \E a \in Archivers, s \in Ids : ArchiveOne(a, s)
             \/ Close \/ TimerFires \/ Reset \/ Age
             \/ CleanupIdleSessions \/ CleanupArchivedWorkspaces \/ EnforceDiskLimit
             \/ \E s \in Ids : Reclaim(s)
    <3>1. UNCHANGED <<remote, main>>
      BY <2>2 DEF ArchiveOne, Close, TimerFires, Reset, Age, CleanupIdleSessions,
           CleanupArchivedWorkspaces, EnforceDiskLimit, SweepWorkspaces, Reclaim, gitVars
    <3> QED BY <1>1, <3>1, GiteaAsItIs
  <2> QED BY <2>1, <2>2
<1> QED BY <1>3, <1>4, <1>5, WorkOfRest

-----------------------------------------------------------------------------
(* The start point of a task. *)

\* Where the work starts, all of it is on Gitea already.
LEMMA StartOnGitea ==
  ASSUME SessionsTypeOK, NEW t \in Tasks, NEW row \in Row, NEW c \in Commits,
         c = StartPoint(t, row)
  PROVE  \A u \in Tasks : Tips(u, c) \subseteq OnGitea(u)
<1>1. main \in Commits /\ remote \in Commits /\ row.head \in Commits
  BY RowFields DEF SessionsTypeOK
<1>2. CASE c = main \/ c = remote BY <1>2 DEF OnGitea
<1>3. CASE c = NoCommit BY <1>3, TipFacts
<1>4. CASE c = row.head /\ Cloned(row.head)
  BY <1>1, <1>4, TipFacts DEF Cloned, OnGitea
<1> QED BY <1>2, <1>3, <1>4 DEF StartPoint, ExistingBranch

\* It holds all that the branch has of the task's session.
LEMMA StartKeepsOwn ==
  ASSUME WorkInv, ~disturbed, NEW t \in Tasks, pc[t] = "prepare", Modern(t),
         Slipped => onBase[t], NEW c \in Commits, c = StartPoint(t, sess[sid[t]]), c # NoCommit,
         NEW u \in Tasks, sid[u] = sid[t], NEW p \in Tips(u, remote)
  PROVE  Last(p) \in Range(c)
<1> DEFINE row == sess[sid[t]]
<1>1. /\ SessionsTypeOK /\ main \in Commits /\ remote \in Commits /\ SessInv
      /\ sid[t] \in Ids /\ row.head \in Commits /\ row.branch \in BOOLEAN
      /\ onBase[t] \in BOOLEAN
  BY RowFields DEF WorkInv, SessInv, Typed, SessionsTypeOK, Modern
<1>2. p \in Commits /\ p # NoCommit /\ IsPrefix(p, remote) /\ p \in OnGitea(u)
  BY DEF Tips, OnGitea
<1>3. ~Quiet(t) /\ ~Saving(t) BY DEF Quiet, Saving
<1>4. remote # NoCommit BY <1>2, PrefixOrder
<1>5. ASSUME NEW b \in Commits, IsPrefix(p, b) PROVE Last(p) \in Range(b)
  <2>1. p \in Tips(u, b) BY <1>2, <1>5 DEF Tips
  <2> QED BY <2>1, TipMarks
<1>6. CASE ~Existing(t, row)
  <2>1. ~onBase[t] /\ ~row.branch BY <1>4, <1>6 DEF Existing
  <2>2. c = main BY <1>6 DEF StartPoint
  <2>3. ~lost /\ orphaned = {} /\ strayed = {} BY <2>1 DEF Slipped
  <2>4. Anchored(t, p) \/ (Saving(t) /\ IsPrefix(p, local[t]))
    BY <1>2, <1>3, <2>1, <2>3 DEF WorkInv, Recorded, OwnAnchor
  <2> QED BY <1>3, <2>1, <2>4 DEF Anchored
<1>7. CASE Existing(t, row) /\ row.head # NoCommit /\ ~onBase[t]
  <2>1. c = row.head BY <1>7 DEF StartPoint
  <2>2. ~lost /\ orphaned = {} /\ strayed = {} BY <1>7 DEF Slipped
  <2>3. Anchored(t, p) \/ (Saving(t) /\ IsPrefix(p, local[t]))
    BY <1>2, <1>3, <1>7, <2>2 DEF WorkInv, Recorded, OwnAnchor
  <2>4. IsPrefix(p, row.head) BY <1>3, <2>3 DEF Anchored
  <2> QED BY <1>1, <1>5, <2>1, <2>4
<1>8. CASE Existing(t, row) /\ ~(row.head # NoCommit /\ ~onBase[t])
  <2>1. c = remote BY <1>8 DEF StartPoint, ExistingBranch
  <2> QED BY <1>1, <1>2, <1>5, <2>1
<1> QED BY <1>6, <1>7, <1>8

\* It goes on from the anchor, when the task has no base branch.
LEMMA StartFromAnchor ==
  ASSUME SessionsTypeOK, HeadHasBranch, NEW t \in Tasks, Modern(t), ~onBase[t],
         NEW c \in Commits, c = StartPoint(t, sess[sid[t]]), c # NoCommit
  PROVE  IsPrefix(sess[sid[t]].head, c)
<1> DEFINE row == sess[sid[t]]
<1>1. /\ sid[t] \in Ids /\ row.head \in Commits /\ row.branch \in BOOLEAN
  BY RowFields DEF SessionsTypeOK, Modern
<1>2. CASE row.head = NoCommit BY <1>2, PrefixOrder
<1>3. CASE row.head # NoCommit
  <2>1. row.branch BY <1>3 DEF HeadHasBranch, Modern
  <2>2. c = row.head BY <1>3, <2>1 DEF StartPoint, Existing
  <2> QED BY <1>1, <2>2, PrefixOrder
<1> QED BY <1>2, <1>3

\* Without the row, a task with a base branch goes on from the branch.
LEMMA StartBlind ==
  ASSUME NEW t \in Tasks, onBase[t], NEW c, c = StartPoint(t, NewRow(CoderOf[t]))
  PROVE  c = remote
BY DEF StartPoint, Existing, ExistingBranch, NewRow

LEMMA WorkOfPrepare ==
  ASSUME WorkInv, SessInv', NEW t \in Tasks, Prepare(t)
  PROVE  WorkInv'
<1>0. PICK readable \in BOOLEAN :
         /\ IF readable THEN UNCHANGED <<events, lost>> ELSE Refused
         /\ StartPoint(t, Remembered(t, readable)) # NoCommit
         /\ local' = [local EXCEPT ![t] = StartPoint(t, Remembered(t, readable))]
         /\ Goto(t, IF Existing(t, Remembered(t, readable)) THEN "code" ELSE "saveBranch")
  BY DEF Prepare
<1> DEFINE row == Remembered(t, readable)
           c == StartPoint(t, row)
<1>1. /\ pc[t] = "prepare" /\ ~Quiet(t) /\ c # NoCommit
      /\ UNCHANGED <<sess, sid, onBase, copy, remote, main, stale, disturbed,
                     orphaned, strayed>>
  BY <1>0 DEF Prepare, Quiet, gitVars, gcVars
<1>2. /\ SessionsTypeOK /\ SessInv /\ pc \in [Tasks -> PC] /\ local \in [Tasks -> Commits]
      /\ Base /\ local' \in [Tasks -> Commits] /\ sess \in [Ids -> Row] /\ lost \in BOOLEAN
  BY DEF WorkInv, SessInv, Typed, SessionsTypeOK
<1>3. PICK next \in {"code", "saveBranch"} : Goto(t, next) BY <1>0
<1>4. /\ pc'[t] = next /\ \A u \in Tasks \ {t} : pc'[u] = pc[u] /\ local'[u] = local[u]
      /\ local'[t] = c
  BY <1>0, <1>2, <1>3 DEF Goto
<1>5. sid[t] \in Ids BY <1>1, <1>2 DEF SessInv, Typed, Held
<1>6. c \in Commits BY <1>2, <1>4
<1>13. /\ row \in Row
       /\ \/ row = sess[sid[t]] /\ lost' = lost
          \/ row = NewRow(CoderOf[t]) /\ lost' = TRUE
  BY <1>0, <1>2, <1>5, NewRowType, SessionsAssumption DEF Remembered, Refused
<1> HIDE DEF c, row
<1>7. \A u \in Tasks : Tips(u, c) \subseteq OnGitea(u)
  BY <1>2, <1>6, <1>13, StartOnGitea DEF c
<1>8. /\ \A u \in Tasks : Modern(u)' = Modern(u) /\ OnGitea(u)' = OnGitea(u)
      /\ \A u \in Tasks, p \in Commits : Safe(u, p)' = Safe(u, p) /\ Anchored(u, p)' = Anchored(u, p)
  BY <1>1 DEF Modern, OnGitea, Safe, Anchored
<1>9. /\ \A u \in Tasks : Saving(u)' => Saving(u) /\ u # t
      /\ \A u \in Tasks : Saving(u) => Saving(u)' /\ u # t
      /\ \A u \in Tasks : ~Quiet(u)' => ~Quiet(u)
      /\ \A u \in Tasks \ {t} : Working(u)' => Working(u)
  BY <1>1, <1>4 DEF Saving, Quiet, Working
<1>10. Base'
  <2>1. OldOnly' BY <1>1, <1>2, <1>4, <1>8 DEF Base, OldOnly, Writing
  <2>2. HasSession' BY <1>1, <1>2, <1>4 DEF Base, HasSession
  <2>3. \A u \in Tasks : pc'[u] = "new" => pc[u] = "new" /\ Anywhere(u)' \subseteq Anywhere(u)
    <3> SUFFICES ASSUME NEW u \in Tasks, pc'[u] = "new"
                 PROVE  pc[u] = "new" /\ Anywhere(u)' \subseteq Anywhere(u)
      OBVIOUS
    <3>1. \A w \in Tasks : Tips(u, local'[w]) \subseteq OnGitea(u) \cup Tips(u, local[w])
      BY <1>4, <1>7
    <3> QED BY <1>4, <1>8, <3>1 DEF Anywhere
  <2> QED BY <1>2, <2>1, <2>2, <2>3, AuthorsKept DEF Base
<1>11. ASSUME ~disturbed
       PROVE  CopyFresh' /\ HeadHasBranch' /\ SavingHolds' /\ CloneKeepsOwn'
  <2>1. \A u \in Tasks : ~Quiet(u) => u = t BY <1>1, <1>2, <1>11, Alone
  <2>2. CopyFresh' BY <1>1, <1>2, <1>3, <1>11, CopyOfTask DEF Writing
  <2>3. HeadHasBranch' BY <1>1, <1>11 DEF WorkInv, HeadHasBranch
  <2>4. SavingHolds'
    <3>1. \A u \in Tasks : ~Saving(u)'
      BY <1>9, <2>1 DEF Saving, Quiet
    <3> QED BY <3>1 DEF SavingHolds
  <2>5. CloneKeepsOwn'
    <3> SUFFICES ASSUME NEW w \in Tasks, NEW u \in Tasks, Working(w)', Modern(w)',
                        sid'[u] = sid'[w], Slipped' => onBase'[w], NEW p \in Tips(u, remote')
                 PROVE  Last(p) \in Range(local'[w])
      BY DEF CloneKeepsOwn
    <3>1. w = t BY <1>9, <2>1 DEF Working, Quiet
    <3>2. /\ Modern(t) /\ sid[u] = sid[t] /\ p \in Tips(u, remote)
          /\ (Slipped' => onBase[t])
      BY <1>1, <1>8, <3>1
    <3>3. Slipped => onBase[t] BY <1>1, <1>13, <3>2 DEF Slipped
    <3>4. CASE row = sess[sid[t]]
      BY <1>1, <1>4, <1>6, <1>11, <3>1, <3>2, <3>3, <3>4, StartKeepsOwn DEF c
    <3>5. CASE row = NewRow(CoderOf[t]) /\ lost'
      <4>1. onBase[t] BY <3>2, <3>5 DEF Slipped
      <4>2. c = remote BY <3>5, <4>1, StartBlind DEF c
      <4>3. Last(p) \in Range(c) BY <1>6, <3>2, <4>2, TipMarks
      <4> QED BY <1>4, <3>1, <4>3
    <3> QED BY <1>13, <3>4, <3>5
  <2> QED BY <2>2, <2>3, <2>4, <2>5
<1>12. ASSUME ~disturbed, ~lost', strayed = {} PROVE Recorded'
  <2>0. Recorded /\ HeadHasBranch /\ row = sess[sid[t]] BY <1>12, <1>13 DEF WorkInv
  <2>1. \A u \in Tasks : ~Quiet(u) => u = t BY <1>1, <1>2, <1>12, Alone
  <2>2. PushedSafe'
    BY <1>1, <1>8, <1>9, <2>0 DEF Recorded, PushedSafe, Tips
  <2>3. CloneSafe'
    <3> SUFFICES ASSUME NEW w \in Tasks, NEW u \in Tasks \ orphaned, Working(w)', u # w,
                        Modern(u)', NEW p \in Tips(u, local'[w])
                 PROVE  Safe(u, p)'
      BY <1>1 DEF CloneSafe
    <3>1. w = t BY <1>9, <2>1 DEF Working, Quiet
    <3>2. p \in OnGitea(u) /\ p \in Commits BY <1>4, <1>7, <3>1 DEF Tips
    <3>3. CASE p \in Tips(u, main) BY <1>8, <3>2, <3>3 DEF Safe, Tips
    <3>4. CASE p \in Tips(u, remote)
      <4>1. Quiet(u) BY <2>1, <3>1
      <4>2. ~Saving(u) BY <4>1 DEF Quiet, Saving
      <4> QED BY <1>8, <2>0, <3>2, <3>4, <4>2 DEF Recorded, PushedSafe
    <3> QED BY <3>2, <3>3, <3>4 DEF OnGitea
  <2>4. BranchKnown' BY <1>1, <1>8, <1>9, <2>0 DEF Recorded, BranchKnown
  <2>5. OwnAnchor'
    <3> SUFFICES ASSUME orphaned = {}, NEW w \in Tasks, NEW u \in Tasks, ~Quiet(w)',
                        ~onBase'[w], Modern(w)', sid'[u] = sid'[w], NEW p \in OnGitea(u)'
                 PROVE  Anchored(w, p)'
      BY <1>1 DEF OwnAnchor
    <3>1. w = t BY <1>9, <2>1
    <3>2. p \in Commits BY DEF OnGitea, Tips
    <3>3. Anchored(t, p) \/ (Saving(t) /\ IsPrefix(p, local[t]))
      BY <1>1, <1>8, <2>0, <3>1 DEF Recorded, OwnAnchor
    <3> QED BY <1>1, <1>8, <3>1, <3>2, <3>3 DEF Saving
  <2>6. FromAnchor'
    <3> SUFFICES ASSUME NEW w \in Tasks, Working(w)' \/ Saving(w)', ~onBase'[w], Modern(w)'
                 PROVE  IsPrefix(sess'[sid'[w]].head, local'[w])
      BY DEF FromAnchor
    <3>1. w = t BY <1>9, <2>1 DEF Working, Saving, Quiet
    <3>2. Modern(t) /\ ~onBase[t] BY <1>1, <1>8, <3>1
    <3> QED BY <1>1, <1>2, <1>4, <1>6, <2>0, <3>1, <3>2, StartFromAnchor DEF c
  <2> QED BY <2>2, <2>3, <2>4, <2>5, <2>6 DEF Recorded
<1> QED BY <1>1, <1>10, <1>11, <1>12 DEF WorkInv

-----------------------------------------------------------------------------
(* The push, and the record of the pushed head. *)

LEMMA WorkOfPush ==
  ASSUME WorkInv, SessInv', NEW t \in Tasks, Push(t)
  PROVE  WorkInv'
<1>1. /\ pc[t] = "push" /\ ~Quiet(t) /\ remote' = local[t]
      /\ UNCHANGED <<sess, sid, onBase, copy, main, stale, disturbed, lost, strayed>>
  BY DEF Push, ForcePush, Quiet, gcVars
<1>2. /\ SessionsTypeOK /\ SessInv /\ pc \in [Tasks -> PC] /\ local \in [Tasks -> Commits]
      /\ Base /\ main \in Commits
  BY DEF WorkInv, SessInv, Typed, SessionsTypeOK
<1>3. PICK next \in {"saveHead", "prepare", "failed"} :
         /\ Goto(t, next)
         /\ \/ next = "saveHead" /\ UNCHANGED <<local, orphaned>>
            \/ /\ next # "saveHead" /\ orphaned' = orphaned \cup {t}
               /\ local' = [local EXCEPT ![t] = NoCommit]
  BY DEF Push, AttemptFails
<1>4. /\ pc'[t] = next /\ \A u \in Tasks \ {t} : pc'[u] = pc[u] /\ local'[u] = local[u]
      /\ orphaned \subseteq orphaned' /\ (next # "saveHead" => t \in orphaned')
      /\ next = "saveHead" => local'[t] = local[t]
  BY <1>2, <1>3 DEF Goto
<1>5. /\ \A u \in Tasks : Modern(u)' = Modern(u)
      /\ \A u \in Tasks, p \in Commits : Safe(u, p)' = Safe(u, p) /\ Anchored(u, p)' = Anchored(u, p)
      /\ \A u \in Tasks : OnGitea(u)' = Tips(u, local[t]) \cup Tips(u, main)
  BY <1>1 DEF Modern, OnGitea, Safe, Anchored
<1>6. Base'
  <2>1. OldOnly' BY <1>1, <1>2, <1>4, <1>5 DEF Base, OldOnly, Writing
  <2>2. HasSession' BY <1>1, <1>2, <1>4 DEF Base, HasSession
  <2>3. \A u \in Tasks : pc'[u] = "new" => pc[u] = "new" /\ Anywhere(u)' \subseteq Anywhere(u)
    <3> SUFFICES ASSUME NEW u \in Tasks, pc'[u] = "new"
                 PROVE  pc[u] = "new" /\ Anywhere(u)' \subseteq Anywhere(u)
      OBVIOUS
    <3>1. Tips(u, NoCommit) = {} BY TipFacts
    <3>2. \A w \in Tasks : Tips(u, local'[w]) \subseteq Tips(u, local[w])
      BY <1>2, <1>3, <3>1
    <3> QED BY <1>1, <1>4, <1>5, <3>2 DEF Anywhere, OnGitea
  <2> QED BY <1>2, <2>1, <2>2, <2>3, AuthorsKept DEF Base
<1>7. ASSUME ~disturbed
      PROVE  /\ \A u \in Tasks \ {t} : Quiet(u) /\ ~Saving(u) /\ ~Saving(u)' /\ Quiet(u)'
             /\ Saving(t)' <=> next = "saveHead"
             /\ \A u \in Tasks : ~Working(u)'
  <2>1. \A u \in Tasks \ {t} : Quiet(u) BY <1>1, <1>2, <1>7, Alone
  <2> QED BY <1>4, <2>1 DEF Quiet, Saving, Working
<1>8. ASSUME ~disturbed
      PROVE  CopyFresh' /\ HeadHasBranch' /\ SavingHolds' /\ CloneKeepsOwn'
  <2>1. CopyFresh' BY <1>1, <1>2, <1>3, <1>8, CopyOfTask DEF Writing
  <2>2. HeadHasBranch' BY <1>1, <1>8 DEF WorkInv, HeadHasBranch
  <2>3. SavingHolds'
    <3> SUFFICES ASSUME NEW u \in Tasks, NEW w \in Tasks, Saving(u)', NEW p \in Tips(w, remote')
                 PROVE  IsPrefix(p, local'[u])
      BY DEF SavingHolds
    <3>1. u = t /\ local'[t] = local[t] BY <1>4, <1>7, <1>8
    <3> QED BY <1>1, <3>1 DEF Tips
  <2>4. CloneKeepsOwn' BY <1>7, <1>8 DEF CloneKeepsOwn
  <2> QED BY <2>1, <2>2, <2>3, <2>4
<1>9. ASSUME ~disturbed, ~lost, strayed = {} PROVE Recorded'
  <2>0. Recorded /\ Working(t) /\ ~Saving(t) BY <1>1, <1>9 DEF WorkInv, Working, Saving
  <2>1. PushedSafe'
    <3> SUFFICES ASSUME NEW u \in Tasks \ orphaned', Modern(u)', ~Saving(u)',
                        NEW p \in Tips(u, remote')
                 PROVE  Safe(u, p)'
      BY DEF PushedSafe
    <3>0. u \notin orphaned BY <1>4
    <3>1. u # t /\ Modern(u) /\ p \in Tips(u, local[t]) /\ p \in Commits
      BY <1>1, <1>4, <1>5, <1>7, <1>9 DEF Tips
    <3> QED BY <1>5, <2>0, <3>0, <3>1 DEF Recorded, CloneSafe
  <2>2. CloneSafe' BY <1>7, <1>9 DEF CloneSafe
  <2>3. BranchKnown'
    <3> SUFFICES ASSUME NEW u \in Tasks \ orphaned', Modern(u)', OnGitea(u)' # {}, u # t
                 PROVE  sess'[sid'[u]].branch
      BY <1>4, <1>7, <1>9 DEF BranchKnown
    <3>1. Modern(u) /\ ~Saving(u) /\ u \notin orphaned BY <1>4, <1>5, <1>7, <1>9
    <3>2. CASE OnGitea(u) # {} BY <1>1, <2>0, <3>1, <3>2 DEF Recorded, BranchKnown
    <3>3. CASE OnGitea(u) = {}
      <4>1. PICK p \in Tips(u, local[t]) : p \in Commits /\ p # NoCommit /\ Last(p)[1] = u
        BY <1>5, <3>3 DEF OnGitea, Tips
      <4>2. Safe(u, p) BY <2>0, <3>1, <4>1 DEF Recorded, CloneSafe
      <4>3. ~IsPrefix(p, main) BY <3>3, <4>1 DEF OnGitea, Tips
      <4> QED BY <1>1, <4>2, <4>3 DEF Safe, Anchored
    <3> QED BY <3>2, <3>3
  <2>4. OwnAnchor'
    <3> SUFFICES ASSUME orphaned' = {}, NEW w \in Tasks, NEW u \in Tasks, ~Quiet(w)',
                        ~onBase'[w], Modern(w)', sid'[u] = sid'[w], NEW p \in OnGitea(u)'
                 PROVE  Anchored(w, p)' \/ (Saving(w)' /\ IsPrefix(p, local'[w]))
      BY DEF OwnAnchor
    <3>1. w = t /\ next = "saveHead" /\ local'[t] = local[t] /\ orphaned = {}
      BY <1>4, <1>7, <1>9
    <3>2. p \in Commits BY DEF OnGitea, Tips
    <3>3. CASE p \in Tips(u, local[t]) BY <1>1, <1>7, <1>9, <3>1, <3>3 DEF Tips
    <3>4. CASE p \in Tips(u, main)
      <4>1. Anchored(t, p)
        BY <1>1, <1>5, <2>0, <3>1, <3>4 DEF Recorded, OwnAnchor, OnGitea
      <4> QED BY <1>5, <3>1, <3>2, <4>1
    <3> QED BY <1>5, <3>3, <3>4
  <2>5. FromAnchor'
    <3> SUFFICES ASSUME NEW w \in Tasks, Working(w)' \/ Saving(w)', ~onBase'[w], Modern(w)'
                 PROVE  IsPrefix(sess'[sid'[w]].head, local'[w])
      BY DEF FromAnchor
    <3>1. w = t /\ local'[t] = local[t] BY <1>4, <1>7, <1>9
    <3> QED BY <1>1, <1>5, <2>0, <3>1 DEF Recorded, FromAnchor
  <2> QED BY <2>1, <2>2, <2>3, <2>4, <2>5 DEF Recorded
<1> QED BY <1>1, <1>6, <1>8, <1>9 DEF WorkInv

\* The end of the save: the row knows the branch and the head that was pushed,
\* or its write was refused.
LEMMA WorkOfRecord ==
  ASSUME WorkInv, SessInv', NEW t \in Tasks, Saving(t), pc' = [pc EXCEPT ![t] = "open"],
         UNCHANGED <<sid, onBase, local, remote, main, disturbed, orphaned, strayed>>,
         OldOnly', HasSession',
         \A r \in Ids \ {sid[t]} : sess'[r] = sess[r],
         \/ sess' = sess /\ lost'
         \/ /\ lost' = lost /\ sess'[sid[t]].branch
            /\ sess'[sid[t]].head = local[t] \/ strayed # {}
         \/ sess' = sess /\ lost' = lost /\ strayed # {}
  PROVE  WorkInv'
<1>1. /\ SessionsTypeOK /\ SessInv /\ pc \in [Tasks -> PC] /\ Base
      /\ lost \in BOOLEAN /\ local \in [Tasks -> Commits]
  BY DEF WorkInv, SessInv, Typed, SessionsTypeOK
<1>2. ~Quiet(t) /\ Goto(t, "open") BY DEF Saving, Quiet, Goto
<1>3. pc'[t] = "open" /\ \A u \in Tasks \ {t} : pc'[u] = pc[u] BY <1>1
<1>4. sid[t] \in Ids BY <1>1, <1>2 DEF SessInv, Typed, Held
<1>5. Base'
  <2>1. \A u \in Tasks : pc'[u] = "new" => pc[u] = "new" /\ Anywhere(u)' \subseteq Anywhere(u)
    BY <1>3 DEF Anywhere, OnGitea
  <2> QED BY <1>1, <2>1, AuthorsKept DEF Base
<1>6. ASSUME ~disturbed
      PROVE  /\ \A u \in Tasks \ {t} : Quiet(u) /\ ~Saving(u)
             /\ \A u \in Tasks : ~Saving(u)' /\ ~Working(u)' /\ (~Quiet(u)' => u = t)
  <2>1. \A u \in Tasks \ {t} : Quiet(u) BY <1>1, <1>2, <1>6, Alone
  <2> QED BY <1>3, <2>1 DEF Quiet, Saving, Working
<1>7. ASSUME ~disturbed
      PROVE  CopyFresh' /\ HeadHasBranch' /\ SavingHolds' /\ CloneKeepsOwn'
  <2>1. CopyFresh' BY <1>1, <1>2, <1>7, CopyOfTask DEF Writing
  <2>2. HeadHasBranch' BY <1>7 DEF WorkInv, HeadHasBranch
  <2>3. SavingHolds' BY <1>6, <1>7 DEF SavingHolds
  <2>4. CloneKeepsOwn' BY <1>6, <1>7 DEF CloneKeepsOwn
  <2> QED BY <2>1, <2>2, <2>3, <2>4
<1>8. ASSUME ~disturbed, ~lost', strayed = {} PROVE Recorded'
  <2>0. ~lost /\ sess'[sid[t]].branch /\ sess'[sid[t]].head = local[t]
    BY <1>8
  <2>1. Recorded /\ SavingHolds BY <1>8, <2>0 DEF WorkInv
  <2>2. \A u \in Tasks : OnGitea(u)' = OnGitea(u) /\ Modern(u)' = Modern(u)
    BY DEF OnGitea, Modern
  <2>3. ASSUME NEW u \in Tasks, Modern(u), sid[u] # sid[t]
        PROVE  /\ ~Saving(u) /\ sess'[sid'[u]] = sess[sid[u]]
               /\ \A p : Safe(u, p) => Safe(u, p)'
    BY <1>6, <1>8, <2>3 DEF Safe, Anchored, Modern
  <2>4. PushedSafe'
    <3> SUFFICES ASSUME NEW u \in Tasks \ orphaned, Modern(u)', NEW p \in Tips(u, remote')
                 PROVE  Safe(u, p)'
      BY DEF PushedSafe
    <3>1. Modern(u) /\ p \in Tips(u, remote) BY <2>2
    <3>2. CASE sid[u] = sid[t]
      <4>1. IsPrefix(p, local[t]) BY <2>1, <3>1 DEF SavingHolds
      <4> QED BY <2>0, <3>2, <4>1 DEF Safe, Anchored
    <3>3. CASE sid[u] # sid[t] BY <2>1, <2>3, <3>1, <3>3 DEF Recorded, PushedSafe
    <3> QED BY <3>2, <3>3
  <2>5. CloneSafe' BY <1>6, <1>8 DEF CloneSafe
  <2>6. BranchKnown'
    <3> SUFFICES ASSUME NEW u \in Tasks \ orphaned, Modern(u)', OnGitea(u)' # {}
                 PROVE  sess'[sid'[u]].branch
      BY DEF BranchKnown
    <3>1. Modern(u) /\ OnGitea(u) # {} BY <2>2
    <3>2. CASE sid[u] = sid[t] BY <2>0, <3>2
    <3>3. CASE sid[u] # sid[t] BY <2>1, <2>3, <3>1, <3>3 DEF Recorded, BranchKnown
    <3> QED BY <3>2, <3>3
  <2>7. OwnAnchor'
    <3> SUFFICES ASSUME orphaned = {}, NEW w \in Tasks, NEW u \in Tasks, ~Quiet(w)',
                        ~onBase'[w], Modern(w)', sid'[u] = sid'[w], NEW p \in OnGitea(u)'
                 PROVE  Anchored(w, p)'
      BY DEF OwnAnchor
    <3>1. w = t BY <1>6, <1>8
    <3>2. Modern(t) /\ ~onBase[t] /\ sid[u] = sid[t] /\ p \in OnGitea(u) BY <2>2, <3>1
    <3>3. Anchored(t, p) \/ IsPrefix(p, local[t])
      BY <1>2, <2>1, <3>2 DEF Recorded, OwnAnchor
    <3>4. CASE Anchored(t, p)
      <4>1. IsPrefix(p, sess[sid[t]].head) BY <3>4 DEF Anchored
      <4>2. IsPrefix(sess[sid[t]].head, local[t]) BY <2>1, <3>2 DEF Recorded, FromAnchor
      <4>3. sess[sid[t]].head \in Commits /\ local[t] \in Commits /\ p \in Commits
        BY <1>1, <1>4, <3>2, RowFields DEF SessionsTypeOK, OnGitea, Tips
      <4>4. IsPrefix(p, local[t]) BY <4>1, <4>2, <4>3, PrefixOrder
      <4> QED BY <2>0, <3>1, <4>4 DEF Anchored
    <3>5. CASE IsPrefix(p, local[t]) BY <2>0, <3>1, <3>5 DEF Anchored
    <3> QED BY <3>3, <3>4, <3>5
  <2>8. FromAnchor' BY <1>6, <1>8 DEF FromAnchor
  <2> QED BY <2>4, <2>5, <2>6, <2>7, <2>8 DEF Recorded
<1> QED BY <1>5, <1>7, <1>8 DEF WorkInv

LEMMA WorkOfSaveHead ==
  ASSUME WorkInv, NoneBlind, SessInv', NEW t \in Tasks, SaveHead(t) \/ (SaveHeadRead(t) /\ pc'[t] = "open")
  PROVE  WorkInv'
<1>0. /\ SessionsTypeOK /\ SessInv /\ Base /\ pc \in [Tasks -> PC] /\ copy[t] \in Row
      /\ local[t] \in Commits /\ main \in Commits
  BY DEF WorkInv, SessInv, Typed, SessionsTypeOK
<1>1. CASE SaveHeadRead(t) /\ pc'[t] = "open"
  <2>0. PICK head \in HeadSHA(t) :
           ReadRow(t, "saveHead", "writeHead",
                   t \in blind \/ (sess[sid[t]].branch /\ sess[sid[t]].head = head), "open")
    BY <1>1 DEF SaveHeadRead
  <2>1. /\ pc[t] = "saveHead" /\ Goto(t, "open")
        /\ t \in blind \/ (sess[sid[t]].branch /\ sess[sid[t]].head = head)
        /\ UNCHANGED <<sess, sid, onBase, local, copy, remote, main, stale, disturbed, lost,
                       orphaned, strayed>>
    BY <1>0, <1>1, <2>0 DEF ReadRow, Goto, gitVars, gcVars, tally, setVars
  <2>5. \/ lost
        \/ sess[sid[t]].branch /\ (sess[sid[t]].head = local[t] \/ strayed # {})
    BY <2>1 DEF HeadSHA, NoneBlind
  <2>2. Saving(t) /\ pc' = [pc EXCEPT ![t] = "open"] BY <2>1 DEF Saving, Goto
  <2>3. OldOnly' BY <1>0, <2>1, <2>2 DEF Base, OldOnly, Writing, Modern
  <2>4. HasSession' BY <1>0, <2>1, <2>2 DEF Base, HasSession
  <2> QED BY <2>1, <2>2, <2>3, <2>4, <2>5, WorkOfRecord
<1>2. CASE SaveHead(t)
  <2>0. PICK head \in HeadSHA(t) :
           WriteRow(t, "writeHead", "open", [copy[t] EXCEPT !.branch = TRUE, !.head = head])
    BY <1>2 DEF SaveHead
  <2> DEFINE row == [copy[t] EXCEPT !.branch = TRUE, !.head = head]
  <2>10. head \in Commits /\ (head = local[t] \/ strayed # {}) BY <1>0 DEF HeadSHA
  <2>1. /\ row.status = copy[t].status /\ row.ws = copy[t].ws /\ row.branch
        /\ row.head = head
    BY <1>0 DEF Row
  <2>2. row \in Row BY <1>0, <2>10, RowFields
  <2>3. WriteRow(t, "writeHead", "open", row) BY <2>0
  <2> HIDE DEF row
  <2>4. "writeHead" \in Writing /\ "open" \in PC \ Writing BY DEF PC, Writing
  <2>5. /\ pc[t] = "writeHead" /\ Saving(t) /\ ~Quiet(t) /\ pc' = [pc EXCEPT ![t] = "open"]
        /\ UNCHANGED <<sid, onBase, local, remote, main, disturbed, orphaned, strayed>>
        /\ Write(sid[t], row)
    BY <2>3 DEF WriteRow, Goto, Saving, Quiet, gitVars, setVars
  <2>6. row.status # "none" BY <1>0, <2>1, <2>4, <2>5 DEF SessInv, CopyOwn
  <2>7. OldOnly' /\ HasSession' BY <2>1, <2>2, <2>3, <2>4, <2>6, RowsOfWrite
  <2>8. sid[t] \in Ids BY <1>0, <2>5 DEF SessInv, Typed, Held
  <2>9. /\ \A r \in Ids \ {sid[t]} : sess'[r] = sess[r]
        /\ \/ sess' = sess /\ lost'
           \/ lost' = lost /\ sess'[sid[t]].branch = row.branch /\ sess'[sid[t]].head = row.head
    BY <1>0, <2>2, <2>5, <2>8, WriteEffect
  <2> QED BY <2>1, <2>5, <2>7, <2>9, <2>10, WorkOfRecord
<1> QED BY <1>1, <1>2

-----------------------------------------------------------------------------
(* The dispatch. *)

LEMMA WorkOfDispatch ==
  ASSUME WorkInv, SessInv', NEW t \in Tasks, Dispatch(t)
  PROVE  WorkInv'
<1>0. /\ SessionsTypeOK /\ SessInv /\ Base /\ pc \in [Tasks -> PC] /\ sess \in [Ids -> Row]
      /\ sid \in [Tasks -> Ids \cup {NoId}] /\ onBase \in [Tasks -> BOOLEAN]
  BY DEF WorkInv, SessInv, Typed, SessionsTypeOK
<1>1. PICK s \in Ids, fromPR \in BOOLEAN :
         /\ GetOrCreate(t, s) /\ sid' = [sid EXCEPT ![t] = s]
         /\ onBase' = [onBase EXCEPT ![t] = fromPR \/ sess'[s].branch]
  BY DEF Dispatch
<1>2. /\ pc[t] = "new" /\ lock = NoTask /\ pc' = [pc EXCEPT ![t] = "prepare"]
      /\ UNCHANGED <<local, copy, remote, main, stale, lost, disturbed, orphaned, strayed>>
  BY DEF Dispatch, Goto, gitVars, gcVars, tally, setVars
<1>3. /\ pc'[t] = "prepare" /\ sid'[t] = s /\ (~onBase'[t] => ~sess'[s].branch)
      /\ \A u \in Tasks \ {t} : pc'[u] = pc[u] /\ sid'[u] = sid[u]
  BY <1>0, <1>1, <1>2
<1>4. \/ sess' = sess /\ sess[s].status # "none"
      \/ /\ sess[s].status = "none"
         /\ \A r \in Ids \ {s} : sess'[r] = sess[r]
         /\ sess'[s].status # "none" /\ ~sess'[s].ws /\ sess'[s].head = NoCommit
  BY <1>0, <1>1 DEF GetOrCreate, OpenOf, Listed, NewRow
<1>5. /\ \A u \in Tasks : OnGitea(u)' = OnGitea(u) /\ Anywhere(u)' = Anywhere(u)
      /\ Anywhere(t) = {} /\ \A u \in Tasks : OnGitea(u) \subseteq Anywhere(u)
  BY <1>0, <1>2 DEF OnGitea, Anywhere, Base, Authors
<1>6. ASSUME NEW u \in Tasks, OnGitea(u) # {}
      PROVE  u # t /\ pc[u] # "new" /\ Modern(u)' = Modern(u)
             /\ (Modern(u) => sess'[sid'[u]] = sess[sid[u]] /\ sess[sid[u]].status # "none")
  <2>1. u # t /\ pc[u] # "new" BY <1>0, <1>5, <1>6 DEF Base, Authors
  <2>2. sid[u] \in Ids /\ sess[sid[u]].status # "none" BY <1>0, <2>1 DEF Base, HasSession
  <2> QED BY <1>3, <1>4, <2>1, <2>2 DEF Modern
<1>7. Base'
  <2>1. OldOnly'
    <3>1. \A r \in Ids : sess'[r].ws => r \in Legacy BY <1>0, <1>4 DEF Base, OldOnly
    <3>2. \A u \in Tasks : pc'[u] \in Writing /\ copy'[u].ws => ~Modern(u)'
      BY <1>0, <1>2, <1>3 DEF Base, OldOnly, Writing, Modern
    <3> QED BY <1>0, <1>2, <3>1, <3>2 DEF Base, OldOnly
  <2>2. HasSession' BY <1>0, <1>3, <1>4 DEF Base, HasSession
  <2>3. Authors' BY <1>0, <1>3, <1>5, AuthorsKept DEF Base
  <2> QED BY <2>1, <2>2, <2>3 DEF Base
<1>8. ASSUME ~disturbed
      PROVE  /\ \A u \in Tasks : Quiet(u) /\ ~Saving(u)
             /\ \A u \in Tasks : ~Saving(u)' /\ ~Working(u)' /\ pc'[u] \notin Writing
             /\ \A u \in Tasks : ~Quiet(u)' => u = t
  <2>1. \A u \in Tasks : Quiet(u) BY <1>0, <1>2, <1>8, SessionsAssumption DEF SessInv, SoleTask
  <2> QED BY <1>3, <2>1 DEF Quiet, Saving, Working, Writing
<1>9. ASSUME ~disturbed
      PROVE  CopyFresh' /\ HeadHasBranch' /\ SavingHolds' /\ CloneKeepsOwn'
  <2>1. HeadHasBranch' BY <1>4, <1>9 DEF WorkInv, HeadHasBranch
  <2> QED BY <1>8, <1>9, <2>1 DEF CopyFresh, SavingHolds, CloneKeepsOwn
<1>10. ASSUME ~disturbed, ~lost, strayed = {} PROVE Recorded'
  <2>0. Recorded BY <1>10 DEF WorkInv
  <2>1. PushedSafe'
    <3> SUFFICES ASSUME NEW u \in Tasks \ orphaned, Modern(u)', NEW p \in Tips(u, remote')
                 PROVE  Safe(u, p)'
      BY <1>2 DEF PushedSafe
    <3>1. p \in Tips(u, remote) /\ OnGitea(u) # {} BY <1>2 DEF OnGitea
    <3>2. Modern(u) /\ sess'[sid'[u]] = sess[sid[u]] BY <1>6, <3>1
    <3>3. Safe(u, p) BY <1>8, <1>10, <2>0, <3>1, <3>2 DEF Recorded, PushedSafe
    <3> QED BY <1>2, <3>2, <3>3 DEF Safe, Anchored
  <2>2. BranchKnown'
    <3> SUFFICES ASSUME NEW u \in Tasks \ orphaned, Modern(u)', OnGitea(u)' # {}
                 PROVE  sess'[sid'[u]].branch
      BY <1>2 DEF BranchKnown
    <3>1. OnGitea(u) # {} BY <1>5
    <3>2. Modern(u) /\ sess'[sid'[u]] = sess[sid[u]] BY <1>6, <3>1
    <3> QED BY <1>8, <1>10, <2>0, <3>1, <3>2 DEF Recorded, BranchKnown
  <2>3. OwnAnchor'
    <3> SUFFICES ASSUME orphaned = {}, NEW w \in Tasks, NEW u \in Tasks, ~Quiet(w)',
                        ~onBase'[w], Modern(w)', sid'[u] = sid'[w], NEW p \in OnGitea(u)'
                 PROVE  FALSE
      BY <1>2 DEF OwnAnchor
    <3>1. w = t /\ OnGitea(u) # {} BY <1>5, <1>8, <1>10
    <3>2. u # t /\ sid'[u] = s /\ sid[u] = s BY <1>3, <1>6, <3>1
    <3>3. Modern(u) BY <1>3, <3>1, <3>2 DEF Modern
    <3>4. sess'[s] = sess[s] BY <1>6, <3>1, <3>2, <3>3
    <3>5. sess[s].branch BY <1>8, <1>10, <2>0, <3>1, <3>2, <3>3 DEF Recorded, BranchKnown
    <3> QED BY <1>3, <3>1, <3>4, <3>5
  <2> QED BY <1>8, <1>10, <2>1, <2>2, <2>3 DEF Recorded, CloneSafe, FromAnchor
<1> QED BY <1>2, <1>7, <1>9, <1>10 DEF WorkInv

LEMMA WorkOfRestart ==
  ASSUME WorkInv, SessInv', Restart
  PROVE  WorkInv'
<1>1. /\ UNCHANGED <<sess, sid, onBase, remote, main, lost, disturbed, strayed>>
      /\ orphaned' = orphaned \cup {t \in Tasks : pc[t] \in {"saveHead", "writeHead"}}
      /\ local' = [t \in Tasks |-> NoCommit] /\ stale' = [s \in Ids |-> NoRow]
  BY DEF Restart, gitVars
<1>2. SessionsTypeOK /\ Base /\ main \in Commits BY DEF WorkInv, SessInv, Typed, SessionsTypeOK
<1>3. \A t \in Tasks : \/ pc'[t] = pc[t] /\ pc[t] \in {"new", "prepare", "done", "failed"}
                       \/ pc'[t] = "failed" /\ pc[t] # "new"
  BY DEF Restart, Quiet
<1>4. \A t \in Tasks : /\ ~Working(t)' /\ ~Saving(t)' /\ pc'[t] \notin Writing
                       /\ (~Quiet(t)' => ~Quiet(t)) /\ (pc'[t] = "new" <=> pc[t] = "new")
  BY <1>3 DEF Working, Saving, Writing, Quiet
<1>5. NoRow.status = "none" BY DEF NoRow, NewRow
<1>6. Base'
  <2>1. OldOnly' BY <1>1, <1>2, <1>4, <1>5 DEF Base, OldOnly
  <2>2. HasSession' BY <1>1, <1>2, <1>4 DEF Base, HasSession
  <2>3. \A t \in Tasks : Anywhere(t)' \subseteq Anywhere(t)
    <3>1. \A t \in Tasks : Tips(t, NoCommit) = {} BY TipFacts
    <3>2. \A t, u \in Tasks : Tips(t, local'[u]) = {} BY <1>1, <3>1
    <3> QED BY <1>1, <3>2 DEF Anywhere, OnGitea
  <2> QED BY <1>2, <1>4, <2>1, <2>2, <2>3, AuthorsKept DEF Base
<1>7. Settled
  <2>1. IsPrefix(main, main') BY <1>1, <1>2, PrefixOrder
  <2>2. \A t \in Tasks : Saving(t) => t \in orphaned' BY <1>1 DEF Saving
  <2> QED BY <1>1, <1>4, <2>1, <2>2 DEF Settled, OnGitea
<1>8. CopyFresh' BY <1>4 DEF CopyFresh
<1>9. ~disturbed => HeadHasBranch' BY <1>1 DEF WorkInv, HeadHasBranch
<1> QED BY <1>1, <1>6, <1>7, <1>8, <1>9, WorkFromSettled

-----------------------------------------------------------------------------
LEMMA WorkInit == SessionsInit => WorkInv
<1> SUFFICES ASSUME SessionsInit PROVE WorkInv
  OBVIOUS
<1>0. /\ pc = [t \in Tasks |-> "new"] /\ local = [t \in Tasks |-> NoCommit]
      /\ remote = NoCommit /\ main = << <<"main", 0>> >> /\ stale = [s \in Ids |-> NoRow]
      /\ sess \in [Ids -> {NoRow} \cup OldRow] /\ \A s \in Ids : s \in Legacy <=> sess[s].ws
  BY Zenon DEF SessionsInit
<1>1. SessInv BY InvInit
<1>2. \A t \in Tasks : /\ Quiet(t) /\ ~Working(t) /\ ~Saving(t) /\ pc[t] \notin Writing
                       /\ pc[t] = "new"
  BY <1>0 DEF Quiet, Working, Saving, Writing
<1>3. \A t \in Tasks : Anywhere(t) = {} /\ OnGitea(t) = {} /\ Tips(t, remote) = {}
  <2> SUFFICES ASSUME NEW t \in Tasks
               PROVE  Anywhere(t) = {} /\ OnGitea(t) = {} /\ Tips(t, remote) = {}
    OBVIOUS
  <2>1. Tips(t, NoCommit) = {} BY TipFacts
  <2>2. main = Append(NoCommit, <<"main", 0>>) BY <1>0 DEF NoCommit
  <2>3. <<"main", 0>> \in Marks /\ <<"main", 0>>[1] # t /\ NoCommit \in Commits
    BY SessionsAssumption, CommitFacts DEF Marks
  <2>4. Tips(t, main) = {} BY <2>1, <2>2, <2>3, TipFacts
  <2>5. \A u \in Tasks : Tips(t, local[u]) = {} BY <1>0, <2>1
  <2> QED BY <1>0, <2>1, <2>4, <2>5 DEF Anywhere, OnGitea
<1>4. NoRow.status = "none" /\ NoRow.head = NoCommit BY DEF NoRow, NewRow
<1>5. OldOnly BY <1>0, <1>2, <1>4 DEF OldOnly
<1>6. HeadHasBranch BY <1>0, <1>4 DEF HeadHasBranch, OldRow
<1>7. Base BY <1>2, <1>3, <1>5 DEF Base, HasSession, Authors
<1>8. CopyFresh /\ SavingHolds /\ CloneKeepsOwn
  BY <1>2 DEF CopyFresh, SavingHolds, CloneKeepsOwn
<1>9. Recorded
  BY <1>2, <1>3, Zenon DEF Recorded, PushedSafe, CloneSafe, BranchKnown, OwnAnchor, FromAnchor
<1> QED BY <1>1, <1>6, <1>7, <1>8, <1>9 DEF WorkInv

LEMMA BlindInit == SessionsInit => NoneBlind
BY DEF SessionsInit, NoneBlind

\* Nobody but a failed read of the row makes a task blind.
LEMMA BlindNext == NoneBlind /\ [SessionsNext]_sessionVars => NoneBlind'
<1> SUFFICES ASSUME NoneBlind, [SessionsNext]_sessionVars PROVE NoneBlind'
  OBVIOUS
<1> USE DEF NoneBlind, tally, setVars
<1>1. CASE UNCHANGED sessionVars BY <1>1 DEF sessionVars
<1>3. ASSUME NEW t \in Tasks, TaskStep(t) PROVE NoneBlind'
  <2>1. CASE Prepare(t)
    <3>1. PICK readable \in BOOLEAN :
             /\ IF readable THEN UNCHANGED <<events, lost>> ELSE Refused
             /\ blind' = IF readable THEN blind \ {t} ELSE blind \cup {t}
      BY <2>1, Zenon DEF Prepare
    <3> QED BY <3>1 DEF Refused
  <2>2. CASE \/ Dispatch(t) \/ Fail(t) \/ Code(t) \/ Push(t) \/ OpenPR(t)
             \/ SaveBranchRead(t) \/ SaveHeadRead(t) \/ CompleteRead(t)
    <3>1. UNCHANGED <<lost, blind>>
      BY <2>2 DEF Dispatch, Fail, Code, Push, OpenPR, SaveBranchRead, SaveHeadRead,
                  CompleteRead, ReadRow
    <3> QED BY <3>1
  <2>3. CASE SaveBranch(t) \/ SaveHead(t) \/ Complete(t)
    <3>1. UNCHANGED blind /\ (lost' = lost \/ lost' = TRUE)
      BY <2>3, Zenon DEF SaveBranch, SaveHead, Complete, WriteRow, Write, Refused
    <3> QED BY <3>1
  <2> QED BY <1>3, <2>1, <2>2, <2>3 DEF TaskStep
<1>4. ASSUME SessionsNext, ~ \E t \in Tasks : TaskStep(t) PROVE NoneBlind'
  <2>1. UNCHANGED blind /\ (lost' = lost \/ lost' = TRUE)
    BY <1>4, Zenon
       DEF SessionsNext, LoopStep, Close, Merge, TimerFires, Reset, Age, People, Restart,
           ArchiveOne, CleanupIdleSessions, CleanupArchivedWorkspaces, EnforceDiskLimit,
           SweepWorkspaces, Reclaim, Write, Refused
  <2> QED BY <2>1
<1> QED BY <1>1, <1>3, <1>4

LEMMA WorkNext == WorkInv /\ NoneBlind /\ [SessionsNext]_sessionVars => WorkInv'
<1> SUFFICES ASSUME WorkInv, NoneBlind, [SessionsNext]_sessionVars PROVE WorkInv'
  OBVIOUS
<1>1. SessInv' BY InvNext DEF WorkInv
<1>2. CASE UNCHANGED sessionVars
  <2>1. UNCHANGED <<sess, pc, sid, onBase, local, copy, remote, main, stale, lost, disturbed,
                    orphaned, strayed>>
    BY <1>2 DEF sessionVars, taskVars, gitVars, gcVars, tally, setVars
  <2>2. TasksLeft BY <2>1 DEF TasksLeft
  <2>3. SessionsTypeOK /\ OldOnly BY DEF WorkInv, SessInv, Typed, Base
  <2>4. RowsLeft BY <2>1, <2>3 DEF RowsLeft, OldOnly
  <2>5. GiteaLeft BY <2>1, <2>3, GiteaAsItIs
  <2> QED BY <1>1, <2>2, <2>4, <2>5, WorkOfRest
<1>3. ASSUME NEW t \in Tasks, TaskStep(t) PROVE WorkInv'
  <2>1. Code(t) => Stray(t) \/ (Code(t) /\ ~Stray(t)) OBVIOUS
  <2> QED BY <1>1, <1>3, <2>1, WorkOfMove, WorkOfStray, WorkOfSave, WorkOfPrepare, WorkOfPush,
             WorkOfSaveHead, WorkOfDispatch DEF TaskStep
<1>4. ASSUME SessionsNext, ~ \E t \in Tasks : TaskStep(t) PROVE WorkInv'
  BY <1>1, <1>4, WorkOfOthers, WorkOfRestart DEF SessionsNext, LoopStep, Archivers
<1> QED BY <1>2, <1>3, <1>4

(* Once a task has left its save, work of a session that is at the head of  *)
(* the branch and not merged is under the head its session records, however *)
(* pushes, retries, rewinds, archivals and restarts follow on one another;  *)
(* what a task left that ended between its push and its save is excepted.   *)
THEOREM HeadIsRecorded == SessionsSpec => []HeadRecorded
<1>1. WorkInv => HeadRecorded
  <2> SUFFICES ASSUME WorkInv, ~disturbed, ~lost, strayed = {}, remote # NoCommit,
                      ~IsPrefix(remote, main), NEW t \in Tasks \ orphaned, Last(remote)[1] = t, sid[t] \notin Legacy,
                      \A u \in Tasks : pc[u] \notin {"saveHead", "writeHead"}
               PROVE  sess[sid[t]].branch /\ IsPrefix(remote, sess[sid[t]].head)
    BY DEF HeadRecorded
  <2>1. remote \in Commits BY DEF WorkInv, SessInv, Typed, SessionsTypeOK
  <2>2. remote \in Tips(t, remote) BY <2>1, PrefixOrder DEF Tips
  <2>3. pc[t] # "new"
    BY <2>2 DEF WorkInv, Base, Authors, Anywhere, OnGitea
  <2>4. Modern(t) BY <2>3 DEF WorkInv, Base, HasSession, Modern
  <2>5. ~Saving(t) BY DEF Saving
  <2>6. Safe(t, remote) BY <2>2, <2>4, <2>5 DEF WorkInv, Recorded, PushedSafe
  <2> QED BY <2>6 DEF Safe, Anchored
<1> QED BY <1>1, WorkInit, BlindInit, WorkNext, BlindNext, PTL DEF SessionsSpec

\* A task leaves "push" with its push, or the branch stays as it is.
LEMMA PushIsPush ==
  ASSUME Typed, SessionsNext, NEW t \in Tasks, pc[t] = "push", pc'[t] # "push"
  PROVE  Push(t) \/ remote' = remote
<1>1. pc \in [Tasks -> PC] BY DEF Typed, SessionsTypeOK
<1>2. CASE \E u \in Tasks : TaskStep(u)
  <2>1. PICK u \in Tasks : TaskStep(u) BY <1>2
  <2>2. \E l : pc' = [pc EXCEPT ![u] = l]
    BY <2>1 DEF TaskStep, Dispatch, Fail, AttemptFails, Prepare, Code, Push, OpenPR,
                SaveBranchRead, SaveBranch, SaveHeadRead, SaveHead, CompleteRead, Complete,
                ReadRow, WriteRow, Goto
  <2>3. u = t BY <1>1, <2>2
  <2>4. CASE Fail(t) BY <2>4 DEF Fail, gitVars
  <2>5. CASE \/ Dispatch(t) \/ Prepare(t) \/ Code(t) \/ OpenPR(t)
             \/ SaveBranchRead(t) \/ SaveBranch(t) \/ SaveHeadRead(t) \/ SaveHead(t)
             \/ CompleteRead(t) \/ Complete(t)
    BY <2>5 DEF Dispatch, Prepare, Code, OpenPR, SaveBranchRead, SaveBranch, SaveHeadRead,
                SaveHead, CompleteRead, Complete, ReadRow, WriteRow
  <2> QED BY <2>1, <2>3, <2>4, <2>5 DEF TaskStep
<1>3. CASE Restart BY <1>3 DEF Restart, gitVars
<1>4. CASE ~ Restart /\ ~ \E u \in Tasks : TaskStep(u)
  <2>1. UNCHANGED pc
    BY <1>4, Zenon
       DEF SessionsNext, LoopStep, Close, Merge, TimerFires, Reset, Age, People, ArchiveOne,
           CleanupIdleSessions, CleanupArchivedWorkspaces, EnforceDiskLimit,
           SweepWorkspaces, Reclaim, taskVars
  <2> QED BY <2>1
<1> QED BY <1>2, <1>3, <1>4

(* The forced push never drops a commit of the task's own session from the  *)
(* branch: not after a retry, not with people on the branch, not after an   *)
(* archival and a return of the session, not after a restart.  An agent     *)
(* that rewrote or left the branch is excepted, and a task without a base   *)
(* branch after some progress went unrecorded.                              *)
THEOREM PushKeeps == SessionsSpec => PushKeepsSessionWork
<1> DEFINE A == \A t \in Tasks :
                  /\ pc[t] = "push" /\ pc'[t] # "push"
                  /\ ~disturbed /\ t \notin strayed /\ (Slipped => onBase[t])
                  /\ sid[t] \notin Legacy
                  => \A m \in Own(sid[t]) : m \in Range(remote')
<1>1. WorkInv /\ [SessionsNext]_sessionVars => [A]_sessionVars
  <2> SUFFICES ASSUME WorkInv, SessionsNext, NEW t \in Tasks,
                      pc[t] = "push", pc'[t] # "push", ~disturbed, t \notin strayed,
                      Slipped => onBase[t], sid[t] \notin Legacy, NEW m \in Own(sid[t])
               PROVE  m \in Range(remote')
    OBVIOUS
  <2>1. Typed /\ SessionsTypeOK /\ remote \in Commits
    BY DEF WorkInv, SessInv, Typed, SessionsTypeOK
  <2>2. m \in Range(remote) /\ m[1] \in Tasks /\ sid[m[1]] = sid[t] BY DEF Own
  <2>3. CASE remote' = remote BY <2>2, <2>3
  <2>4. CASE Push(t)
    <3>1. remote' = local[t] BY <2>4 DEF Push, ForcePush
    <3>2. Working(t) /\ Modern(t)
      BY <2>1 DEF Typed, Held, Quiet, Working, Modern
    <3>3. PICK p \in Tips(m[1], remote) : Last(p) = m BY <2>1, <2>2, TipMarks
    <3> QED BY <2>2, <3>1, <3>2, <3>3 DEF WorkInv, CloneKeepsOwn
  <2> QED BY <2>1, <2>3, <2>4, PushIsPush
<1>2. SessionsSpec => [][A]_sessionVars
  BY <1>1, WorkInit, BlindInit, WorkNext, BlindNext, PTL DEF SessionsSpec
<1> QED BY <1>2 DEF PushKeepsSessionWork
=============================================================================
