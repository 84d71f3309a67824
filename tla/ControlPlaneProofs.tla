-------------------------- MODULE ControlPlaneProofs --------------------------
(***************************************************************************)
(* The configuration store for any file, payloads, answers and             *)
(* environment, any number of overlapping requests, faults and restarts;   *)
(* then the management side as a whole, which implements the configuration *)
(* store and the accounts with any value of auto_provision, so what is     *)
(* proved of them holds of it.                                             *)
(***************************************************************************)
EXTENDS ControlPlane, AgentAccountsProofs

Guarded == Sensitive \cup {Providers}

\* Entries as the endpoints pass them on: masks have been resolved.
IsBatch(b) ==
  /\ DOMAIN b \subseteq Keys
  /\ \A k \in DOMAIN b : b[k] \in Values /\ (k \in Guarded => b[k] # Mask)

IsSettings(cfg) ==
  /\ cfg \in Settings
  /\ \A k \in Plain : cfg[k] # Shared
  /\ \A k \in Guarded : cfg[k] # Mask

Fields == {"pc", "op", "want", "batch", "todo", "snap", "done"}

Updating == {"put", "import", "envsecret"}

RequestOK(q) ==
  /\ DOMAIN q = Fields
  /\ q.pc \in {"idle", "check", "store", "swap", "invalidate", "erase", "revert", "notify",
               "reload", "display", "discover"}
  /\ q.op \in {"none", "put", "import", "wizard", "env", "envsecret", "delete", "models"}
  /\ IsBatch(q.want) /\ IsBatch(q.batch) /\ IsSettings(q.snap)
  /\ q.pc \in {"store", "swap", "erase", "revert"} => q.todo \subseteq DOMAIN q.batch
  \* Where the request stands.
  /\ q.pc = "idle" => q = IdleReq
  /\ q.pc = "check" => q.op \in {"put", "import", "envsecret", "wizard", "env"}
  /\ q.pc = "check" /\ q.op \in Updating => DOMAIN q.batch # {}
  /\ q.pc = "store" => q.todo # {}
  /\ q.pc \in {"swap", "revert"} => q.todo = {}
  /\ q.pc \in {"store", "swap"} =>
       /\ q.op \in {"put", "import", "envsecret", "wizard", "env"}
       /\ DOMAIN q.batch # {}
       /\ \A k \in Plain \cap DOMAIN q.batch : q.snap[k] = q.batch[k]
  /\ q.pc \in {"erase", "revert"} =>
       /\ q.op = "delete"
       /\ \E k \in Keys : DOMAIN q.batch = {k} /\ q.batch[k] = Baseline(k)
  /\ q.pc = "erase" => q.todo = DOMAIN q.batch
  /\ q.op = "env" => DOMAIN q.want \subseteq {Url, Secret, Providers, Backends}
  /\ q.op = "wizard" => \A k \in DOMAIN q.want :
       k \in {Url, Secret, Providers} /\ (k = Providers => q.want[k] # Bad)
  \* What it has put into force and not announced.
  /\ q.op \in {"put", "import"} /\ q.pc \in {"check", "store", "swap"} => q.done = {}
  /\ q.pc \in {"erase", "revert", "display", "discover"} => q.done = {}
  /\ q.pc = "invalidate" => q.done # {} /\ q.op # "models"
  /\ q.op = "envsecret" => q.done # {}

ConfigTypes ==
  /\ row \in [Keys -> Values \cup {NoRow}]
  /\ \A k \in Guarded : row[k] # Mask
  /\ IsSettings(active) /\ IsSettings(live)
  /\ fileMap \in Values /\ cache \in Values
  /\ token \in {"armed", "off"}
  /\ doc = NoDoc \/ doc \in [Keys -> Values]
  /\ DOMAIN req = Requests
  /\ \A r \in Requests : RequestOK(req[r])

-----------------------------------------------------------------------------
\* The one request under way, while nothing overlaps or fails half-way.

Agrees(k) == active[k] = Overlaid[k] \/ Dropped(k)

TableOK(q) ==
  \A k \in Plain :
    CASE q.pc \in {"store", "swap"} /\ k \in DOMAIN q.batch \ q.todo -> row[k] = q.batch[k]
      [] q.pc = "revert" /\ k \in DOMAIN q.batch -> row[k] = NoRow
      [] OTHER -> Agrees(k)

UnderwayOK(q) ==
  /\ TableOK(q)
  /\ q.pc \in {"store", "swap"} => \A k \in Plain \ DOMAIN q.batch : q.snap[k] = active[k]
  /\ q.done = {} /\ q.pc \notin {"notify", "reload"} => live = active
  /\ q.pc = "reload" => q.snap = active
  /\ q.pc # "invalidate" => cache \in {Empty, active[Providers]}
  /\ q.pc = "discover" => q.snap[Providers] = active[Providers]

AllAgree ==
  /\ \A k \in Plain : Agrees(k)
  /\ live = active
  /\ cache \in {Empty, active[Providers]}

QuietInv ==
  ~overlapped =>
    /\ \A r, s \in Busy : r = s
    /\ ~torn => /\ \A r \in Busy : UnderwayOK(req[r])
                /\ Busy = {} => AllAgree

StoreInv == ConfigTypes /\ QuietInv

-----------------------------------------------------------------------------
\* Facts about the operators.

LEMMA KeysAre ==
  /\ Keys = {Backends, MaxIter, Stall, Hook, AutoProvision, Url, Secret, Providers, Gates, Preset}
  /\ Plain = {MaxIter, Stall, Hook, AutoProvision, Url, Secret, Providers, Gates, Preset}
  /\ Guarded = {Secret, Providers}
  /\ Guarded \subseteq Plain /\ Plain \subseteq Keys /\ Backends \in Keys \ Plain
<1>1. Keys = {Backends, MaxIter, Stall, Hook, AutoProvision, Url, Secret, Providers, Gates, Preset}
  BY DEF Keys, KeyOrder
<1> QED
  BY <1>1 DEF Plain, Guarded, Sensitive, Backends, MaxIter, Stall, Hook, AutoProvision, Url,
              Secret, Providers, Gates, Preset

LEMMA ValuesHold ==
  /\ {Mask, Generated, Empty, Bad} \subseteq Values
  /\ \A k \in Keys : File[k] \in Values
  /\ \A p \in Payloads \cup Answers \cup {Environment} : \A k \in DOMAIN p : p[k] \in Values
<1> DEFINE fromFile == {File[k] : k \in Keys}
           fixed    == {Mask, Generated, Empty, Bad}
           of(p)    == {p[k] : k \in DOMAIN p}
           others   == {of(p) : p \in Payloads \cup Answers \cup {Environment}}
<1>1. Values = UNION ({fromFile, fixed} \cup others) BY DEF Values
<1>2. fixed \subseteq Values BY <1>1
<1>3. fromFile \subseteq Values BY <1>1
<1>4. \A p \in Payloads \cup Answers \cup {Environment} : of(p) \in others OBVIOUS
<1>5. \A p \in Payloads \cup Answers \cup {Environment} : of(p) \subseteq Values
  <2> HIDE DEF of, others
  <2> QED BY <1>1, <1>4
<1> QED BY <1>2, <1>3, <1>5

LEMMA ValuesDistinct ==
  /\ NoRow \notin Values /\ Shared \notin Values /\ Keep \notin Values
  /\ Mask # Empty /\ Mask # Generated /\ Mask # Bad
BY ConfigAssumption DEF ConfigAssumption, Mask, Empty, Generated, Bad

LEMMA FileIsSettings ==
  IsSettings(File) /\ IsSettings([File EXCEPT ![Backends] = Shared])
<1>1. File \in [Keys -> Values] /\ \A k \in Guarded : File[k] # Mask
  BY ConfigAssumption, KeysAre DEF ConfigAssumption, Guarded
<1>2. DOMAIN File = Keys BY <1>1
<1> QED BY <1>1, <1>2, KeysAre, ValuesDistinct DEF IsSettings, Settings

\* What the file gives when an override is deleted.
LEMMA BaselineOK ==
  /\ \A k \in Keys : Baseline(k) \in Values /\ (k \in Guarded => Baseline(k) # Mask)
  /\ \A k \in Keys \ Unread : Baseline(k) = File[k]
  /\ Baseline(Preset) = Empty /\ Unread = {Gates, Preset}
BY ValuesHold, ValuesDistinct, FileIsSettings DEF Baseline, Unread, IsSettings

LEMMA FirstIn ==
  ASSUME NEW S \in SUBSET Keys, S # {} PROVE First(S) \in S
<1>1. /\ Rank(Backends) = 1 /\ Rank(MaxIter) = 2 /\ Rank(Stall) = 3 /\ Rank(Hook) = 4
      /\ Rank(AutoProvision) = 5 /\ Rank(Url) = 6 /\ Rank(Secret) = 7 /\ Rank(Providers) = 8
      /\ Rank(Gates) = 9 /\ Rank(Preset) = 10
  BY DEF Rank, KeyOrder, Backends, MaxIter, Stall, Hook, AutoProvision, Url, Secret,
         Providers, Gates, Preset
<1>2. \E k \in S : \A x \in S : Rank(k) <= Rank(x)
  BY <1>1, KeysAre
<1> QED BY <1>2 DEF First

\* How a request changes.
LEMMA Becomes ==
  ASSUME NEW r \in Requests, DOMAIN req = Requests, DOMAIN req[r] = Fields,
         NEW fields, Become(r, fields)
  PROVE  /\ DOMAIN req' = Requests /\ DOMAIN req'[r] = Fields
         /\ req'[r].pc = IF "pc" \in DOMAIN fields THEN fields.pc ELSE req[r].pc
         /\ req'[r].op = IF "op" \in DOMAIN fields THEN fields.op ELSE req[r].op
         /\ req'[r].want = IF "want" \in DOMAIN fields THEN fields.want ELSE req[r].want
         /\ req'[r].batch = IF "batch" \in DOMAIN fields THEN fields.batch ELSE req[r].batch
         /\ req'[r].todo = IF "todo" \in DOMAIN fields THEN fields.todo ELSE req[r].todo
         /\ req'[r].snap = IF "snap" \in DOMAIN fields THEN fields.snap ELSE req[r].snap
         /\ req'[r].done = IF "done" \in DOMAIN fields THEN fields.done ELSE req[r].done
         /\ \A s \in Requests : s # r => req'[s] = req[s]
<1>1. req'[r] = [f \in Fields |-> IF f \in DOMAIN fields THEN fields[f] ELSE req[r][f]]
  BY DEF Become, Amended
<1>2. DOMAIN req' = Requests /\ \A s \in Requests : s # r => req'[s] = req[s]
  BY DEF Become
<1> QED BY <1>1, <1>2 DEF Fields

LEMMA IdleOK == RequestOK(IdleReq)
<1>1. IsBatch(NoEntries) BY DEF IsBatch, NoEntries
<1>2. DOMAIN IdleReq = Fields BY DEF IdleReq, Fields
<1> QED BY <1>1, <1>2, FileIsSettings DEF RequestOK, IdleReq

LEMMA ResolvedOK ==
  ASSUME ConfigTypes, NEW p, DOMAIN p \subseteq Keys, \A k \in DOMAIN p : p[k] \in Values
  PROVE  /\ IsBatch(ResolveMasked(active, p))
         /\ DOMAIN ResolveMasked(active, p) = {x \in DOMAIN p : ~(x \in Sensitive /\ p[x] = Mask)}
<1> DEFINE b == ResolveMasked(active, p)
           D == {x \in DOMAIN p : ~(x \in Sensitive /\ p[x] = Mask)}
<1>1. b = [k \in D |-> CASE k = Providers /\ p[k] = Mask -> Read(active, k)
                         [] k = Backends /\ p[k] = Mask -> RestoredPassword(active)
                         [] OTHER -> p[k]]
  BY DEF ResolveMasked
<1>2. active \in Settings /\ fileMap \in Values /\ \A k \in Plain : active[k] # Shared
  BY DEF ConfigTypes, IsSettings
<1>3. \A k \in Keys : Read(active, k) \in Values BY <1>2 DEF Read, Settings
<1>4. RestoredPassword(active) \in Values BY <1>3, KeysAre, ValuesHold DEF RestoredPassword
<1>5. Read(active, Providers) # Mask /\ Providers \in Plain
  BY KeysAre DEF Read, ConfigTypes, IsSettings
<1>6. Guarded = Sensitive \cup {Providers} /\ Providers # Backends /\ Backends \notin Guarded
  BY KeysAre DEF Guarded, Providers, Backends
<1> HIDE DEF b
<1>7. DOMAIN b = D /\ D \subseteq Keys BY <1>1
<1>8. \A k \in D : b[k] \in Values BY <1>1, <1>3, <1>4
<1>9. \A k \in D : k \in Guarded => b[k] # Mask BY <1>1, <1>5, <1>6
<1> QED BY <1>7, <1>8, <1>9 DEF IsBatch, b

LEMMA EnsuredOK ==
  ASSUME NEW b, IsBatch(b)
  PROVE  /\ IsBatch(EnsureWebhookSecret(active, b))
         /\ DOMAIN b \subseteq DOMAIN EnsureWebhookSecret(active, b)
<1>1. Secret \in Keys BY KeysAre
<1> QED BY <1>1, ValuesHold, ValuesDistinct DEF EnsureWebhookSecret, IsBatch

LEMMA AppliesTo ==
  ASSUME NEW cfg, IsSettings(cfg), NEW b, IsBatch(b), fileMap \in Values
  PROVE  /\ IsSettings(Apply(cfg, b, DOMAIN b))
         /\ \A k \in Plain : Apply(cfg, b, DOMAIN b)[k] = IF k \in DOMAIN b THEN b[k] ELSE cfg[k]
<1> DEFINE new == Apply(cfg, b, DOMAIN b)
<1>1. new = [k \in Keys |-> IF k \notin DOMAIN b THEN cfg[k]
                            ELSE IF k = Backends /\ b[k] = Mask THEN RestoredPassword(cfg)
                            ELSE b[k]]
  BY DEF Apply
<1>2. RestoredPassword(cfg) \in Values
  BY KeysAre, ValuesHold DEF RestoredPassword, Read, IsSettings, Settings
<1> HIDE DEF new
<1>3. \A k \in Plain : new[k] = IF k \in DOMAIN b THEN b[k] ELSE cfg[k]
  BY <1>1, KeysAre
<1>4. new \in Settings BY <1>1, <1>2 DEF IsSettings, Settings, IsBatch
<1>5. \A k \in Plain : new[k] # Shared
  BY <1>3, KeysAre, ValuesDistinct DEF IsSettings, IsBatch
<1>6. \A k \in Guarded : new[k] # Mask BY <1>3, KeysAre DEF IsSettings, IsBatch
<1> QED BY <1>3, <1>4, <1>5, <1>6 DEF IsSettings, new

LEMMA OverlaidOK ==
  ASSUME ConfigTypes
  PROVE  /\ IsSettings(Overlaid)
         /\ \A k \in Plain : Overlaid[k] = IF row[k] = NoRow THEN File[k] ELSE row[k]
<1>1. \A k \in Plain : Overlaid[k] = IF row[k] = NoRow THEN File[k] ELSE row[k]
  BY KeysAre DEF Overlaid, Plain
<1>2. Overlaid \in Settings
  <2>1. \A k \in Keys : row[k] \in Values \cup {NoRow} BY DEF ConfigTypes
  <2>2. \A k \in Keys : Overlaid[k] \in Values \cup {Shared}
    BY <2>1, ValuesHold DEF Overlaid
  <2>3. Overlaid = [k \in Keys |-> Overlaid[k]] BY DEF Overlaid
  <2> QED BY <2>2, <2>3 DEF Settings
<1>3. \A k \in Guarded : row[k] # Mask /\ File[k] # Mask
  BY FileIsSettings DEF ConfigTypes, IsSettings
<1>4. \A k \in Plain : File[k] # Shared /\ (row[k] # NoRow => row[k] # Shared)
  BY KeysAre, ValuesHold, ValuesDistinct, FileIsSettings DEF ConfigTypes, IsSettings
<1> QED BY <1>1, <1>2, <1>3, <1>4, KeysAre DEF IsSettings

-----------------------------------------------------------------------------
\* Types: the requests.

\* A step of one request.
Moves(r) ==
  /\ DOMAIN req' = Requests
  /\ RequestOK(req'[r])
  /\ \A s \in Requests : s # r => req'[s] = req[s]

LEMMA FinishMoves ==
  ASSUME ConfigTypes, NEW r \in Requests, Finish(r)
  PROVE  Moves(r) /\ req'[r] = IdleReq
BY IdleOK DEF Finish, Moves, ConfigTypes

LEMMA NoEntriesOK == IsBatch(NoEntries) /\ DOMAIN NoEntries = {}
BY DEF IsBatch, NoEntries

LEMMA EntryOK ==
  ASSUME NEW k \in Keys, NEW v \in Values, k \in Guarded => v # Mask
  PROVE  /\ IsBatch(Entry(k, v)) /\ DOMAIN Entry(k, v) = {k} /\ Entry(k, v)[k] = v
BY DEF IsBatch, Entry

\* A request that fails where it stands.
LEMMA FailMoves ==
  ASSUME ConfigTypes, NEW r \in Requests, NEW want, IsBatch(want),
         DOMAIN want \subseteq DOMAIN req[r].want,
         \A k \in DOMAIN want : want[k] = req[r].want[k],
         req[r].pc \in {"check", "store", "swap"}, Fail(r, want)
  PROVE  /\ Moves(r)
         /\ req'[r].op = "none" => req'[r] = IdleReq
         /\ req'[r].op # "none" => /\ req'[r].op = req[r].op /\ req'[r].done = req[r].done
                                   /\ req[r].op = "env" => req'[r].pc = "check"
                                   /\ req[r].op = "envsecret" => req'[r].pc = "notify"
         /\ req'[r].op = "none" <=> req[r].op \notin {"env", "envsecret"}
<1>1. DOMAIN req = Requests /\ DOMAIN req[r] = Fields /\ RequestOK(req[r])
  BY DEF ConfigTypes, RequestOK
<1>2. CASE req[r].op = "env"
  <2>1. Become(r, [pc |-> "check", batch |-> NoEntries, want |-> want])
    BY <1>2 DEF Fail
  <2> DEFINE q == req'[r]
  <2>2. /\ DOMAIN req' = Requests /\ DOMAIN q = Fields
        /\ q.pc = "check" /\ q.op = "env" /\ q.want = want /\ q.batch = NoEntries
        /\ q.todo = req[r].todo /\ q.snap = req[r].snap /\ q.done = req[r].done
        /\ \A s \in Requests : s # r => req'[s] = req[s]
    BY <1>1, <1>2, <2>1, Becomes
  <2> HIDE DEF q
  <2>3. RequestOK(q)
    BY <1>1, <1>2, <2>2, NoEntriesOK DEF RequestOK, Updating
  <2> QED BY <1>2, <2>2, <2>3 DEF Moves, q
<1>3. CASE req[r].op = "envsecret"
  <2>1. Become(r, [pc |-> "notify", batch |-> NoEntries])
    BY <1>3 DEF Fail
  <2> DEFINE q == req'[r]
  <2>2. /\ DOMAIN req' = Requests /\ DOMAIN q = Fields
        /\ q.pc = "notify" /\ q.op = "envsecret" /\ q.want = req[r].want /\ q.batch = NoEntries
        /\ q.todo = req[r].todo /\ q.snap = req[r].snap /\ q.done = req[r].done
        /\ \A s \in Requests : s # r => req'[s] = req[s]
    BY <1>1, <1>3, <2>1, Becomes
  <2> HIDE DEF q
  <2>3. RequestOK(q)
    BY <1>1, <1>3, <2>2, NoEntriesOK DEF RequestOK, Updating
  <2> QED BY <1>3, <2>2, <2>3 DEF Moves, q
<1>4. CASE req[r].op \notin {"env", "envsecret"}
  <2>1. Finish(r) BY <1>4 DEF Fail
  <2> QED BY <1>4, <2>1, FinishMoves DEF IdleReq
<1> QED BY <1>2, <1>3, <1>4

LEMMA StartsOK ==
  ASSUME ConfigTypes, NEW r \in Requests,
         PutConfig(r) \/ Import(r) \/ CompleteSetup(r) \/ ApplyEnv(r) \/ DeleteEntry(r)
           \/ ListModels(r)
  PROVE  /\ Moves(r) /\ req[r].pc = "idle"
         /\ req'[r].done = {} /\ req'[r].pc \in {"display", "check", "erase", "discover"}
         /\ req'[r].pc \in {"erase", "discover"} => req'[r].snap = active
         /\ asked' = asked + 1 /\ overlapped' = (overlapped \/ Busy # {})
         /\ UNCHANGED <<row, fileMap, active, live, cache, token, doc, torn>>
<1> USE DEF UnchangedConfig, UnchangedRest
<1> DEFINE q == req'[r]
<1>1. DOMAIN req = Requests /\ DOMAIN req[r] = Fields /\ RequestOK(req[r])
  BY DEF ConfigTypes, RequestOK
<1>2. ASSUME NEW fields, Submit(r, fields)
      PROVE  /\ req[r] = IdleReq /\ req[r].pc = "idle" /\ Become(r, fields)
             /\ asked' = asked + 1 /\ overlapped' = (overlapped \/ Busy # {})
  BY <1>1, <1>2 DEF Submit, RequestOK
<1>3. /\ req[r] = IdleReq =>
           /\ req[r].pc = "idle" /\ req[r].op = "none" /\ req[r].want = NoEntries
           /\ req[r].batch = NoEntries /\ req[r].todo = {} /\ req[r].snap = File
           /\ req[r].done = {}
  BY DEF IdleReq
<1>4. CASE PutConfig(r)
  <2>1. PICK p \in Payloads :
          /\ Submit(r, IF DOMAIN ResolveMasked(active, p) = {} THEN [pc |-> "display"]
                       ELSE [pc |-> "check", op |-> "put",
                             batch |-> EnsureWebhookSecret(active, ResolveMasked(active, p))])
          /\ UNCHANGED <<row, fileMap, active, live, cache, token, doc, torn>>
    BY <1>4 DEF PutConfig
  <2> DEFINE b == EnsureWebhookSecret(active, ResolveMasked(active, p))
  <2>2. IsBatch(ResolveMasked(active, p))
    BY ResolvedOK, ValuesHold, ConfigAssumption DEF ConfigAssumption
  <2>3. IsBatch(b) /\ (DOMAIN ResolveMasked(active, p) # {} => DOMAIN b # {})
    BY <2>2, EnsuredOK
  <2> HIDE DEF b
  <2>4. CASE DOMAIN ResolveMasked(active, p) = {}
    <3>1. Submit(r, [pc |-> "display"]) BY <2>1, <2>4
    <3>2. /\ DOMAIN req' = Requests /\ DOMAIN q = Fields
          /\ q.pc = "display" /\ q.op = "none" /\ q.want = NoEntries /\ q.batch = NoEntries
          /\ q.todo = {} /\ q.snap = File /\ q.done = {}
          /\ \A s \in Requests : s # r => req'[s] = req[s]
      BY <1>1, <1>2, <1>3, <3>1, Becomes
    <3> HIDE DEF q
    <3>3. RequestOK(q) BY <3>2, NoEntriesOK, FileIsSettings DEF RequestOK, Updating
    <3> QED BY <1>2, <2>1, <3>1, <3>2, <3>3 DEF Moves, q
  <2>5. CASE DOMAIN ResolveMasked(active, p) # {}
    <3>1. Submit(r, [pc |-> "check", op |-> "put", batch |-> b]) BY <2>1, <2>5 DEF b
    <3>2. /\ DOMAIN req' = Requests /\ DOMAIN q = Fields
          /\ q.pc = "check" /\ q.op = "put" /\ q.want = NoEntries /\ q.batch = b
          /\ q.todo = {} /\ q.snap = File /\ q.done = {}
          /\ \A s \in Requests : s # r => req'[s] = req[s]
      BY <1>1, <1>2, <1>3, <3>1, Becomes
    <3> HIDE DEF q
    <3>3. RequestOK(q)
      BY <2>3, <2>5, <3>2, NoEntriesOK, FileIsSettings DEF RequestOK, Updating
    <3> QED BY <1>2, <2>1, <3>1, <3>2, <3>3 DEF Moves, q
  <2> QED BY <2>4, <2>5
<1>5. CASE Import(r)
  <2> DEFINE b == EnsureWebhookSecret(active, ResolveMasked(active, doc))
  <2>1. Submit(r, [pc |-> "check", op |-> "import", batch |-> b])
        /\ UNCHANGED <<row, fileMap, active, live, cache, token, doc, torn>> /\ doc # NoDoc
    BY <1>5 DEF Import
  <2>2. doc \in [Keys -> Values] BY <2>1 DEF ConfigTypes
  <2>3. /\ IsBatch(ResolveMasked(active, doc))
        /\ Url \in DOMAIN ResolveMasked(active, doc)
    <3>1. Url \in Keys \ Sensitive BY KeysAre DEF Sensitive, Url, Secret
    <3> QED BY <2>2, <3>1, ResolvedOK
  <2>4. IsBatch(b) /\ DOMAIN b # {} BY <2>3, EnsuredOK
  <2> HIDE DEF b
  <2>5. /\ DOMAIN req' = Requests /\ DOMAIN q = Fields
        /\ q.pc = "check" /\ q.op = "import" /\ q.want = NoEntries /\ q.batch = b
        /\ q.todo = {} /\ q.snap = File /\ q.done = {}
        /\ \A s \in Requests : s # r => req'[s] = req[s]
    BY <1>1, <1>2, <1>3, <2>1, Becomes
  <2> HIDE DEF q
  <2>6. RequestOK(q) BY <2>4, <2>5, NoEntriesOK, FileIsSettings DEF RequestOK, Updating
  <2> QED BY <1>2, <2>1, <2>5, <2>6 DEF Moves, q
<1>6. CASE CompleteSetup(r)
  <2>1. PICK a \in Answers : \E secret :
          /\ secret \in {a[Secret], active[Secret], Generated}
          /\ Submit(r, [pc |-> "check", op |-> "wizard", want |-> [a EXCEPT ![Secret] = secret]])
          /\ UNCHANGED <<row, fileMap, active, live, cache, token, doc, torn>>
    BY <1>6 DEF CompleteSetup
  <2>2. PICK secret :
          /\ secret \in {a[Secret], active[Secret], Generated}
          /\ Submit(r, [pc |-> "check", op |-> "wizard", want |-> [a EXCEPT ![Secret] = secret]])
          /\ UNCHANGED <<row, fileMap, active, live, cache, token, doc, torn>>
    BY <2>1
  <2> DEFINE w == [a EXCEPT ![Secret] = secret]
  <2>3. /\ DOMAIN a = {Url, Secret, Providers} /\ a[Providers] # Bad
        /\ a[Secret] # Mask /\ a[Providers] # Mask
        /\ a[Url] \in Values /\ a[Secret] \in Values /\ a[Providers] \in Values
    BY ValuesHold, ConfigAssumption DEF ConfigAssumption, Sensitive
  <2>4. secret \in Values /\ secret # Mask
    <3>1. Secret \in Plain /\ Secret \in Guarded /\ Secret \in Keys BY KeysAre
    <3>2. active[Secret] \in Values /\ active[Secret] # Mask
      BY <3>1 DEF ConfigTypes, IsSettings, Settings
    <3> QED BY <2>2, <2>3, <3>2, ValuesHold, ValuesDistinct
  <2>5. /\ DOMAIN w = {Url, Secret, Providers} /\ w[Secret] = secret
        /\ w[Url] = a[Url] /\ w[Providers] = a[Providers]
    BY <2>3 DEF Url, Secret, Providers
  <2>6. Submit(r, [pc |-> "check", op |-> "wizard", want |-> w])
    BY <2>2
  <2> HIDE DEF w
  <2>7. IsBatch(w) BY <2>3, <2>4, <2>5, KeysAre DEF IsBatch, Guarded, Sensitive, Url, Secret, Providers
  <2>8. /\ DOMAIN req' = Requests /\ DOMAIN q = Fields
        /\ q.pc = "check" /\ q.op = "wizard" /\ q.want = w /\ q.batch = NoEntries
        /\ q.todo = {} /\ q.snap = File /\ q.done = {}
        /\ \A s \in Requests : s # r => req'[s] = req[s]
    BY <1>1, <1>2, <1>3, <2>6, Becomes
  <2> HIDE DEF q
  <2>9. RequestOK(q)
    BY <2>3, <2>5, <2>7, <2>8, NoEntriesOK, FileIsSettings DEF RequestOK, Updating
  <2> QED BY <1>2, <2>2, <2>6, <2>8, <2>9 DEF Moves, q
<1>7. CASE ApplyEnv(r)
  <2>1. PICK names \in SUBSET DOMAIN Environment :
          /\ Submit(r, [pc |-> "check", op |-> "env",
                        want |-> [k \in names |-> Environment[k]]])
          /\ UNCHANGED <<row, fileMap, active, live, cache, token, doc, torn>>
    BY <1>7 DEF ApplyEnv
  <2> DEFINE w == [k \in names |-> Environment[k]]
  <2>2. DOMAIN w \subseteq {Url, Secret, Providers, Backends}
    BY ConfigAssumption DEF ConfigAssumption, EnvOrder
  <2>3. IsBatch(w)
    <3>1. \A k \in DOMAIN w : w[k] \in Values BY ValuesHold
    <3>2. \A k \in DOMAIN w : k \in Guarded => w[k] # Mask
      BY ConfigAssumption DEF ConfigAssumption, Guarded
    <3> HIDE DEF w
    <3> QED BY <2>2, <3>1, <3>2, KeysAre DEF IsBatch
  <2> HIDE DEF w
  <2>4. /\ DOMAIN req' = Requests /\ DOMAIN q = Fields
        /\ q.pc = "check" /\ q.op = "env" /\ q.want = w /\ q.batch = NoEntries
        /\ q.todo = {} /\ q.snap = File /\ q.done = {}
        /\ \A s \in Requests : s # r => req'[s] = req[s]
    BY <1>1, <1>2, <1>3, <2>1, Becomes DEF w
  <2> HIDE DEF q
  <2>5. RequestOK(q)
    BY <2>2, <2>3, <2>4, NoEntriesOK, FileIsSettings DEF RequestOK, Updating
  <2> QED BY <1>2, <2>1, <2>4, <2>5 DEF Moves, q
<1>8. CASE DeleteEntry(r)
  <2>1. PICK k \in Removable :
          /\ Submit(r, [pc |-> "erase", op |-> "delete", batch |-> Entry(k, Baseline(k)),
                        todo |-> {k}, snap |-> active])
          /\ UNCHANGED <<row, fileMap, active, live, cache, token, doc, torn>>
    BY <1>8 DEF DeleteEntry
  <2> DEFINE b == Entry(k, Baseline(k))
  <2>2. k \in Keys BY ConfigAssumption DEF ConfigAssumption
  <2>3. IsBatch(b) /\ DOMAIN b = {k} /\ b[k] = Baseline(k)
    BY <2>2, EntryOK, BaselineOK
  <2> HIDE DEF b
  <2>4. /\ DOMAIN req' = Requests /\ DOMAIN q = Fields
        /\ q.pc = "erase" /\ q.op = "delete" /\ q.want = NoEntries /\ q.batch = b
        /\ q.todo = {k} /\ q.snap = active /\ q.done = {}
        /\ \A s \in Requests : s # r => req'[s] = req[s]
    BY <1>1, <1>2, <1>3, <2>1, Becomes DEF b
  <2> HIDE DEF q
  <2>5. RequestOK(q)
    BY <2>2, <2>3, <2>4, NoEntriesOK DEF RequestOK, Updating, ConfigTypes
  <2> QED BY <1>2, <2>1, <2>4, <2>5 DEF Moves, q
<1>9. CASE ListModels(r)
  <2>1. /\ Submit(r, [pc |-> "discover", op |-> "models", snap |-> active])
        /\ UNCHANGED <<row, fileMap, active, live, cache, token, doc, torn>>
    BY <1>9 DEF ListModels
  <2>2. /\ DOMAIN req' = Requests /\ DOMAIN q = Fields
        /\ q.pc = "discover" /\ q.op = "models" /\ q.want = NoEntries /\ q.batch = NoEntries
        /\ q.todo = {} /\ q.snap = active /\ q.done = {}
        /\ \A s \in Requests : s # r => req'[s] = req[s]
    BY <1>1, <1>2, <1>3, <2>1, Becomes
  <2> HIDE DEF q
  <2>3. RequestOK(q) BY <2>2, NoEntriesOK DEF RequestOK, Updating, ConfigTypes
  <2> QED BY <1>2, <2>1, <2>2, <2>3 DEF Moves, q
<1> QED BY <1>4, <1>5, <1>6, <1>7, <1>8, <1>9

\* The copy a batch is checked against, and what comes of the check.
LEMMA BatchChecked ==
  ASSUME ConfigTypes, NEW r \in Requests, NEW b, IsBatch(b), DOMAIN b # {},
         NEW want, IsBatch(want), DOMAIN want \subseteq DOMAIN req[r].want,
         \A k \in DOMAIN want : want[k] = req[r].want[k],
         req[r].pc = "check", CheckBatch(r, b, want)
  PROVE  \/ /\ Moves(r) /\ req'[r].pc = "store" /\ req'[r].op = req[r].op
            /\ req'[r].done = req[r].done /\ req'[r].batch = b /\ req'[r].todo = DOMAIN b
            /\ \A k \in Plain : req'[r].snap[k] = IF k \in DOMAIN b THEN b[k] ELSE active[k]
         \/ Fail(r, want) /\ ~Merged(active, b).ok
<1> DEFINE q == req'[r]
           new == Apply(active, b, DOMAIN b)
<1>1. DOMAIN req = Requests /\ DOMAIN req[r] = Fields /\ RequestOK(req[r])
  BY DEF ConfigTypes, RequestOK
<1>2. Merged(active, b).cfg = new BY DEF Merged
<1>3. /\ IsSettings(new)
      /\ \A k \in Plain : new[k] = IF k \in DOMAIN b THEN b[k] ELSE active[k]
  BY AppliesTo DEF ConfigTypes
<1> HIDE DEF new
<1>4. CASE Merged(active, b).ok
  <2>1. Become(r, [pc |-> "store", batch |-> b, want |-> want, todo |-> DOMAIN b, snap |-> new])
    BY <1>2, <1>4 DEF CheckBatch
  <2>2. /\ DOMAIN req' = Requests /\ DOMAIN q = Fields
        /\ q.pc = "store" /\ q.op = req[r].op /\ q.want = want /\ q.batch = b
        /\ q.todo = DOMAIN b /\ q.snap = new /\ q.done = req[r].done
        /\ \A s \in Requests : s # r => req'[s] = req[s]
    BY <1>1, <2>1, Becomes
  <2> HIDE DEF q
  <2>3. RequestOK(q) BY <1>1, <1>3, <2>2, KeysAre DEF RequestOK, Updating
  <2> QED BY <1>3, <2>2, <2>3 DEF Moves, q
<1>5. CASE ~Merged(active, b).ok
  BY <1>5 DEF CheckBatch
<1> QED BY <1>4, <1>5

\* The entry the wizard or the environment takes next.
LEMMA NextIsEntry ==
  ASSUME ConfigTypes, NEW r \in Requests, req[r].op \in {"wizard", "env"}, NEW k \in NextOf(r)
  PROVE  /\ k \in DOMAIN req[r].want /\ k \in Keys
         /\ EntryOf(r, k) \in Values /\ (k \in Guarded => EntryOf(r, k) # Mask)
         /\ k # Backends => EntryOf(r, k) = req[r].want[k]
<1>1. RequestOK(req[r]) BY DEF ConfigTypes
<1>2. k \in DOMAIN req[r].want
  <2>1. CASE req[r].op = "wizard" BY <2>1 DEF NextOf
  <2>2. CASE req[r].op = "env"
    <3> DEFINE rest == DOMAIN req[r].want
               Next1(i) == EnvOrder[i] \in rest /\ \A j \in 1..(i-1) : EnvOrder[j] \notin rest
    <3>1. rest # {} /\ k = EnvOrder[CHOOSE i \in DOMAIN EnvOrder : Next1(i)]
      BY <2>2 DEF NextOf
    <3>2. rest \subseteq {Url, Secret, Providers, Backends} BY <1>1, <2>2 DEF RequestOK
    <3>3. /\ DOMAIN EnvOrder = 1..4 /\ EnvOrder[1] = Url /\ EnvOrder[2] = Secret
          /\ EnvOrder[3] = Providers /\ EnvOrder[4] = Backends
      BY DEF EnvOrder
    <3> HIDE DEF rest
    <3>4. \E i \in DOMAIN EnvOrder : Next1(i)
      <4>1. CASE Url \in rest BY <3>3, <4>1
      <4>2. CASE Url \notin rest /\ Secret \in rest BY <3>3, <4>2
      <4>3. CASE Url \notin rest /\ Secret \notin rest /\ Providers \in rest BY <3>3, <4>3
      <4>4. CASE Url \notin rest /\ Secret \notin rest /\ Providers \notin rest
        BY <3>1, <3>2, <3>3, <4>4
      <4> QED BY <4>1, <4>2, <4>3, <4>4
    <3>5. Next1(CHOOSE i \in DOMAIN EnvOrder : Next1(i)) BY <3>4
    <3> QED BY <3>1, <3>5 DEF rest
  <2> QED BY <2>1, <2>2
<1>3. k \in Keys /\ req[r].want[k] \in Values /\ (k \in Guarded => req[r].want[k] # Mask)
  BY <1>1, <1>2 DEF RequestOK, IsBatch
<1>4. Read(active, Backends) \in Values
  BY KeysAre DEF Read, ConfigTypes, IsSettings, Settings
<1> QED BY <1>2, <1>3, <1>4, KeysAre DEF EntryOf

\* An answer of the wizard is never refused.
LEMMA AnswerAccepted ==
  ASSUME NEW k \in {Url, Secret, Providers}, NEW v, k = Providers => v # Bad, NEW cfg
  PROVE  Merged(cfg, Entry(k, v)).ok
<1>1. DOMAIN Entry(k, v) = {k} /\ Entry(k, v)[k] = v BY DEF Entry
<1>2. \A base : Accepts(base, k, v)
  BY DEF Accepts, Typed, Url, Secret, Providers, MaxIter, Gates, Backends, Stall, AutoProvision
<1> QED BY <1>1, <1>2 DEF Merged

LEMMA CheckOK ==
  ASSUME ConfigTypes, NEW r \in Requests, Check(r)
  PROVE  /\ Moves(r) /\ req[r].pc = "check"
         /\ UNCHANGED <<row, fileMap, active, live, cache, token, doc, torn, overlapped, asked>>
         /\ \/ /\ req'[r].pc = "store" /\ req'[r].op = req[r].op
               /\ req'[r].done = req[r].done /\ req'[r].todo = DOMAIN req'[r].batch
               /\ \A k \in Plain : req'[r].snap[k] = IF k \in DOMAIN req'[r].batch
                                                     THEN req'[r].batch[k] ELSE active[k]
            \/ /\ req[r].op \in {"env", "envsecret"} /\ req'[r].pc \in {"check", "notify"}
               /\ req'[r].done = req[r].done
               /\ req'[r].pc = "check" => req'[r].op = "env"
            \/ req[r].op \in {"put", "import"} /\ req'[r] = IdleReq
<1> USE DEF UnchangedConfig, UnchangedRest, UnchangedCounts
<1>1. RequestOK(req[r]) /\ req[r].pc = "check" BY DEF ConfigTypes, Check
<1>2. UNCHANGED <<row, fileMap, active, live, cache, token, doc, torn, overlapped, asked>>
  BY DEF Check
<1>3. CASE req[r].op \in Updating /\ CheckBatch(r, req[r].batch, NoEntries)
  <2>1. IsBatch(req[r].batch) /\ DOMAIN req[r].batch # {} /\ IsBatch(NoEntries)
        /\ DOMAIN NoEntries = {}
    BY <1>1, <1>3, NoEntriesOK DEF RequestOK
  <2>2. Fail(r, NoEntries) \/ ~Fail(r, NoEntries) OBVIOUS
  <2>3. CASE Fail(r, NoEntries)
    BY <1>1, <1>2, <1>3, <2>1, <2>3, FailMoves, FinishMoves DEF Updating, Fail
  <2>4. CASE ~Fail(r, NoEntries)
    BY <1>1, <1>2, <1>3, <2>1, <2>4, BatchChecked
  <2> QED BY <2>3, <2>4
<1>4. CASE /\ req[r].op \in {"wizard", "env"}
           /\ \E k \in NextOf(r) :
                CheckBatch(r, Entry(k, EntryOf(r, k)), Without(req[r].want, k))
  <2>1. PICK k \in NextOf(r) : CheckBatch(r, Entry(k, EntryOf(r, k)), Without(req[r].want, k))
    BY <1>4
  <2> DEFINE b == Entry(k, EntryOf(r, k))
             want == Without(req[r].want, k)
  <2>2. IsBatch(b) /\ DOMAIN b = {k}
    BY <1>4, NextIsEntry, EntryOK
  <2>3. /\ IsBatch(want) /\ DOMAIN want \subseteq DOMAIN req[r].want
        /\ \A x \in DOMAIN want : want[x] = req[r].want[x]
    BY <1>1 DEF Without, IsBatch, RequestOK
  <2>4. req[r].op = "wizard" => Merged(active, b).ok
    BY <1>1, <1>4, NextIsEntry, AnswerAccepted DEF RequestOK, Backends, Url, Secret, Providers
  <2>5. CheckBatch(r, b, want) BY <2>1
  <2> HIDE DEF b, want
  <2>6. CASE Fail(r, want) /\ ~Merged(active, b).ok
    <3>1. req[r].op = "env" BY <1>4, <2>4, <2>6
    <3> QED BY <1>1, <1>2, <2>3, <2>6, <3>1, FailMoves
  <2>7. CASE ~(Fail(r, want) /\ ~Merged(active, b).ok)
    BY <1>1, <1>2, <2>2, <2>3, <2>5, <2>7, BatchChecked
  <2> QED BY <2>6, <2>7
<1> QED BY <1>3, <1>4 DEF Check, Updating

LEMMA AppliedOK ==
  ASSUME ConfigTypes, NEW r \in Requests, Applied(r)
  PROVE  /\ Moves(r) /\ req[r].pc = "check"
         /\ UNCHANGED <<row, fileMap, active, live, cache, token, doc, torn, overlapped, asked>>
         /\ \/ req'[r].done = req[r].done /\ req'[r].pc \in {"check", "notify"} /\ req[r].done # {}
            \/ req[r].done = {} /\ req'[r] = IdleReq
<1> USE DEF UnchangedConfig, UnchangedRest, UnchangedCounts
<1> DEFINE q == req'[r]
<1>1. /\ DOMAIN req = Requests /\ DOMAIN req[r] = Fields /\ RequestOK(req[r])
      /\ req[r].pc = "check" /\ req[r].op \in {"wizard", "env"}
  BY DEF ConfigTypes, RequestOK, Applied
<1>2. UNCHANGED <<row, fileMap, active, live, cache, token, doc, torn, overlapped, asked>>
  BY DEF Applied
<1>3. CASE /\ NeedsSecret(active, req[r].done \cap {Url})
           /\ Become(r, [op |-> "envsecret", batch |-> Entry(Secret, Generated)])
  <2>1. req[r].done # {} BY <1>3 DEF NeedsSecret
  <2> DEFINE b == Entry(Secret, Generated)
  <2>2. IsBatch(b) /\ DOMAIN b = {Secret}
    BY EntryOK, KeysAre, ValuesHold, ValuesDistinct
  <2> HIDE DEF b
  <2>3. /\ DOMAIN req' = Requests /\ DOMAIN q = Fields
        /\ q.pc = "check" /\ q.op = "envsecret" /\ q.want = req[r].want /\ q.batch = b
        /\ q.todo = req[r].todo /\ q.snap = req[r].snap /\ q.done = req[r].done
        /\ \A s \in Requests : s # r => req'[s] = req[s]
    BY <1>1, <1>3, Becomes DEF b
  <2> HIDE DEF q
  <2>4. RequestOK(q) BY <1>1, <2>1, <2>2, <2>3 DEF RequestOK, Updating
  <2> QED BY <1>1, <1>2, <2>1, <2>3, <2>4 DEF Moves, q
<1>4. CASE req[r].done = {} /\ Finish(r)
  BY <1>1, <1>2, <1>4, FinishMoves
<1>5. CASE req[r].done # {} /\ Become(r, [pc |-> "notify"])
  <2>1. /\ DOMAIN req' = Requests /\ DOMAIN q = Fields
        /\ q.pc = "notify" /\ q.op = req[r].op /\ q.want = req[r].want /\ q.batch = req[r].batch
        /\ q.todo = req[r].todo /\ q.snap = req[r].snap /\ q.done = req[r].done
        /\ \A s \in Requests : s # r => req'[s] = req[s]
    BY <1>1, <1>5, Becomes
  <2> HIDE DEF q
  <2>2. RequestOK(q) BY <1>1, <2>1 DEF RequestOK, Updating
  <2> QED BY <1>1, <1>2, <1>5, <2>1, <2>2 DEF Moves, q
<1> QED BY <1>3, <1>4, <1>5 DEF Applied

LEMMA StoreRowOK ==
  ASSUME ConfigTypes, NEW r \in Requests, StoreRow(r)
  PROVE  /\ Moves(r) /\ req[r].pc = "store"
         /\ UNCHANGED <<fileMap, active, live, cache, token, doc, overlapped, asked>>
         /\ row' \in [Keys -> Values \cup {NoRow}] /\ \A k \in Guarded : row'[k] # Mask
         /\ \/ \E k \in req[r].todo \cap DOMAIN req[r].batch :
                 /\ row' = [row EXCEPT ![k] = req[r].batch[k]] /\ torn' = torn
                 /\ req'[r].pc = IF req[r].todo = {k} THEN "swap" ELSE "store"
                 /\ req'[r].op = req[r].op /\ req'[r].batch = req[r].batch
                 /\ req'[r].todo = req[r].todo \ {k}
                 /\ req'[r].snap = req[r].snap /\ req'[r].done = req[r].done
            \/ /\ torn' = TRUE /\ row' = row
               /\ req'[r].pc \in {"idle", "check", "notify"}
<1> USE DEF UnchangedRest
<1> DEFINE q == req'[r]
           k == First(req[r].todo)
<1>1. /\ DOMAIN req = Requests /\ DOMAIN req[r] = Fields /\ RequestOK(req[r])
      /\ req[r].pc = "store" /\ req[r].todo # {} /\ req[r].todo \subseteq DOMAIN req[r].batch
  BY DEF ConfigTypes, RequestOK, StoreRow
<1>2. IsBatch(req[r].batch) BY <1>1 DEF RequestOK
<1>3. k \in req[r].todo /\ k \in DOMAIN req[r].batch /\ k \in Keys
  BY <1>1, <1>2, FirstIn DEF IsBatch
<1>4. row \in [Keys -> Values \cup {NoRow}] /\ \A x \in Guarded : row[x] # Mask
  BY DEF ConfigTypes
<1>5. UNCHANGED <<fileMap, active, live, cache, token, doc, overlapped, asked>>
  BY DEF StoreRow
<1>6. \/ /\ row' = [row EXCEPT ![k] = req[r].batch[k]] /\ torn' = torn
         /\ Become(r, [todo |-> req[r].todo \ {k},
                       pc |-> IF req[r].todo = {k} THEN "swap" ELSE "store"])
      \/ row' = row /\ torn' = TRUE /\ Fail(r, req[r].want)
  BY DEF StoreRow
<1> HIDE DEF k
<1>7. CASE /\ row' = [row EXCEPT ![k] = req[r].batch[k]] /\ torn' = torn
           /\ Become(r, [todo |-> req[r].todo \ {k},
                         pc |-> IF req[r].todo = {k} THEN "swap" ELSE "store"])
  <2>1. /\ DOMAIN req' = Requests /\ DOMAIN q = Fields
        /\ q.pc = (IF req[r].todo = {k} THEN "swap" ELSE "store") /\ q.op = req[r].op
        /\ q.want = req[r].want /\ q.batch = req[r].batch
        /\ q.todo = req[r].todo \ {k} /\ q.snap = req[r].snap /\ q.done = req[r].done
        /\ \A s \in Requests : s # r => req'[s] = req[s]
    BY <1>1, <1>7, Becomes
  <2> HIDE DEF q
  <2>2. RequestOK(q) BY <1>1, <1>3, <2>1 DEF RequestOK, Updating
  <2>3. row' \in [Keys -> Values \cup {NoRow}] /\ \A x \in Guarded : row'[x] # Mask
    BY <1>2, <1>3, <1>4, <1>7, KeysAre DEF IsBatch
  <2> QED BY <1>1, <1>3, <1>5, <1>7, <2>1, <2>2, <2>3 DEF Moves, q
<1>8. CASE row' = row /\ torn' = TRUE /\ Fail(r, req[r].want)
  <2>1. IsBatch(req[r].want) BY <1>1 DEF RequestOK
  <2>2. Moves(r) BY <1>1, <1>8, <2>1, FailMoves
  <2>3. req'[r].pc \in {"idle", "check", "notify"}
    BY <1>1, <1>8, <2>1, FailMoves DEF IdleReq
  <2> QED BY <1>1, <1>4, <1>5, <1>8, <2>2, <2>3
<1> QED BY <1>6, <1>7, <1>8

\* What follows a swap.
LEMMA AfterSwapMoves ==
  ASSUME ConfigTypes, NEW r \in Requests, AfterSwap(r), req[r].pc \in {"swap", "revert"}
  PROVE  /\ Moves(r)
         /\ req'[r].pc \in {"invalidate", "check", "notify"}
         /\ req'[r].done # {}
         /\ Providers \in DOMAIN req[r].batch => req'[r].pc = "invalidate"
<1> DEFINE q == req'[r]
           done == req[r].done \cup DOMAIN req[r].batch
           next == IF Providers \in DOMAIN req[r].batch THEN "invalidate"
                   ELSE IF req[r].op \in {"wizard", "env"} THEN "check" ELSE "notify"
<1>1. /\ DOMAIN req = Requests /\ DOMAIN req[r] = Fields /\ RequestOK(req[r])
  BY DEF ConfigTypes, RequestOK
<1>2. done # {} /\ req[r].op \notin {"models", "none"}
  BY <1>1 DEF RequestOK
<1>3. Become(r, [done |-> done, pc |-> next]) BY DEF AfterSwap
<1>4. /\ next \in {"invalidate", "check", "notify"}
      /\ next = "check" => req[r].op \in {"wizard", "env"}
  OBVIOUS
<1>5. Providers \in DOMAIN req[r].batch => next = "invalidate" OBVIOUS
<1> HIDE DEF done, next
<1>6. /\ DOMAIN req' = Requests /\ DOMAIN q = Fields
      /\ q.pc = next /\ q.op = req[r].op /\ q.want = req[r].want /\ q.batch = req[r].batch
      /\ q.todo = req[r].todo /\ q.snap = req[r].snap /\ q.done = done
      /\ \A s \in Requests : s # r => req'[s] = req[s]
  BY <1>1, <1>3, Becomes
<1> HIDE DEF q
<1>7. RequestOK(q) BY <1>1, <1>2, <1>4, <1>6 DEF RequestOK, Updating
<1> QED BY <1>2, <1>4, <1>5, <1>6, <1>7 DEF Moves, q

LEMMA SwapOK ==
  ASSUME ConfigTypes, NEW r \in Requests, Swap(r)
  PROVE  /\ Moves(r) /\ req[r].pc = "swap"
         /\ UNCHANGED <<row, fileMap, live, cache, token, doc, overlapped, asked>>
         /\ IsSettings(active')
         /\ \/ /\ torn' = torn /\ AfterSwap(r)
               /\ IF req[r].op \in {"put", "import"} THEN active' = req[r].snap
                  ELSE \A k \in Plain : active'[k] = IF k \in DOMAIN req[r].batch
                                                     THEN req[r].batch[k] ELSE active[k]
            \/ /\ torn' = TRUE /\ active' = active
               /\ req'[r].pc \in {"idle", "check", "notify"}
<1> USE DEF UnchangedRest, UnchangedCounts
<1>1. /\ RequestOK(req[r]) /\ req[r].pc = "swap"
      /\ IsBatch(req[r].batch) /\ IsSettings(req[r].snap)
      /\ IsSettings(active) /\ fileMap \in Values
  BY DEF ConfigTypes, RequestOK, Swap
<1>2. UNCHANGED <<row, fileMap, live, cache, token, doc, overlapped, asked>>
  BY DEF Swap
<1>3. CASE /\ req[r].op \in {"put", "import"} /\ active' = req[r].snap
           /\ AfterSwap(r) /\ torn' = torn
  BY <1>1, <1>2, <1>3, AfterSwapMoves
<1>4. CASE /\ req[r].op \notin {"put", "import"} /\ active' = Merged(active, req[r].batch).cfg
           /\ AfterSwap(r) /\ torn' = torn
  <2>1. active' = Apply(active, req[r].batch, DOMAIN req[r].batch) BY <1>4 DEF Merged
  <2> QED BY <1>1, <1>2, <1>4, <2>1, AfterSwapMoves, AppliesTo
<1>5. CASE torn' = TRUE /\ Fail(r, req[r].want) /\ active' = active
  <2>1. IsBatch(req[r].want) BY <1>1 DEF RequestOK
  <2>2. Moves(r) BY <1>1, <1>5, <2>1, FailMoves
  <2>3. req'[r].pc \in {"idle", "check", "notify"}
    BY <1>1, <1>5, <2>1, FailMoves DEF IdleReq
  <2> QED BY <1>1, <1>2, <1>5, <2>2, <2>3
<1> QED BY <1>3, <1>4, <1>5 DEF Swap

LEMMA InvalidateOK ==
  ASSUME ConfigTypes, NEW r \in Requests, Invalidate(r)
  PROVE  /\ Moves(r) /\ req[r].pc = "invalidate" /\ cache' = Empty
         /\ UNCHANGED <<row, fileMap, active, live, token, doc, torn, overlapped, asked>>
         /\ req'[r].pc \in {"check", "notify"} /\ req'[r].done = req[r].done
<1> DEFINE q == req'[r]
           next == IF req[r].op \in {"wizard", "env"} THEN "check" ELSE "notify"
<1>1. /\ DOMAIN req = Requests /\ DOMAIN req[r] = Fields /\ RequestOK(req[r])
      /\ req[r].pc = "invalidate"
  BY DEF ConfigTypes, RequestOK, Invalidate
<1>2. /\ next \in {"check", "notify"}
      /\ next = "check" => req[r].op \in {"wizard", "env"}
  OBVIOUS
<1>3. Become(r, [pc |-> next]) BY DEF Invalidate
<1> HIDE DEF next
<1>4. /\ DOMAIN req' = Requests /\ DOMAIN q = Fields
      /\ q.pc = next /\ q.op = req[r].op /\ q.want = req[r].want /\ q.batch = req[r].batch
      /\ q.todo = req[r].todo /\ q.snap = req[r].snap /\ q.done = req[r].done
      /\ \A s \in Requests : s # r => req'[s] = req[s]
  BY <1>1, <1>3, Becomes
<1> HIDE DEF q
<1>5. RequestOK(q) BY <1>1, <1>2, <1>4 DEF RequestOK, Updating
<1> QED BY <1>1, <1>2, <1>4, <1>5
        DEF Moves, q, Invalidate, UnchangedConfig, UnchangedCounts

LEMMA EraseRowOK ==
  ASSUME ConfigTypes, NEW r \in Requests, EraseRow(r)
  PROVE  /\ Moves(r) /\ req[r].pc = "erase"
         /\ UNCHANGED <<fileMap, active, live, cache, token, doc, torn, overlapped, asked>>
         /\ row' \in [Keys -> Values \cup {NoRow}] /\ \A k \in Guarded : row'[k] # Mask
         /\ \/ /\ row' = [k \in Keys |-> IF k \in DOMAIN req[r].batch THEN NoRow ELSE row[k]]
               /\ req'[r].pc = "revert" /\ req'[r].op = "delete"
               /\ req'[r].batch = req[r].batch /\ req'[r].snap = req[r].snap
               /\ req'[r].todo = {} /\ req'[r].done = req[r].done
            \/ row' = row /\ req'[r] = IdleReq
<1> USE DEF UnchangedRest
<1> DEFINE q == req'[r]
<1>1. /\ DOMAIN req = Requests /\ DOMAIN req[r] = Fields /\ RequestOK(req[r])
      /\ req[r].pc = "erase" /\ req[r].todo = DOMAIN req[r].batch /\ req[r].op = "delete"
  BY DEF ConfigTypes, RequestOK, EraseRow
<1>2. row \in [Keys -> Values \cup {NoRow}] /\ \A x \in Guarded : row[x] # Mask
  BY DEF ConfigTypes
<1>3. UNCHANGED <<fileMap, active, live, cache, token, doc, torn, overlapped, asked>>
  BY DEF EraseRow
<1>4. CASE /\ row' = [k \in Keys |-> IF k \in req[r].todo THEN NoRow ELSE row[k]]
           /\ Become(r, [pc |-> "revert", todo |-> {}])
  <2>1. /\ DOMAIN req' = Requests /\ DOMAIN q = Fields
        /\ q.pc = "revert" /\ q.op = req[r].op /\ q.want = req[r].want
        /\ q.batch = req[r].batch /\ q.todo = {} /\ q.snap = req[r].snap
        /\ q.done = req[r].done
        /\ \A s \in Requests : s # r => req'[s] = req[s]
    BY <1>1, <1>4, Becomes
  <2> HIDE DEF q
  <2>2. RequestOK(q) BY <1>1, <2>1 DEF RequestOK, Updating
  <2>3. row' \in [Keys -> Values \cup {NoRow}] /\ \A x \in Guarded : row'[x] # Mask
    BY <1>2, <1>4, KeysAre, ValuesHold, ValuesDistinct
  <2> QED BY <1>1, <1>3, <1>4, <2>1, <2>2, <2>3 DEF Moves, q
<1>5. CASE row' = row /\ Finish(r)
  BY <1>1, <1>2, <1>3, <1>5, FinishMoves
<1> QED BY <1>4, <1>5 DEF EraseRow

LEMMA RevertOK ==
  ASSUME ConfigTypes, NEW r \in Requests, Revert(r)
  PROVE  /\ Moves(r) /\ req[r].pc = "revert"
         /\ UNCHANGED <<row, live, cache, token, doc, overlapped, asked>>
         /\ fileMap' \in Values /\ IsSettings(active')
         /\ \/ /\ torn' = torn /\ AfterSwap(r) /\ Gates \notin DOMAIN req[r].batch
               /\ \A k \in Plain : active'[k] = IF k \in DOMAIN req[r].batch
                                                THEN Baseline(k) ELSE active[k]
            \/ torn' = TRUE /\ active' = active /\ req'[r] = IdleReq
<1> USE DEF UnchangedRest, UnchangedCounts
<1> DEFINE k == CHOOSE x \in DOMAIN req[r].batch : TRUE
           map == IF k = Backends THEN Masked(fileMap) ELSE fileMap
           cur == IF active[Backends] = Shared THEN map ELSE active[Backends]
           val == IF k # Backends THEN Baseline(k)
                  ELSE IF map = Mask /\ cur # Empty THEN cur ELSE map
<1>1. /\ RequestOK(req[r]) /\ req[r].pc = "revert"
      /\ IsSettings(active) /\ fileMap \in Values
  BY DEF ConfigTypes, Revert
<1>2. DOMAIN req[r].batch = {k} /\ k \in Keys
  BY <1>1 DEF RequestOK
<1>3. UNCHANGED <<row, live, cache, token, doc, overlapped, asked>> /\ fileMap' = map
  BY DEF Revert
<1>4. \/ /\ active' = [active EXCEPT ![k] = val] /\ AfterSwap(r) /\ torn' = torn
         /\ Accepts(active, k, val)
      \/ torn' = TRUE /\ Finish(r) /\ active' = active
  BY DEF Revert
<1> HIDE DEF k
<1>5. map \in Values BY <1>1, ValuesHold DEF Masked
<1>6. val \in Values
  BY <1>1, <1>2, <1>5, KeysAre, ValuesHold, BaselineOK DEF IsSettings, Settings
<1>7. k # Backends => val = Baseline(k) OBVIOUS
<1> HIDE DEF map, cur, val
<1>8. CASE /\ active' = [active EXCEPT ![k] = val] /\ AfterSwap(r) /\ torn' = torn
           /\ Accepts(active, k, val)
  <2>0. Gates \notin DOMAIN req[r].batch
    BY <1>2, <1>7, <1>8 DEF Accepts, Baseline, Unread, Gates, Backends
  <2>1. \A x \in Plain : active'[x] = IF x \in DOMAIN req[r].batch THEN Baseline(x) ELSE active[x]
    BY <1>1, <1>2, <1>7, <1>8, KeysAre DEF IsSettings, Settings
  <2>2. active' \in Settings BY <1>1, <1>2, <1>6, <1>8 DEF IsSettings, Settings
  <2>3. IsSettings(active')
    BY <1>1, <2>1, <2>2, BaselineOK, ValuesDistinct, KeysAre DEF IsSettings
  <2> QED BY <1>1, <1>3, <1>5, <1>8, <2>0, <2>1, <2>3, AfterSwapMoves
<1>9. CASE torn' = TRUE /\ Finish(r) /\ active' = active
  BY <1>1, <1>3, <1>5, <1>9, FinishMoves
<1> QED BY <1>4, <1>8, <1>9

LEMMA NotifyOK ==
  ASSUME ConfigTypes, NEW r \in Requests, Notify(r)
  PROVE  /\ Moves(r) /\ req[r].pc = "notify"
         /\ UNCHANGED <<row, fileMap, active, live, cache, token, doc, torn, overlapped, asked>>
         /\ req'[r].pc = "reload" /\ req'[r].snap = active
<1> DEFINE q == req'[r]
<1>1. /\ DOMAIN req = Requests /\ DOMAIN req[r] = Fields /\ RequestOK(req[r])
      /\ req[r].pc = "notify" /\ IsSettings(active)
  BY DEF ConfigTypes, RequestOK, Notify
<1>2. Become(r, [pc |-> "reload", snap |-> active]) BY DEF Notify
<1>3. /\ DOMAIN req' = Requests /\ DOMAIN q = Fields
      /\ q.pc = "reload" /\ q.op = req[r].op /\ q.want = req[r].want /\ q.batch = req[r].batch
      /\ q.todo = req[r].todo /\ q.snap = active /\ q.done = req[r].done
      /\ \A s \in Requests : s # r => req'[s] = req[s]
  BY <1>1, <1>2, Becomes
<1> HIDE DEF q
<1>4. RequestOK(q) BY <1>1, <1>3 DEF RequestOK, Updating
<1> QED BY <1>1, <1>3, <1>4
        DEF Moves, q, Notify, UnchangedConfig, UnchangedRest, UnchangedCounts

LEMMA ReloadOK ==
  ASSUME ConfigTypes, NEW r \in Requests, Reload(r)
  PROVE  /\ Moves(r) /\ req[r].pc = "reload" /\ live' = req[r].snap
         /\ token' \in {"armed", "off"}
         /\ UNCHANGED <<row, fileMap, active, cache, doc, torn, overlapped, asked>>
         /\ req'[r].pc \in {"display", "idle"} /\ req'[r].done = {}
<1> DEFINE q == req'[r]
           shown == [IdleReq EXCEPT !.pc = "display"]
<1>1. /\ DOMAIN req = Requests /\ DOMAIN req[r] = Fields /\ RequestOK(req[r])
      /\ req[r].pc = "reload" /\ token \in {"armed", "off"}
  BY DEF ConfigTypes, RequestOK, Reload
<1>2. /\ live' = req[r].snap /\ token' \in {"armed", "off"}
      /\ UNCHANGED <<row, fileMap, active, cache, doc, torn, overlapped, asked>>
  BY <1>1 DEF Reload, UnchangedConfig, UnchangedCounts
<1>3. Become(r, shown) \/ Finish(r) BY DEF Reload
<1>4. shown = [pc |-> "display", op |-> "none", want |-> NoEntries, batch |-> NoEntries,
               todo |-> {}, snap |-> File, done |-> {}]
  BY DEF IdleReq
<1> HIDE DEF shown
<1>5. CASE Become(r, shown)
  <2>1. /\ DOMAIN req' = Requests /\ DOMAIN q = Fields
        /\ q.pc = "display" /\ q.op = "none" /\ q.want = NoEntries /\ q.batch = NoEntries
        /\ q.todo = {} /\ q.snap = File /\ q.done = {}
        /\ \A s \in Requests : s # r => req'[s] = req[s]
    BY <1>1, <1>4, <1>5, Becomes
  <2> HIDE DEF q
  <2>2. RequestOK(q) BY <2>1, NoEntriesOK, FileIsSettings DEF RequestOK, Updating
  <2> QED BY <1>1, <1>2, <2>1, <2>2 DEF Moves, q
<1>6. CASE Finish(r)
  BY <1>1, <1>2, <1>6, FinishMoves DEF IdleReq
<1> QED BY <1>3, <1>5, <1>6

\* The list of models a request read, and the answer to an operator.
LEMMA AnswersOK ==
  ASSUME ConfigTypes, NEW r \in Requests, Display(r) \/ CacheModels(r)
  PROVE  /\ Moves(r) /\ req'[r] = IdleReq /\ req[r].pc \in {"display", "discover"}
         /\ UNCHANGED <<row, active, live, token, doc, torn, overlapped, asked>>
         /\ fileMap' \in Values /\ cache' \in Values
         /\ \/ cache' = cache
            \/ req[r].pc = "discover" /\ cache' = req[r].snap[Providers]
<1> USE DEF UnchangedConfig, UnchangedRest, UnchangedCounts
<1>1. RequestOK(req[r]) /\ fileMap \in Values /\ cache \in Values
  BY DEF ConfigTypes
<1>2. req[r].snap[Providers] \in Values
  BY <1>1, KeysAre DEF RequestOK, IsSettings, Settings
<1>3. DisplayMasks \in Values BY <1>1, ValuesHold DEF DisplayMasks, Masked
<1>4. CASE Display(r) BY <1>1, <1>3, <1>4, FinishMoves DEF Display
<1>5. CASE CacheModels(r) BY <1>1, <1>2, <1>5, FinishMoves DEF CacheModels
<1> QED BY <1>4, <1>5

-----------------------------------------------------------------------------
\* The inductive invariant.

\* The steps of the requests, by what they leave to the others.
Starts(r) == PutConfig(r) \/ Import(r) \/ CompleteSetup(r) \/ ApplyEnv(r) \/ DeleteEntry(r)
               \/ ListModels(r)

LEMMA ConfigCases ==
  ASSUME [ConfigNext]_configVars
  PROVE  \/ \E r \in Requests :
              \/ Starts(r) \/ Check(r) \/ Applied(r) \/ StoreRow(r) \/ Swap(r) \/ Invalidate(r)
              \/ EraseRow(r) \/ Revert(r) \/ Notify(r) \/ Reload(r)
              \/ Display(r) \/ CacheModels(r)
         \/ Export \/ GetConfig \/ ExpireModels \/ ConfigRestart \/ UNCHANGED configVars
BY Zenon DEF ConfigNext, ConfigStep, Starts

LEMMA MovesTypes ==
  ASSUME ConfigTypes, NEW r \in Requests, Moves(r)
  PROVE  DOMAIN req' = Requests /\ \A s \in Requests : RequestOK(req'[s])
BY DEF ConfigTypes, Moves

LEMMA ConfigTypesInit == ConfigInit => ConfigTypes
<1> SUFFICES ASSUME ConfigInit PROVE ConfigTypes
  OBVIOUS
<1>1. row \in [Keys -> Values \cup {NoRow}] /\ \A k \in Guarded : row[k] # Mask
  BY KeysAre, ValuesHold, ValuesDistinct DEF ConfigInit
<1>2. fileMap \in Values /\ cache \in Values
  BY KeysAre, ValuesHold DEF ConfigInit
<1>3. IsSettings(active) /\ IsSettings(live)
  BY FileIsSettings DEF ConfigInit
<1>4. DOMAIN req = Requests /\ \A r \in Requests : RequestOK(req[r])
  BY IdleOK DEF ConfigInit
<1>5. token \in {"armed", "off"} /\ doc = NoDoc BY DEF ConfigInit
<1> QED BY <1>1, <1>2, <1>3, <1>4, <1>5 DEF ConfigTypes

LEMMA ConfigTypesStep ==
  ASSUME ConfigTypes, [ConfigNext]_configVars
  PROVE  ConfigTypes'
<1>0. /\ row \in [Keys -> Values \cup {NoRow}] /\ \A k \in Guarded : row[k] # Mask
      /\ IsSettings(active) /\ IsSettings(live)
      /\ fileMap \in Values /\ cache \in Values
      /\ token \in {"armed", "off"}
      /\ doc = NoDoc \/ doc \in [Keys -> Values]
      /\ DOMAIN req = Requests /\ \A r \in Requests : RequestOK(req[r])
  BY DEF ConfigTypes
<1> SUFFICES /\ row' \in [Keys -> Values \cup {NoRow}] /\ \A k \in Guarded : row'[k] # Mask
             /\ IsSettings(active') /\ IsSettings(live')
             /\ fileMap' \in Values /\ cache' \in Values
             /\ token' \in {"armed", "off"}
             /\ doc' = NoDoc \/ doc' \in [Keys -> Values]
             /\ DOMAIN req' = Requests /\ \A r \in Requests : RequestOK(req'[r])
  BY DEF ConfigTypes, IsSettings, Settings, RequestOK, IsBatch
<1>1. ASSUME NEW r \in Requests, Starts(r)
      PROVE  Moves(r) /\ UNCHANGED <<row, active, live, fileMap, cache, token, doc>>
  BY <1>1, StartsOK DEF Starts
<1>2. ASSUME NEW r \in Requests, Check(r) \/ Applied(r) \/ Notify(r)
      PROVE  Moves(r) /\ UNCHANGED <<row, active, live, fileMap, cache, token, doc>>
  BY <1>2, CheckOK, AppliedOK, NotifyOK
<1>3. CASE \E r \in Requests : Starts(r) \/ Check(r) \/ Applied(r) \/ Notify(r)
  BY <1>0, <1>1, <1>2, <1>3, MovesTypes
<1>4. CASE \E r \in Requests : StoreRow(r) \/ EraseRow(r)
  <2>1. PICK r \in Requests : StoreRow(r) \/ EraseRow(r) BY <1>4
  <2>2. /\ Moves(r) /\ UNCHANGED <<active, live, fileMap, cache, token, doc>>
        /\ row' \in [Keys -> Values \cup {NoRow}] /\ \A k \in Guarded : row'[k] # Mask
    <3>1. CASE StoreRow(r) BY <3>1, StoreRowOK
    <3>2. CASE EraseRow(r) BY <3>2, EraseRowOK
    <3> QED BY <2>1, <3>1, <3>2
  <2> QED BY <1>0, <2>2, MovesTypes
<1>5. CASE \E r \in Requests : Swap(r) \/ Revert(r)
  <2>1. PICK r \in Requests : Swap(r) \/ Revert(r) BY <1>5
  <2>2. /\ Moves(r) /\ UNCHANGED <<row, live, cache, token, doc>>
        /\ fileMap' \in Values /\ IsSettings(active')
    <3>1. CASE Swap(r) BY <1>0, <3>1, SwapOK
    <3>2. CASE Revert(r) BY <3>2, RevertOK
    <3> QED BY <2>1, <3>1, <3>2
  <2> QED BY <1>0, <2>2, MovesTypes
<1>6. CASE \E r \in Requests : Invalidate(r)
  BY <1>0, <1>6, InvalidateOK, MovesTypes, ValuesHold
<1>7. CASE \E r \in Requests : Reload(r)
  <2>1. PICK r \in Requests : Reload(r) BY <1>7
  <2>2. IsSettings(req[r].snap) BY <1>0 DEF RequestOK
  <2> QED BY <1>0, <2>1, <2>2, ReloadOK, MovesTypes
<1>8. CASE \E r \in Requests : Display(r) \/ CacheModels(r)
  <2>1. PICK r \in Requests : Display(r) \/ CacheModels(r) BY <1>8
  <2> QED BY <1>0, <2>1, AnswersOK, MovesTypes
<1>9. CASE Export
  <2>1. \A k \in Keys : Read(active, k) \in Values
    BY <1>0 DEF Read, IsSettings, Settings
  <2>2. \A masked \in BOOLEAN : Exported(masked) \in [Keys -> Values]
    BY <2>1, ValuesHold DEF Exported
  <2> QED BY <1>0, <1>9, <2>2 DEF Export, UnchangedConfig
<1>10. CASE GetConfig
  <2>1. DisplayMasks \in Values BY <1>0, ValuesHold DEF DisplayMasks, Masked
  <2> QED BY <1>0, <1>10, <2>1 DEF GetConfig, UnchangedRest
<1>11. CASE ExpireModels
  BY <1>0, <1>11, ValuesHold DEF ExpireModels, UnchangedConfig
<1>12. CASE ConfigRestart
  <2>1. IsSettings(Overlaid) BY OverlaidOK
  <2>2. \A r \in Requests : RequestOK(IdleReq) BY IdleOK
  <2> QED BY <1>0, <1>12, <2>1, <2>2, KeysAre, ValuesHold DEF ConfigRestart
<1>13. CASE UNCHANGED configVars
  BY <1>0, <1>13 DEF configVars
<1> QED BY <1>3, <1>4, <1>5, <1>6, <1>7, <1>8, <1>9, <1>10, <1>11, <1>12, <1>13, ConfigCases

THEOREM ConfigurationTypes == ConfigSpec => []ConfigTypes
<1>1. ConfigTypes /\ [ConfigNext]_configVars => ConfigTypes'
  BY ConfigTypesStep
<1> QED BY <1>1, ConfigTypesInit, PTL DEF ConfigSpec

(* The table, the configuration in force and the copy the components run   *)
(* with keep their types, and no masked form of the Gitea credentials or   *)
(* of the providers' keys ever reaches any of them, whatever requests      *)
(* overlap, fail half-way or are cut off by a restart.                     *)
THEOREM NoMaskInForce == ConfigSpec => []ConfigInv
<1>1. ConfigTypes => ConfigInv
  BY DEF ConfigTypes, ConfigInv, IsSettings, Guarded
<1> QED BY <1>1, ConfigurationTypes, PTL

-----------------------------------------------------------------------------
\* The one request under way agrees with the table.

LEMMA AgreeMeans ==
  \A k \in Plain :
    /\ Agrees(k) <=> \/ active[k] = IF row[k] = NoRow THEN File[k] ELSE row[k]
                     \/ k = Preset /\ row[k] = NoRow /\ active[k] = Empty
    /\ Agrees(k)' <=> \/ active'[k] = IF row'[k] = NoRow THEN File[k] ELSE row'[k]
                      \/ k = Preset /\ row'[k] = NoRow /\ active'[k] = Empty
BY KeysAre DEF Agrees, Dropped, Overlaid, Plain

\* Alone among the requests, its step decides.
LEMMA QuietBy ==
  ASSUME ConfigTypes, QuietInv, NEW r \in Requests, Moves(r),
         \/ overlapped' = overlapped /\ req[r].pc # "idle"
         \/ overlapped' = (overlapped \/ Busy # {}),
         (~overlapped' /\ ~torn') => IF req'[r].pc = "idle" THEN AllAgree'
                                     ELSE UnderwayOK(req[r])'
  PROVE  QuietInv'
<1> SUFFICES ASSUME ~overlapped'
             PROVE  /\ \A x, y \in Busy' : x = y
                    /\ ~torn' => /\ \A x \in Busy' : UnderwayOK(req[x])'
                                 /\ Busy' = {} => AllAgree'
  BY DEF QuietInv
<1>1. ~overlapped /\ \A s \in Requests : s # r => req[s].pc = "idle"
  <2>1. CASE overlapped' = overlapped /\ req[r].pc # "idle"
    <3>1. ~overlapped BY <2>1
    <3>2. r \in Busy /\ \A x, y \in Busy : x = y BY <2>1, <3>1 DEF QuietInv, Busy
    <3> QED BY <3>1, <3>2 DEF Busy
  <2>2. CASE overlapped' = (overlapped \/ Busy # {})
    <3>1. ~(overlapped \/ Busy # {}) BY Zenon, <2>2
    <3> QED BY <3>1 DEF Busy
  <2> QED BY <2>1, <2>2
<1>2. \A s \in Requests : s # r => req'[s].pc = "idle"
  BY <1>1 DEF Moves
<1>3. Busy' = IF req'[r].pc = "idle" THEN {} ELSE {r}
  BY <1>2 DEF Busy
<1> QED BY <1>3

LEMMA Underway ==
  ASSUME QuietInv, NEW r \in Requests, req[r].pc # "idle", ~overlapped, ~torn
  PROVE  UnderwayOK(req[r])
BY DEF QuietInv, Busy

LEMMA StartsQuiet ==
  ASSUME ConfigTypes, QuietInv, NEW r \in Requests, Starts(r)
  PROVE  QuietInv'
<1>1. /\ Moves(r) /\ req'[r].done = {} /\ req'[r].pc \in {"display", "check", "erase", "discover"}
      /\ req'[r].pc \in {"erase", "discover"} => req'[r].snap = active
      /\ overlapped' = (overlapped \/ Busy # {})
      /\ UNCHANGED <<row, active, live, cache, torn>>
  BY StartsOK DEF Starts
<1>2. ASSUME ~overlapped', ~torn' PROVE UnderwayOK(req[r])'
  <2>1. AllAgree BY <1>1, <1>2 DEF QuietInv
  <2>2. \A k \in Plain : Agrees(k)' BY <1>1, <2>1, AgreeMeans DEF AllAgree
  <2>3. TableOK(req[r])' BY <1>1, <2>2 DEF TableOK
  <2> QED BY <1>1, <2>1, <2>3 DEF AllAgree, UnderwayOK
<1> QED BY <1>1, <1>2, QuietBy

LEMMA CheckQuiet ==
  ASSUME ConfigTypes, QuietInv, NEW r \in Requests, Check(r) \/ Applied(r)
  PROVE  QuietInv'
<1>1. /\ Moves(r) /\ req[r].pc = "check" /\ RequestOK(req[r])
      /\ UNCHANGED <<row, active, live, cache, torn, overlapped>>
  BY CheckOK, AppliedOK DEF ConfigTypes
<1>2. \/ /\ req'[r].pc = "store" /\ req'[r].done = req[r].done
         /\ req'[r].todo = DOMAIN req'[r].batch
         /\ \A k \in Plain : req'[r].snap[k] = IF k \in DOMAIN req'[r].batch
                                               THEN req'[r].batch[k] ELSE active[k]
      \/ req'[r].pc \in {"check", "notify"} /\ req'[r].done = req[r].done
      \/ req[r].done = {} /\ req'[r].pc = "idle"
  <2>1. CASE Check(r) BY <1>1, <2>1, CheckOK DEF IdleReq, RequestOK
  <2>2. CASE Applied(r) BY <2>2, AppliedOK DEF IdleReq
  <2> QED BY <2>1, <2>2
<1>3. ASSUME ~overlapped', ~torn'
      PROVE  IF req'[r].pc = "idle" THEN AllAgree' ELSE UnderwayOK(req[r])'
  <2>1. UnderwayOK(req[r]) BY <1>1, <1>3, Underway
  <2>2. \A k \in Plain : Agrees(k)' BY <1>1, <2>1, AgreeMeans DEF UnderwayOK, TableOK
  <2>3. /\ req[r].done = {} => live = active
        /\ cache \in {Empty, active[Providers]}
    BY <1>1, <2>1 DEF UnderwayOK
  <2>4. CASE req'[r].pc = "idle"
    BY <1>1, <1>2, <2>2, <2>3, <2>4 DEF AllAgree
  <2>5. CASE req'[r].pc # "idle"
    <3>1. TableOK(req[r])' BY <1>2, <2>2, <2>5 DEF TableOK
    <3> QED BY <1>1, <1>2, <2>3, <2>5, <3>1 DEF UnderwayOK
  <2> QED BY <2>4, <2>5
<1> QED BY <1>1, <1>3, QuietBy

LEMMA StoreRowQuiet ==
  ASSUME ConfigTypes, QuietInv, NEW r \in Requests, StoreRow(r)
  PROVE  QuietInv'
<1>1. /\ Moves(r) /\ req[r].pc = "store" /\ RequestOK(req[r])
      /\ UNCHANGED <<active, live, cache, overlapped>>
  BY StoreRowOK DEF ConfigTypes
<1>2. ASSUME ~overlapped', ~torn'
      PROVE  req'[r].pc # "idle" /\ UnderwayOK(req[r])'
  <2>1. PICK k \in req[r].todo \cap DOMAIN req[r].batch :
          /\ row' = [row EXCEPT ![k] = req[r].batch[k]] /\ torn' = torn
          /\ req'[r].pc = IF req[r].todo = {k} THEN "swap" ELSE "store"
          /\ req'[r].op = req[r].op /\ req'[r].batch = req[r].batch
          /\ req'[r].todo = req[r].todo \ {k}
          /\ req'[r].snap = req[r].snap /\ req'[r].done = req[r].done
    BY <1>2, StoreRowOK
  <2>2. UnderwayOK(req[r]) BY <1>1, <1>2, <2>1, Underway
  <2>3. /\ req'[r].pc \in {"store", "swap"}
        /\ req[r].done = {} => live = active
        /\ cache \in {Empty, active[Providers]}
        /\ \A x \in Plain \ DOMAIN req[r].batch : req[r].snap[x] = active[x]
    BY <1>1, <2>1, <2>2 DEF UnderwayOK
  <2>4. ASSUME NEW x \in Plain, x \in DOMAIN req'[r].batch \ req'[r].todo
        PROVE  row'[x] = req'[r].batch[x]
    <3>1. x \in DOMAIN row BY <2>4, KeysAre DEF ConfigTypes
    <3>2. x # k => row[x] = req[r].batch[x]
      BY <1>1, <2>1, <2>2, <2>4 DEF UnderwayOK, TableOK
    <3> QED BY <2>1, <2>4, <3>1, <3>2
  <2>5. ASSUME NEW x \in Plain, x \notin DOMAIN req'[r].batch \ req'[r].todo
        PROVE  Agrees(x)'
    <3>1. x # k /\ x \notin DOMAIN req[r].batch \ req[r].todo BY <2>1, <2>5
    <3>2. Agrees(x) BY <1>1, <2>2, <3>1 DEF UnderwayOK, TableOK
    <3>3. row'[x] = row[x] BY <2>1, <3>1
    <3> QED BY <1>1, <3>2, <3>3, AgreeMeans
  <2>6. TableOK(req[r])' BY <2>3, <2>4, <2>5 DEF TableOK
  <2> QED BY <1>1, <2>1, <2>3, <2>6 DEF UnderwayOK
<1> QED BY <1>1, <1>2, QuietBy

\* The entries that come into force are those of the table.
LEMMA SwapQuiet ==
  ASSUME ConfigTypes, QuietInv, NEW r \in Requests, Swap(r) \/ Revert(r)
  PROVE  QuietInv'
<1>1. /\ Moves(r) /\ req[r].pc \in {"swap", "revert"} /\ RequestOK(req[r])
      /\ UNCHANGED <<row, live, cache, overlapped>>
  BY SwapOK, RevertOK DEF ConfigTypes
<1>2. ASSUME ~overlapped', ~torn'
      PROVE  req'[r].pc # "idle" /\ UnderwayOK(req[r])'
  <2>1. ~torn /\ AfterSwap(r) BY <1>2, SwapOK, RevertOK
  <2>2. UnderwayOK(req[r]) BY <1>1, <1>2, <2>1, Underway
  <2>3. /\ req'[r].pc \in {"invalidate", "check", "notify"} /\ req'[r].done # {}
        /\ Providers \in DOMAIN req[r].batch => req'[r].pc = "invalidate"
    BY <1>1, <2>1, AfterSwapMoves
  <2>4. ASSUME NEW x \in Plain
        PROVE  /\ \/ active'[x] = IF row[x] = NoRow THEN File[x] ELSE row[x]
                  \/ x = Preset /\ row[x] = NoRow /\ active'[x] = Empty
               /\ x \notin DOMAIN req[r].batch => active'[x] = active[x]
    <3>1. CASE Swap(r)
      <4>1. req[r].pc = "swap" /\ req[r].todo = {} BY <1>1, <3>1, SwapOK DEF RequestOK
      <4>2. /\ x \in DOMAIN req[r].batch => active'[x] = req[r].batch[x]
            /\ x \notin DOMAIN req[r].batch => active'[x] = active[x]
        <5>1. /\ x \in DOMAIN req[r].batch => req[r].snap[x] = req[r].batch[x]
              /\ x \notin DOMAIN req[r].batch => req[r].snap[x] = active[x]
          BY <1>1, <2>2, <4>1 DEF RequestOK, UnderwayOK
        <5>2. \/ active' = req[r].snap
              \/ \A k \in Plain : active'[k] = IF k \in DOMAIN req[r].batch
                                               THEN req[r].batch[k] ELSE active[k]
          BY <1>2, <3>1, SwapOK
        <5> QED BY <5>1, <5>2
      <4>3. x \in DOMAIN req[r].batch => row[x] = req[r].batch[x] /\ row[x] # NoRow
        <5>1. x \in DOMAIN req[r].batch => req[r].batch[x] # NoRow
          BY <1>1, ValuesDistinct DEF RequestOK, IsBatch
        <5> QED BY <2>2, <4>1, <5>1 DEF UnderwayOK, TableOK
      <4>4. x \notin DOMAIN req[r].batch =>
              \/ active[x] = IF row[x] = NoRow THEN File[x] ELSE row[x]
              \/ x = Preset /\ row[x] = NoRow /\ active[x] = Empty
        BY <2>2, <4>1, AgreeMeans DEF UnderwayOK, TableOK
      <4> QED BY <4>2, <4>3, <4>4
    <3>2. CASE Revert(r)
      <4>1. req[r].pc = "revert" BY <3>2, RevertOK
      <4>2. active'[x] = IF x \in DOMAIN req[r].batch THEN Baseline(x) ELSE active[x]
        BY <1>2, <3>2, RevertOK
      <4>3. x \in DOMAIN req[r].batch => /\ row[x] = NoRow
                                         /\ \/ Baseline(x) = File[x]
                                            \/ x = Preset /\ Baseline(x) = Empty
        <5>1. x \in DOMAIN req[r].batch => row[x] = NoRow /\ x # Gates
          BY <1>2, <2>2, <3>2, <4>1, RevertOK DEF UnderwayOK, TableOK
        <5> QED BY <5>1, KeysAre, BaselineOK
      <4>4. x \notin DOMAIN req[r].batch =>
              \/ active[x] = IF row[x] = NoRow THEN File[x] ELSE row[x]
              \/ x = Preset /\ row[x] = NoRow /\ active[x] = Empty
        BY <2>2, <4>1, AgreeMeans DEF UnderwayOK, TableOK
      <4> QED BY <4>2, <4>3, <4>4
    <3> QED BY <3>1, <3>2
  <2>5. \A x \in Plain : Agrees(x)' BY <1>1, <2>4, AgreeMeans
  <2>6. TableOK(req[r])' BY <2>3, <2>5 DEF TableOK
  <2>7. req'[r].pc # "invalidate" => cache' \in {Empty, active'[Providers]}
    <3>1. Providers \in Plain BY KeysAre
    <3>2. cache \in {Empty, active[Providers]} BY <1>1, <2>2 DEF UnderwayOK
    <3> QED BY <1>1, <2>3, <2>4, <3>1, <3>2
  <2> QED BY <2>3, <2>6, <2>7 DEF UnderwayOK
<1> QED BY <1>1, <1>2, QuietBy

LEMMA InvalidateQuiet ==
  ASSUME ConfigTypes, QuietInv, NEW r \in Requests, Invalidate(r)
  PROVE  QuietInv'
<1>1. /\ Moves(r) /\ req[r].pc = "invalidate" /\ req[r].done # {}
      /\ UNCHANGED <<row, active, live, torn, overlapped>> /\ cache' = Empty
      /\ req'[r].pc \in {"check", "notify"} /\ req'[r].done = req[r].done
  BY InvalidateOK DEF ConfigTypes, RequestOK
<1>2. ASSUME ~overlapped', ~torn' PROVE UnderwayOK(req[r])'
  <2>1. UnderwayOK(req[r]) BY <1>1, <1>2, Underway
  <2>2. \A k \in Plain : Agrees(k)' BY <1>1, <2>1, AgreeMeans DEF UnderwayOK, TableOK
  <2>3. TableOK(req[r])' BY <1>1, <2>2 DEF TableOK
  <2> QED BY <1>1, <2>3 DEF UnderwayOK
<1> QED BY <1>1, <1>2, QuietBy

LEMMA EraseRowQuiet ==
  ASSUME ConfigTypes, QuietInv, NEW r \in Requests, EraseRow(r)
  PROVE  QuietInv'
<1>1. /\ Moves(r) /\ req[r].pc = "erase" /\ req[r].done = {}
      /\ UNCHANGED <<active, live, cache, torn, overlapped>>
  BY EraseRowOK DEF ConfigTypes, RequestOK
<1>2. ASSUME ~overlapped', ~torn'
      PROVE  IF req'[r].pc = "idle" THEN AllAgree' ELSE UnderwayOK(req[r])'
  <2>1. UnderwayOK(req[r]) BY <1>1, <1>2, Underway
  <2>2. live = active /\ cache \in {Empty, active[Providers]}
    BY <1>1, <2>1 DEF UnderwayOK
  <2>3. CASE row' = row /\ req'[r] = IdleReq
    <3>1. \A k \in Plain : Agrees(k)'
      BY <1>1, <2>1, <2>3, AgreeMeans DEF UnderwayOK, TableOK
    <3> QED BY <1>1, <2>2, <2>3, <3>1 DEF AllAgree, IdleReq
  <2>4. CASE /\ row' = [k \in Keys |-> IF k \in DOMAIN req[r].batch THEN NoRow ELSE row[k]]
             /\ req'[r].pc = "revert" /\ req'[r].batch = req[r].batch
             /\ req'[r].done = req[r].done
    <3>1. \A k \in Plain : k \in DOMAIN req'[r].batch => row'[k] = NoRow
      BY <2>4, KeysAre
    <3>2. \A k \in Plain : k \notin DOMAIN req'[r].batch => Agrees(k)'
      BY <1>1, <2>1, <2>4, AgreeMeans, KeysAre DEF UnderwayOK, TableOK
    <3>3. TableOK(req[r])' BY <2>4, <3>1, <3>2 DEF TableOK
    <3> QED BY <1>1, <2>2, <2>4, <3>3 DEF UnderwayOK
  <2> QED BY <2>3, <2>4, EraseRowOK
<1> QED BY <1>1, <1>2, QuietBy

LEMMA AnnounceQuiet ==
  ASSUME ConfigTypes, QuietInv, NEW r \in Requests, Notify(r) \/ Reload(r)
  PROVE  QuietInv'
<1>1. /\ Moves(r) /\ req[r].pc \in {"notify", "reload"}
      /\ UNCHANGED <<row, active, cache, torn, overlapped>>
  BY NotifyOK, ReloadOK
<1>2. ASSUME ~overlapped', ~torn'
      PROVE  IF req'[r].pc = "idle" THEN AllAgree' ELSE UnderwayOK(req[r])'
  <2>1. UnderwayOK(req[r]) BY <1>1, <1>2, Underway
  <2>2. \A k \in Plain : Agrees(k)' BY <1>1, <2>1, AgreeMeans DEF UnderwayOK, TableOK
  <2>3. cache \in {Empty, active[Providers]} BY <1>1, <2>1 DEF UnderwayOK
  <2>4. CASE Notify(r)
    <3>1. req'[r].pc = "reload" /\ req'[r].snap = active BY <2>4, NotifyOK
    <3>2. TableOK(req[r])' BY <2>2, <3>1 DEF TableOK
    <3> QED BY <1>1, <2>3, <3>1, <3>2 DEF UnderwayOK
  <2>5. CASE Reload(r)
    <3>1. /\ req[r].pc = "reload" /\ live' = req[r].snap
          /\ req'[r].pc \in {"display", "idle"} /\ req'[r].done = {}
      BY <2>5, ReloadOK
    <3>2. live' = active' BY <1>1, <2>1, <3>1 DEF UnderwayOK
    <3>3. req'[r].pc # "idle" => TableOK(req[r])' BY <2>2, <3>1 DEF TableOK
    <3> QED BY <1>1, <2>2, <2>3, <3>1, <3>2, <3>3 DEF UnderwayOK, AllAgree
  <2> QED BY <2>4, <2>5
<1> QED BY <1>1, <1>2, QuietBy

LEMMA AnswersQuiet ==
  ASSUME ConfigTypes, QuietInv, NEW r \in Requests, Display(r) \/ CacheModels(r)
  PROVE  QuietInv'
<1>1. /\ Moves(r) /\ req'[r].pc = "idle" /\ req[r].pc \in {"display", "discover"}
      /\ UNCHANGED <<row, active, live, torn, overlapped>>
      /\ \/ cache' = cache
         \/ req[r].pc = "discover" /\ cache' = req[r].snap[Providers]
      /\ req[r].done = {}
  BY AnswersOK DEF ConfigTypes, RequestOK, IdleReq
<1>2. ASSUME ~overlapped', ~torn' PROVE AllAgree'
  <2>1. UnderwayOK(req[r]) BY <1>1, <1>2, Underway
  <2>2. \A k \in Plain : Agrees(k)' BY <1>1, <2>1, AgreeMeans DEF UnderwayOK, TableOK
  <2> QED BY <1>1, <2>1, <2>2 DEF UnderwayOK, AllAgree
<1> QED BY <1>1, <1>2, QuietBy

LEMMA QuietStep ==
  ASSUME ConfigTypes, QuietInv, [ConfigNext]_configVars
  PROVE  QuietInv'
<1>1. CASE Export \/ GetConfig \/ UNCHANGED configVars
  <2>1. UNCHANGED <<row, active, live, cache, req, torn, overlapped>>
    BY <1>1 DEF Export, GetConfig, UnchangedConfig, UnchangedRest, UnchangedCounts, configVars
  <2>2. \A k \in Plain : Agrees(k)' <=> Agrees(k) BY <2>1, AgreeMeans
  <2> QED BY <2>1, <2>2 DEF QuietInv, Busy, UnderwayOK, TableOK, AllAgree
<1>2. CASE ExpireModels
  <2>1. UNCHANGED <<row, active, live, req, torn, overlapped>> /\ cache' = Empty
    BY <1>2 DEF ExpireModels, UnchangedConfig, UnchangedCounts
  <2>2. \A k \in Plain : Agrees(k)' <=> Agrees(k) BY <2>1, AgreeMeans
  <2> QED BY <2>1, <2>2 DEF QuietInv, Busy, UnderwayOK, TableOK, AllAgree
<1>3. CASE ConfigRestart
  <2>1. /\ active' = Overlaid /\ live' = Overlaid /\ cache' = Empty /\ row' = row
        /\ req' = [r \in Requests |-> IdleReq]
    BY <1>3 DEF ConfigRestart
  <2>2. Busy' = {} BY <2>1 DEF Busy, IdleReq
  <2>3. \A k \in Plain : Agrees(k)' BY <2>1, OverlaidOK, AgreeMeans
  <2>4. AllAgree' BY <2>1, <2>3 DEF AllAgree
  <2> QED BY <2>2, <2>4 DEF QuietInv
<1> QED BY <1>1, <1>2, <1>3, ConfigCases, StartsQuiet, CheckQuiet, StoreRowQuiet, SwapQuiet,
           InvalidateQuiet, EraseRowQuiet, AnnounceQuiet, AnswersQuiet

(* Between requests that neither failed half-way nor overlapped, for any   *)
(* file and any entries, what runs is the table laid over the file, the    *)
(* components have it, and the model list is the one of its provider.  The *)
(* invariant says of the one request under way how far the table and the   *)
(* configuration in force have got with its entries.                       *)
THEOREM SettlesBetweenRequests == ConfigSpec => []Settled
<1>1. ConfigInit => QuietInv
  <2> SUFFICES ASSUME ConfigInit PROVE QuietInv
    OBVIOUS
  <2>1. Busy = {} BY DEF Busy, ConfigInit, IdleReq
  <2>2. \A k \in Plain : Agrees(k)
    <3>1. \A k \in Plain : active[k] = File[k] /\ row[k] = NoRow
      BY FileIsSettings, KeysAre DEF ConfigInit, IsSettings, Settings
    <3> QED BY <3>1, AgreeMeans
  <2>3. AllAgree BY <2>2 DEF ConfigInit, AllAgree
  <2> QED BY <2>1, <2>3 DEF QuietInv
<1>2. StoreInv /\ [ConfigNext]_configVars => StoreInv'
  BY ConfigTypesStep, QuietStep DEF StoreInv
<1>3. StoreInv => Settled
  BY DEF StoreInv, QuietInv, AllAgree, Agrees, Settled
<1> QED BY <1>1, <1>2, <1>3, ConfigTypesInit, PTL DEF ConfigSpec, StoreInv

-----------------------------------------------------------------------------
\* The configuration manager implements the register.

\* What a request is to the register while it stores its entries.
Carrying == {"store", "swap", "erase", "revert"}

BatchOf(q) ==
  [entries |-> [k \in Plain |-> IF k \in DOMAIN q.batch THEN q.batch[k] ELSE Keep],
   target  |-> [k \in Plain |-> IF k \in DOMAIN q.batch THEN q.batch[k] ELSE q.snap[k]],
   written |-> Plain \cap (DOMAIN q.batch \ q.todo),
   erases  |-> q.op = "delete"]

Stored  == [k \in Plain |-> row[k]]
Running == [k \in Plain |-> active[k]]
Pending == [r \in Requests |-> PendingOf(r)]

LEMMA PendingMeans ==
  \A r \in Requests :
    /\ Pending[r] = IF req[r].pc \in Carrying THEN BatchOf(req[r]) ELSE NoBatch
    /\ Pending'[r] = IF req'[r].pc \in Carrying THEN BatchOf(req'[r]) ELSE NoBatch
BY DEF Pending, PendingOf, BatchOf, Carrying

LEMMA PendingMoves ==
  ASSUME NEW r \in Requests, Moves(r)
  PROVE  Pending' = [Pending EXCEPT ![r] = Pending'[r]]
<1>1. \A s \in Requests : s # r => Pending'[s] = Pending[s]
  <2> SUFFICES ASSUME NEW s \in Requests, s # r PROVE Pending'[s] = Pending[s]
    OBVIOUS
  <2>1. req'[s] = req[s] BY DEF Moves
  <2> QED BY <2>1, PendingMeans
<1>2. DOMAIN Pending = Requests /\ DOMAIN Pending' = Requests BY DEF Pending
<1>3. /\ Pending = [s \in Requests |-> Pending[s]]
      /\ Pending' = [s \in Requests |-> Pending'[s]]
  BY DEF Pending
<1> QED BY <1>1, <1>2, <1>3

LEMMA BatchIsNoIdle ==
  ASSUME NEW q, RequestOK(q)
  PROVE  /\ BatchOf(q) # NoBatch
         /\ BatchOf(q).entries \in [Plain -> Values \cup {Keep}]
         /\ Register!Named(BatchOf(q).entries) = Plain \cap DOMAIN q.batch
<1>1. /\ IsBatch(q.batch) /\ IsSettings(q.snap) BY DEF RequestOK
<1>2. BatchOf(q).entries \in [Plain -> Values \cup {Keep}]
  BY <1>1 DEF BatchOf, IsBatch
<1>3. BatchOf(q).target \in [Plain -> Values]
  BY <1>1, KeysAre DEF BatchOf, IsBatch, IsSettings, Settings
<1>4. BatchOf(q).written \in SUBSET Plain /\ BatchOf(q).erases \in BOOLEAN
  BY DEF BatchOf
<1>5. BatchOf(q) = [entries |-> BatchOf(q).entries, target |-> BatchOf(q).target,
                    written |-> BatchOf(q).written, erases |-> BatchOf(q).erases]
  BY DEF BatchOf
<1>6. BatchOf(q) # NoBatch
  <2>1. BatchOf(q) \in [entries : [Plain -> Values \cup {Keep}], target : [Plain -> Values],
                        written : SUBSET Plain, erases : BOOLEAN]
    BY <1>2, <1>3, <1>4, <1>5
  <2> QED BY <2>1, ConfigAssumption DEF ConfigAssumption
<1>7. Register!Named(BatchOf(q).entries) = Plain \cap DOMAIN q.batch
  BY <1>1, ValuesDistinct DEF Register!Named, BatchOf, IsBatch
<1> QED BY <1>2, <1>6, <1>7

RegisterMoves == \/ \E r \in Requests :
                      \/ Register!Begin(r) \/ Register!Activate(r) \/ Register!Abandon(r)
                      \/ \E k \in Plain : Register!Store(r, k)
                 \/ Register!Restart
                 \/ UNCHANGED <<Stored, Running, Pending>>

\* A step that neither stores nor puts anything into force.
LEMMA SilentStep ==
  ASSUME NEW r \in Requests, Moves(r), UNCHANGED <<row, active>>,
         req[r].pc \notin Carrying, req'[r].pc \notin Carrying
  PROVE  RegisterMoves
<1>1. Pending'[r] = Pending[r] BY PendingMeans
<1>2. Pending' = Pending
  <2>1. [Pending EXCEPT ![r] = Pending[r]] = Pending BY DEF Pending
  <2> QED BY <1>1, <2>1, PendingMoves
<1> QED BY <1>2 DEF RegisterMoves, Stored, Running

LEMMA BeginStep ==
  ASSUME ConfigTypes, ConfigTypes', NEW r \in Requests, Moves(r), UNCHANGED <<row, active>>,
         req[r].pc \notin Carrying, req'[r].pc \in Carrying,
         req'[r].todo = DOMAIN req'[r].batch,
         \A k \in Plain \ DOMAIN req'[r].batch : req'[r].snap[k] = active[k]
  PROVE  Register!Begin(r)
<1> DEFINE b == BatchOf(req'[r])
<1>1. RequestOK(req'[r]) BY DEF Moves
<1>2. Pending[r] = NoBatch /\ Pending'[r] = b BY PendingMeans
<1>3. b # NoBatch /\ b.entries \in [Plain -> Values \cup {Keep}] BY <1>1, BatchIsNoIdle
<1>4. b.written = {} BY DEF BatchOf
<1>5. b.target = Register!Laid(b.entries, Running)
  <2>1. IsBatch(req'[r].batch) BY <1>1 DEF RequestOK
  <2> QED BY <2>1, ValuesDistinct DEF BatchOf, Register!Laid, Running, IsBatch
<1>6. b = [entries |-> b.entries, target |-> Register!Laid(b.entries, Running),
           written |-> {}, erases |-> b.erases]
  BY <1>4, <1>5 DEF BatchOf
<1>7. UNCHANGED <<Stored, Running>> BY DEF Stored, Running
<1> HIDE DEF b
<1> QED BY <1>2, <1>3, <1>6, <1>7, PendingMoves DEF Register!Begin, Pending, Stored, Running

LEMMA AbandonStep ==
  ASSUME ConfigTypes, NEW r \in Requests, Moves(r), UNCHANGED <<row, active>>,
         req[r].pc \in Carrying, req'[r].pc \notin Carrying
  PROVE  Register!Abandon(r)
<1>1. Pending[r] # NoBatch /\ Pending'[r] = NoBatch
  BY PendingMeans, BatchIsNoIdle DEF ConfigTypes
<1>2. UNCHANGED <<Stored, Running>> BY DEF Stored, Running
<1> QED BY <1>1, <1>2, PendingMoves DEF Register!Abandon, Pending, Stored, Running

LEMMA ActivateStep ==
  ASSUME ConfigTypes, NEW r \in Requests, Moves(r), row' = row,
         req[r].pc \in {"swap", "revert"}, req'[r].pc \notin Carrying,
         \/ \A k \in Plain : active'[k] = BatchOf(req[r]).target[k]
         \/ \A k \in Plain : active'[k] = IF k \in DOMAIN req[r].batch
                                          THEN req[r].batch[k] ELSE active[k]
  PROVE  Register!Activate(r)
<1> DEFINE b == BatchOf(req[r])
<1>1. RequestOK(req[r]) /\ req[r].todo = {} BY DEF ConfigTypes, RequestOK
<1>2. Pending[r] = b /\ b # NoBatch /\ Pending'[r] = NoBatch
  BY <1>1, PendingMeans, BatchIsNoIdle DEF Carrying
<1>3. b.written = Register!Named(b.entries)
  BY <1>1, BatchIsNoIdle DEF BatchOf
<1>4. Running' \in {b.target, Register!Laid(b.entries, Running)}
  <2>1. CASE \A k \in Plain : active'[k] = b.target[k]
    <3>1. b.target = [k \in Plain |-> b.target[k]] BY DEF BatchOf
    <3> HIDE DEF b
    <3> QED BY <2>1, <3>1 DEF Running
  <2>2. CASE \A k \in Plain : active'[k] = IF k \in DOMAIN req[r].batch
                                           THEN req[r].batch[k] ELSE active[k]
    <3>1. IsBatch(req[r].batch) BY <1>1 DEF RequestOK
    <3>2. Running' = Register!Laid(b.entries, Running)
      BY <2>2, <3>1, ValuesDistinct DEF Running, Register!Laid, BatchOf, IsBatch
    <3> QED BY <3>2
  <2> QED BY <2>1, <2>2
<1>5. UNCHANGED Stored BY DEF Stored
<1> HIDE DEF b
<1> QED BY <1>2, <1>3, <1>4, <1>5, PendingMoves DEF Register!Activate, Pending, Stored, Running

\* An entry is stored, or its row dropped.
LEMMA StoreStep ==
  ASSUME ConfigTypes, NEW r \in Requests, Moves(r), active' = active,
         req[r].pc \in Carrying, req'[r].pc \in Carrying,
         req'[r].op = req[r].op, req'[r].batch = req[r].batch, req'[r].snap = req[r].snap,
         NEW k \in req[r].todo \cap DOMAIN req[r].batch, req'[r].todo = req[r].todo \ {k},
         \A x \in Plain : row'[x] = IF x # k THEN row[x]
                                    ELSE IF req[r].op = "delete" THEN NoRow
                                    ELSE req[r].batch[k]
  PROVE  RegisterMoves
<1> DEFINE b == BatchOf(req[r])
           next == BatchOf(req'[r])
<1>1. RequestOK(req[r]) BY DEF ConfigTypes
<1>2. Pending[r] = b /\ b # NoBatch /\ Pending'[r] = next
  BY <1>1, PendingMeans, BatchIsNoIdle
<1>3. UNCHANGED Running BY DEF Running
<1>4. CASE k \in Plain
  <2>1. k \in Register!Named(b.entries) \ b.written
    BY <1>1, <1>4, BatchIsNoIdle DEF BatchOf
  <2>2. b.entries[k] = req[r].batch[k] /\ (b.erases <=> req[r].op = "delete")
    BY <1>4 DEF BatchOf
  <2>3. Stored' = [Stored EXCEPT ![k] = IF b.erases THEN NoRow ELSE b.entries[k]]
    <3> HIDE DEF b
    <3> QED BY <1>4, <2>2 DEF Stored
  <2>4. next = [b EXCEPT !.written = b.written \cup {k}]
    <3>1. Plain \cap (DOMAIN req[r].batch \ (req[r].todo \ {k})) =
            (Plain \cap (DOMAIN req[r].batch \ req[r].todo)) \cup {k}
      BY <1>4
    <3>2. /\ next.entries = b.entries /\ next.target = b.target /\ next.erases = b.erases
          /\ next.written = b.written \cup {k}
      BY <3>1 DEF BatchOf
    <3>3. /\ next = [entries |-> next.entries, target |-> next.target,
                     written |-> next.written, erases |-> next.erases]
          /\ b = [entries |-> b.entries, target |-> b.target,
                  written |-> b.written, erases |-> b.erases]
      BY DEF BatchOf
    <3> HIDE DEF b, next
    <3> QED BY <3>2, <3>3
  <2>5. Pending' = [Pending EXCEPT ![r] = [b EXCEPT !.written = b.written \cup {k}]]
    BY <1>2, <2>4, PendingMoves
  <2> HIDE DEF b, next
  <2>6. Pending' = [Pending EXCEPT ![r].written = Pending[r].written \cup {k}]
    BY <1>2, <2>5
  <2>7. Register!Store(r, k)
    BY <1>2, <1>3, <2>1, <2>3, <2>6 DEF Register!Store, Pending, Stored, Running
  <2> QED BY <1>4, <2>7 DEF RegisterMoves
<1>5. CASE k \notin Plain
  <2>1. next = b BY <1>5 DEF BatchOf
  <2>2. Pending' = Pending
    <3>1. [Pending EXCEPT ![r] = Pending[r]] = Pending BY DEF Pending
    <3> QED BY <1>2, <2>1, <3>1, PendingMoves
  <2>3. UNCHANGED Stored BY <1>5 DEF Stored
  <2> QED BY <1>3, <2>2, <2>3 DEF RegisterMoves
<1> QED BY <1>4, <1>5

LEMMA RegisterInit == ConfigInit => Register!Init
<1> SUFFICES ASSUME ConfigInit PROVE Register!Init
  OBVIOUS
<1>1. Stored = [k \in Plain |-> NoRow]
  BY KeysAre DEF ConfigInit, Stored
<1>2. Running = [k \in Plain |-> File[k]]
  <2>1. \A k \in Plain : active[k] = File[k]
    BY FileIsSettings, KeysAre DEF ConfigInit, IsSettings, Settings
  <2> QED BY <2>1 DEF Running
<1>3. Pending = [r \in Requests |-> NoBatch]
  BY DEF ConfigInit, Pending, PendingOf, IdleReq
<1> QED BY <1>1, <1>2, <1>3 DEF Register!Init, Stored, Running, Pending

LEMMA RegisterStep ==
  ASSUME ConfigTypes, ConfigTypes', [ConfigNext]_configVars
  PROVE  RegisterMoves
<1> USE DEF Carrying
<1>1. CASE \E r \in Requests : Starts(r)
  <2>1. PICK r \in Requests : Starts(r) BY <1>1
  <2>2. /\ Moves(r) /\ req[r].pc = "idle" /\ UNCHANGED <<row, active>>
        /\ req'[r].pc \in {"display", "check", "erase", "discover"}
        /\ req'[r].pc = "erase" => req'[r].snap = active
    BY <2>1, StartsOK DEF Starts
  <2>3. CASE req'[r].pc = "erase"
    <3>1. req'[r].todo = DOMAIN req'[r].batch BY <2>2, <2>3 DEF Moves, RequestOK
    <3>2. Register!Begin(r) BY <2>2, <2>3, <3>1, BeginStep
    <3> QED BY <3>2 DEF RegisterMoves
  <2>4. CASE req'[r].pc # "erase" BY <2>2, <2>4, SilentStep
  <2> QED BY <2>3, <2>4
<1>2. CASE \E r \in Requests : Check(r)
  <2>1. PICK r \in Requests : Check(r) BY <1>2
  <2>2. Moves(r) /\ req[r].pc = "check" /\ UNCHANGED <<row, active>>
    BY <2>1, CheckOK
  <2>3. CASE /\ req'[r].pc = "store" /\ req'[r].todo = DOMAIN req'[r].batch
             /\ \A k \in Plain : req'[r].snap[k] = IF k \in DOMAIN req'[r].batch
                                                   THEN req'[r].batch[k] ELSE active[k]
    <3>1. Register!Begin(r) BY <2>2, <2>3, BeginStep
    <3> QED BY <3>1 DEF RegisterMoves
  <2>4. CASE req'[r].pc \in {"check", "notify", "idle"} BY <2>2, <2>4, SilentStep
  <2> QED BY <2>1, <2>3, <2>4, CheckOK DEF IdleReq
<1>3. CASE \E r \in Requests : Applied(r) \/ Invalidate(r) \/ Notify(r) \/ Reload(r)
  <2>1. PICK r \in Requests : Applied(r) \/ Invalidate(r) \/ Notify(r) \/ Reload(r) BY <1>3
  <2>2. /\ Moves(r) /\ UNCHANGED <<row, active>>
        /\ req[r].pc \notin Carrying /\ req'[r].pc \notin Carrying
    BY <2>1, AppliedOK, InvalidateOK, NotifyOK, ReloadOK DEF IdleReq
  <2> QED BY <2>2, SilentStep
<1>4. CASE \E r \in Requests : Display(r) \/ CacheModels(r)
  <2>1. PICK r \in Requests : Display(r) \/ CacheModels(r) BY <1>4
  <2>2. /\ Moves(r) /\ UNCHANGED <<row, active>>
        /\ req[r].pc \notin Carrying /\ req'[r].pc \notin Carrying
    BY <2>1, AnswersOK DEF IdleReq
  <2> QED BY <2>2, SilentStep
<1>5. CASE \E r \in Requests : StoreRow(r)
  <2>1. PICK r \in Requests : StoreRow(r) BY <1>5
  <2>2. Moves(r) /\ req[r].pc = "store" /\ active' = active /\ req[r].op # "delete"
    BY <2>1, StoreRowOK DEF ConfigTypes, RequestOK
  <2>3. CASE row' = row /\ req'[r].pc \in {"idle", "check", "notify"}
    <3>1. Register!Abandon(r) BY <2>2, <2>3, AbandonStep
    <3> QED BY <3>1 DEF RegisterMoves
  <2>4. CASE \E k \in req[r].todo \cap DOMAIN req[r].batch :
               /\ row' = [row EXCEPT ![k] = req[r].batch[k]]
               /\ req'[r].pc = IF req[r].todo = {k} THEN "swap" ELSE "store"
               /\ req'[r].op = req[r].op /\ req'[r].batch = req[r].batch
               /\ req'[r].todo = req[r].todo \ {k} /\ req'[r].snap = req[r].snap
    <3>1. PICK k \in req[r].todo \cap DOMAIN req[r].batch :
            /\ row' = [row EXCEPT ![k] = req[r].batch[k]]
            /\ req'[r].pc = IF req[r].todo = {k} THEN "swap" ELSE "store"
            /\ req'[r].op = req[r].op /\ req'[r].batch = req[r].batch
            /\ req'[r].todo = req[r].todo \ {k} /\ req'[r].snap = req[r].snap
      BY <2>4
    <3>2. \A x \in Plain : row'[x] = IF x # k THEN row[x] ELSE req[r].batch[k]
      BY <3>1, KeysAre DEF ConfigTypes
    <3> QED BY <2>2, <3>1, <3>2, StoreStep
  <2> QED BY <2>1, <2>3, <2>4, StoreRowOK
<1>6. CASE \E r \in Requests : EraseRow(r)
  <2>1. PICK r \in Requests : EraseRow(r) BY <1>6
  <2>2. /\ Moves(r) /\ req[r].pc = "erase" /\ active' = active /\ RequestOK(req[r])
    BY <2>1, EraseRowOK DEF ConfigTypes
  <2>3. CASE row' = row /\ req'[r] = IdleReq
    <3>1. Register!Abandon(r) BY <2>2, <2>3, AbandonStep DEF IdleReq
    <3> QED BY <3>1 DEF RegisterMoves
  <2>4. CASE /\ row' = [k \in Keys |-> IF k \in DOMAIN req[r].batch THEN NoRow ELSE row[k]]
             /\ req'[r].pc = "revert" /\ req'[r].op = "delete"
             /\ req'[r].batch = req[r].batch /\ req'[r].snap = req[r].snap
             /\ req'[r].todo = {}
    <3>1. req[r].op = "delete" /\ req[r].todo = DOMAIN req[r].batch
      BY <2>2 DEF RequestOK
    <3>2. PICK k \in Keys : DOMAIN req[r].batch = {k} BY <2>2 DEF RequestOK
    <3>3. k \in req[r].todo \cap DOMAIN req[r].batch /\ req'[r].todo = req[r].todo \ {k}
      BY <2>4, <3>1, <3>2
    <3>4. \A x \in Plain : row'[x] = IF x # k THEN row[x] ELSE NoRow
      BY <2>4, <3>2, KeysAre
    <3> QED BY <2>2, <2>4, <3>1, <3>3, <3>4, StoreStep
  <2> QED BY <2>1, <2>3, <2>4, EraseRowOK
<1>7. CASE \E r \in Requests : Swap(r) \/ Revert(r)
  <2>1. PICK r \in Requests : Swap(r) \/ Revert(r) BY <1>7
  <2>2. /\ Moves(r) /\ row' = row /\ req[r].pc \in {"swap", "revert"} /\ RequestOK(req[r])
    BY <2>1, SwapOK, RevertOK DEF ConfigTypes
  <2>3. CASE active' = active /\ req'[r].pc \in {"idle", "check", "notify"}
    <3>1. Register!Abandon(r) BY <2>2, <2>3, AbandonStep
    <3> QED BY <3>1 DEF RegisterMoves
  <2>4. CASE /\ AfterSwap(r) /\ torn' = torn
             /\ ~(active' = active /\ req'[r].pc \in {"idle", "check", "notify"})
    <3>1. req'[r].pc \notin Carrying BY <2>2, <2>4, AfterSwapMoves
    <3>2. \/ \A k \in Plain : active'[k] = BatchOf(req[r]).target[k]
          \/ \A k \in Plain : active'[k] = IF k \in DOMAIN req[r].batch
                                           THEN req[r].batch[k] ELSE active[k]
      <4>1. CASE Revert(r)
        <5>1. req[r].pc = "revert" BY <4>1, RevertOK
        <5>2. \A k \in DOMAIN req[r].batch : req[r].batch[k] = Baseline(k)
          BY <2>2, <5>1 DEF RequestOK
        <5>3. \/ torn' = TRUE /\ active' = active /\ req'[r] = IdleReq
              \/ \A k \in Plain : active'[k] = IF k \in DOMAIN req[r].batch
                                               THEN Baseline(k) ELSE active[k]
          BY <4>1, RevertOK
        <5>4. req'[r] # IdleReq BY <2>2, <2>4, AfterSwapMoves DEF IdleReq
        <5> QED BY <5>2, <5>3, <5>4
      <4>2. CASE Swap(r)
        <5>1. req[r].pc = "swap" BY <4>2, SwapOK
        <5>2. \A k \in Plain : BatchOf(req[r]).target[k] = req[r].snap[k]
          BY <2>2, <5>1 DEF RequestOK, BatchOf
        <5>3. \/ active' = req[r].snap
              \/ \A k \in Plain : active'[k] = IF k \in DOMAIN req[r].batch
                                               THEN req[r].batch[k] ELSE active[k]
          BY <2>4, <4>2, SwapOK
        <5> QED BY <5>2, <5>3
      <4> QED BY <2>1, <4>1, <4>2
    <3>3. Register!Activate(r) BY <2>2, <3>1, <3>2, ActivateStep
    <3> QED BY <3>3 DEF RegisterMoves
  <2>5. \/ AfterSwap(r) /\ torn' = torn
        \/ active' = active /\ req'[r].pc \in {"idle", "check", "notify"}
    <3>1. CASE Swap(r) BY <3>1, SwapOK
    <3>2. CASE Revert(r)
      <4>1. IdleReq.pc = "idle" BY DEF IdleReq
      <4> QED BY <3>2, <4>1, RevertOK
    <3> QED BY <2>1, <3>1, <3>2
  <2> QED BY <2>3, <2>4, <2>5
<1>8. CASE Export \/ GetConfig \/ ExpireModels \/ UNCHANGED configVars
  <2>1. UNCHANGED <<row, active, req>>
    BY <1>8 DEF Export, GetConfig, ExpireModels, UnchangedConfig, UnchangedRest,
                UnchangedCounts, configVars
  <2>2. Pending' = Pending BY <2>1 DEF Pending, PendingOf
  <2> QED BY <2>1, <2>2 DEF RegisterMoves, Stored, Running
<1>9. CASE ConfigRestart
  <2>1. row' = row /\ active' = Overlaid /\ req' = [r \in Requests |-> IdleReq]
    BY <1>9 DEF ConfigRestart
  <2>2. Stored' = Stored BY <2>1 DEF Stored
  <2>3. Running' = Register!Overlaid
    BY <2>1, OverlaidOK DEF Running, Register!Overlaid, Stored
  <2>4. Pending' = [r \in Requests |-> NoBatch]
    BY <2>1 DEF Pending, PendingOf, IdleReq
  <2>5. Register!Restart
    BY <2>2, <2>3, <2>4 DEF Register!Restart, Stored, Running, Pending
  <2> QED BY <2>5 DEF RegisterMoves
<1> QED BY <1>1, <1>2, <1>3, <1>4, <1>5, <1>6, <1>7, <1>8, <1>9, ConfigCases

(* Refinement: whatever requests overlap, fail half-way or are cut off by  *)
(* a restart, the configuration manager implements the register: nothing   *)
(* of a request runs before all of it is stored, and then all of it does.  *)
THEOREM ManagerImplementsRegister == ConfigSpec => RegisterImplemented
<1>1. ConfigTypes /\ ConfigTypes' /\ [ConfigNext]_configVars => [Register!Next]_(Register!vars)
  BY RegisterStep DEF RegisterMoves, Register!Next, Register!vars, Stored, Running, Pending
<1> QED BY <1>1, RegisterInit, ConfigurationTypes, PTL
        DEF ConfigSpec, RegisterImplemented, Register!Spec

-----------------------------------------------------------------------------
\* The whole.

(* Refinement: whatever the requests about agents do in between, the       *)
(* configuration moves as ConfigStore says.                                *)
THEOREM ControlImplementsConfig == ControlSpec => ConfigSpec
<1>1. ControlInit => ConfigInit
  BY DEF ControlInit
<1>2. [ControlNext]_vars => [ConfigNext]_configVars
  BY DEF ControlNext, Restart, ConfigNext, vars
<1> QED BY <1>1, <1>2, PTL DEF ControlSpec, ConfigSpec

(* So in the whole, too, no mask comes into force, what runs is the table  *)
(* laid over the file once a request has ended, and a request comes into   *)
(* force in one step and only when all of it is stored.                    *)
THEOREM ControlKeepsConfig ==
  ControlSpec => []ConfigInv /\ []Settled /\ RegisterImplemented
  BY ControlImplementsConfig, NoMaskInForce, SettlesBetweenRequests,
     ManagerImplementsRegister, PTL

(* Refinement: whatever the configuration does in between, the requests    *)
(* about agents are those of AgentAccounts.                                *)
THEOREM ControlImplementsAccounts == ControlSpec => AccountsSpec
<1>1. ControlInit => AccountsInit
  BY DEF ControlInit
<1>2. [ControlNext]_vars => [AccountsNext]_accountVars
  <2> SUFFICES ASSUME [ControlNext]_vars PROVE [AccountsNext]_accountVars
    OBVIOUS
  <2>1. CASE AccountsStep(live[AutoProvision] = "true")
    <3>1. (live[AutoProvision] = "true") \in BOOLEAN OBVIOUS
    <3>2. \E auto \in BOOLEAN : AccountsStep(auto) BY <2>1, <3>1
    <3> QED BY <3>2 DEF AccountsNext
  <2>2. CASE UNCHANGED accountVars
    BY <2>2
  <2>3. CASE Restart
    BY <2>3 DEF Restart, AccountsNext
  <2>4. CASE UNCHANGED vars
    BY <2>4 DEF vars
  <2>5. ControlNext => \/ AccountsStep(live[AutoProvision] = "true") \/ UNCHANGED accountVars \/ Restart
    BY Zenon DEF ControlNext
  <2> QED BY <2>1, <2>2, <2>3, <2>4, <2>5
<1> QED BY <1>1, <1>2, PTL DEF ControlSpec, AccountsSpec

(* In the whole, too, a person's account is handed over only by an         *)
(* operator's request for it.                                              *)
THEOREM ControlOnlyHandedOver == ControlSpec => []HandedOver
  BY ControlImplementsAccounts, OnlyHandedOver, PTL

(* And the registry serves the agents of the table, name by name.          *)
THEOREM ControlServesTable == ControlSpec => []RegistryMatches
  BY ControlImplementsAccounts, RegistryServesTable, PTL
=============================================================================
