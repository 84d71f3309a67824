----------------------------- MODULE ConfigStore -----------------------------
(***************************************************************************)
(* The configuration manager and the endpoints that change it: overrides   *)
(* in the system_config table over the file, one merged configuration in   *)
(* memory, the copy the components run with, the cache of model lists and  *)
(* the first-run wizard.  A request takes one step per access to shared    *)
(* state: the store has no transaction and the manager's lock is released  *)
(* between the check, the writes, the swap and the notification.           *)
(*                                                                         *)
(* A key stands for one entry; the value of llm.providers is the api key   *)
(* of the one provider it holds and that of agents.backends the password   *)
(* of the one hub, Empty when there is none.  A configuration whose        *)
(* backends came from the file holds Shared: copyConfig copies that map by *)
(* reference, so every such copy shows what the file's map holds now.  The *)
(* keys are those the code treats apart and one of each kind it does not:  *)
(* gitea.webhook_secret stands for gitea.admin_token too, gitea.url for    *)
(* every plain string, llm.providers comes with llm.defaults.provider; the *)
(* value of workflow.gates is its JSON text.                               *)
(***************************************************************************)
EXTENDS Naturals

CONSTANTS
  File,         \* the value of every key in config.yaml
  Payloads,     \* what an operator may send to PUT /api/config
  Answers,      \* what the setup wizard may be completed with
  Removable,    \* the keys an operator may send to DELETE /api/config
  Environment,  \* the environment variables set, by the key they fill
  Requests,     \* requests that may be under way at once
  MaxRequests, MaxFaults, MaxRestarts,
  NoRow, Shared, NoDoc, Keep, NoBatch

VARIABLES
  row,        \* the system_config table
  fileMap,    \* the map of hub backends the file's configuration holds
  active,     \* the merged configuration
  live,       \* the configuration the components were last given
  cache,      \* the provider the cached model list was read from
  token,      \* whether the setup token is armed
  doc,        \* the document exported last
  req,        \* the requests under way
  torn,       \* an error left the table and the memory apart
  overlapped, \* two requests were under way at once since the start
  asked, faults, restarts

configVars == <<row, fileMap, active, live, cache, token, doc, req, torn,
                overlapped, asked, faults, restarts>>

Backends      == "agents.backends"
MaxIter       == "agents.loop.max_iterations"
Stall         == "agents.loop.no_progress_limit"
Hook          == "deliver.webhook_url"
AutoProvision == "gitea.auto_provision"
Url           == "gitea.url"
Secret        == "gitea.webhook_secret"
Providers     == "llm.providers"
Gates         == "workflow.gates"
Preset        == "workflow.preset"

\* The keys in the order the manager sorts them.
KeyOrder == <<Backends, MaxIter, Stall, Hook, AutoProvision, Url, Secret, Providers, Gates,
              Preset>>
Keys == {KeyOrder[i] : i \in DOMAIN KeyOrder}
Rank(k) == CHOOSE i \in DOMAIN KeyOrder : KeyOrder[i] = k

\* The order in which the wizard absorbs environment variables.
EnvOrder == <<Url, Secret, Providers, Backends>>

Empty     == ""
Mask      == "********"
Generated == "generated"
Bad       == "bad"        \* a value of the wrong type
TooLarge  == "101"        \* above what the loop's settings allow

Sensitive == {Secret}
Typed     == {Backends, MaxIter, Stall, AutoProvision, Providers, Gates}
Unread    == {Gates, Preset}   \* keys the manager cannot read of a configuration

Values == UNION ({{File[k] : k \in Keys}, {Mask, Generated, Empty, Bad}}
                 \cup {{p[k] : k \in DOMAIN p} : p \in Payloads \cup Answers \cup {Environment}})

\* The keys whose value does not depend on a map shared with others.
Plain == Keys \ {Backends}

\* The wizard asks for three of the keys, the catalogue of the environment
\* fills four.  Values stand for themselves, and the mask the interface shows
\* for a secret is nobody's secret.
ConfigAssumption ==
  /\ File \in [Keys -> Values] /\ File[Gates] # Empty
  /\ \A p \in Payloads : DOMAIN p \subseteq Keys
  /\ \A a \in Answers : DOMAIN a = {Url, Secret, Providers} /\ a[Providers] # Bad
  /\ DOMAIN Environment \subseteq {EnvOrder[i] : i \in DOMAIN EnvOrder}
  /\ Removable \subseteq Keys
  /\ \A k \in Sensitive \cup {Providers} :
       \A f \in {File, Environment} \cup Answers : k \in DOMAIN f => f[k] # Mask
  /\ {NoRow, Shared, Keep} \cap Values = {}
  /\ NoBatch \notin [entries : [Plain -> Values \cup {Keep}], target : [Plain -> Values],
                     written : SUBSET Plain, erases : BOOLEAN]
ASSUME ConfigAssumption

\* What the manager finds in the file when an override is deleted.
Baseline(k) == IF k \in Unread THEN Empty ELSE File[k]

Read(cfg, k) == IF cfg[k] = Shared THEN fileMap ELSE cfg[k]

-----------------------------------------------------------------------------
(* One entry. *)

\* The cross-check of the loop's settings runs for max_iterations, never for
\* no_progress_limit; no value is no JSON object of gates.
Accepts(cfg, k, v) ==
  /\ k \in Typed => v # Bad
  /\ k = MaxIter => cfg[Stall] # TooLarge
  /\ k = Gates => v # Empty

\* A masked password means the one in force; without one the mask stays.
RestoredPassword(cfg) == IF Read(cfg, Backends) = Empty THEN Mask ELSE Read(cfg, Backends)

\* The configuration with the named entries of a batch applied.
Apply(cfg, batch, names) ==
  [k \in Keys |-> IF k \notin names THEN cfg[k]
                  ELSE IF k = Backends /\ batch[k] = Mask THEN RestoredPassword(cfg)
                  ELSE batch[k]]

\* Each entry is checked against the configuration with those of the keys
\* before its own applied; one that is refused refuses the batch.
Merged(cfg, batch) ==
  LET before(k) == {x \in DOMAIN batch : Rank(x) < Rank(k)}
  IN  [ok  |-> \A k \in DOMAIN batch : Accepts(Apply(cfg, batch, before(k)), k, batch[k]),
       cfg |-> Apply(cfg, batch, DOMAIN batch)]

\* Mutant: the providers' keys are not restored from the configuration.
ResolveMasked_ProvidersAsSent(cfg, entries) ==
  [k \in {x \in DOMAIN entries : ~(x \in Sensitive /\ entries[x] = Mask)} |->
     IF k = Backends /\ entries[k] = Mask THEN RestoredPassword(cfg) ELSE entries[k]]

\* What a request's masked values stand for.
ResolveMasked(cfg, entries) ==
  [k \in {x \in DOMAIN entries : ~(x \in Sensitive /\ entries[x] = Mask)} |->
     CASE k = Providers /\ entries[k] = Mask -> Read(cfg, k)
       [] k = Backends /\ entries[k] = Mask -> RestoredPassword(cfg)
       [] OTHER -> entries[k]]

NeedsSecret(cfg, names) ==
  Url \in names /\ Secret \notin names /\ cfg[Secret] = Empty

EnsureWebhookSecret(cfg, entries) ==
  IF NeedsSecret(cfg, DOMAIN entries)
  THEN [k \in DOMAIN entries \cup {Secret} |-> IF k = Secret THEN Generated ELSE entries[k]]
  ELSE entries

SetupRequired(cfg) == \E k \in {Url, Providers} : cfg[k] = Empty

\* The table laid over the file.  The rows of the loop's settings count even
\* when their check fails, and a masked password is the file's.
Overlaid ==
  [k \in Keys |->
     CASE row[k] = NoRow -> IF k = Backends THEN Shared ELSE File[k]
       [] row[k] # NoRow /\ k = Backends /\ row[k] = Mask ->
            IF File[k] = Empty THEN Mask ELSE File[k]
       [] OTHER -> row[k]]

-----------------------------------------------------------------------------
(* A request: pc, the entries it still has to apply, the ones it is        *)
(* applying, the ones not stored yet, the configuration it read or merged, *)
(* and the keys it has applied.                                            *)

NoEntries == [k \in {} |-> Empty]
Entry(k, v) == [x \in {k} |-> v]
IdleReq == [pc |-> "idle", op |-> "none", want |-> NoEntries, batch |-> NoEntries,
            todo |-> {}, snap |-> File, done |-> {}]

Busy == {r \in Requests : req[r].pc # "idle"}
\* A request with some of its fields given anew.
Amended(request, fields) ==
  [f \in DOMAIN request |-> IF f \in DOMAIN fields THEN fields[f] ELSE request[f]]

Become(r, fields) == req' = [req EXCEPT ![r] = Amended(@, fields)]

\* A new request, counted, and whether it overlaps another.
Submit(r, fields) ==
  /\ req[r].pc = "idle" /\ asked < MaxRequests
  /\ Become(r, fields)
  /\ asked' = asked + 1
  /\ overlapped' = (overlapped \/ Busy # {})

UnchangedConfig == UNCHANGED <<row, fileMap, active>>
UnchangedRest == UNCHANGED <<live, cache, token, doc>>
UnchangedCounts == UNCHANGED <<asked, overlapped, faults, restarts>>

Finish(r) == req' = [req EXCEPT ![r] = IdleReq]

Without(f, k) == [x \in DOMAIN f \ {k} |-> f[x]]

\* The end of a request that failed where it stands; the wizard stops, the
\* absorption of the environment goes on with the next variable.
Fail(r, want) ==
  CASE req[r].op = "env" ->
         Become(r, [pc |-> "check", batch |-> NoEntries, want |-> want])
    [] req[r].op = "envsecret" -> Become(r, [pc |-> "notify", batch |-> NoEntries])
    [] OTHER -> Finish(r)

(* PUT /api/config: the masked entries are resolved, a missing secret is   *)
(* generated, both from the configuration in force, which the code reads   *)
(* anew for each of them.                                                  *)
PutConfig(r) ==
  \E p \in Payloads :
    LET resolved == ResolveMasked(active, p)
    IN /\ Submit(r, IF DOMAIN resolved = {} THEN [pc |-> "display"]
                    ELSE [pc |-> "check", op |-> "put",
                          batch |-> EnsureWebhookSecret(active, resolved)])
       /\ UnchangedConfig /\ UnchangedRest /\ UNCHANGED <<torn, faults, restarts>>

(* POST /api/config/import of the document exported last. *)
Import(r) ==
  /\ doc # NoDoc
  /\ LET resolved == ResolveMasked(active, doc)
     IN Submit(r, [pc |-> "check", op |-> "import",
                   batch |-> EnsureWebhookSecret(active, resolved)])
  /\ UnchangedConfig /\ UnchangedRest /\ UNCHANGED <<torn, faults, restarts>>

\* The configuration in force as one document, its secrets masked or not.
Exported(masked) ==
  [k \in Keys |-> IF masked /\ k \in Sensitive \cup {Hook, Providers, Backends}
                     /\ Read(active, k) # Empty
                  THEN Mask ELSE Read(active, k)]

(* GET /api/config/export. *)
Export ==
  /\ asked < MaxRequests
  /\ asked' = asked + 1
  /\ \E masked \in BOOLEAN : doc' = Exported(masked)
  /\ UnchangedConfig
  /\ UNCHANGED <<live, cache, token, req, torn, overlapped, faults, restarts>>

\* The wizard is open: the setup is incomplete and the token armed.
SetupOpen == SetupRequired(active) /\ token = "armed"

(* POST /api/setup/complete applies the answers one entry at a time. *)
CompleteSetup(r) ==
  /\ SetupOpen
  /\ \E a \in Answers :
       LET secret == IF a[Secret] # Empty THEN a[Secret]
                     ELSE IF active[Secret] # Empty THEN active[Secret] ELSE Generated
       IN Submit(r, [pc |-> "check", op |-> "wizard", want |-> [a EXCEPT ![Secret] = secret]])
  /\ UnchangedConfig /\ UnchangedRest /\ UNCHANGED <<torn, faults, restarts>>

(* POST /api/setup/apply-env: the chosen variables, in catalogue order. *)
ApplyEnv(r) ==
  /\ SetupOpen
  /\ \E names \in (SUBSET DOMAIN Environment) \ {{}} :
       Submit(r, [pc |-> "check", op |-> "env",
                  want |-> [k \in names |-> Environment[k]]])
  /\ UnchangedConfig /\ UnchangedRest /\ UNCHANGED <<torn, faults, restarts>>

(* DELETE /api/config/{key}. *)
DeleteEntry(r) ==
  \E k \in Removable :
    /\ Submit(r, [pc |-> "erase", op |-> "delete", batch |-> Entry(k, Baseline(k)), todo |-> {k},
                 snap |-> active])
    /\ UnchangedConfig /\ UnchangedRest /\ UNCHANGED <<torn, faults, restarts>>

-----------------------------------------------------------------------------
(* The steps of an update. *)

\* The entry an Update of the wizard takes next: any of the rest, or the
\* first of the catalogue.
NextOf(r) ==
  LET rest == DOMAIN req[r].want
  IN  IF req[r].op = "wizard" THEN rest
      ELSE LET first == CHOOSE i \in DOMAIN EnvOrder :
                          /\ EnvOrder[i] \in rest
                          /\ \A j \in 1..(i-1) : EnvOrder[j] \notin rest
           IN  IF rest = {} THEN {} ELSE {EnvOrder[first]}

\* The password of the hub is kept, its address replaced.
EntryOf(r, k) ==
  IF req[r].op = "env" /\ k = Backends THEN Read(active, k) ELSE req[r].want[k]

(* The batch is checked against a copy of the active configuration. *)
CheckBatch(r, batch, want) ==
  LET merged == Merged(active, batch)
  IN IF merged.ok
     THEN Become(r, [pc |-> "store", batch |-> batch, want |-> want,
                     todo |-> DOMAIN batch, snap |-> merged.cfg])
     ELSE Fail(r, want)

Check(r) ==
  /\ req[r].pc = "check"
  /\ \/ /\ req[r].op \in {"put", "import", "envsecret"}
        /\ CheckBatch(r, req[r].batch, NoEntries)
     \/ /\ req[r].op \in {"wizard", "env"}
        /\ \E k \in NextOf(r) :
             CheckBatch(r, Entry(k, EntryOf(r, k)), Without(req[r].want, k))
  /\ UnchangedConfig /\ UnchangedRest /\ UnchangedCounts /\ UNCHANGED torn

(* Everything asked for is applied: the wizard reports, and the absorption *)
(* of the environment first makes up for a missing secret.                 *)
Applied(r) ==
  /\ req[r].pc = "check" /\ req[r].op \in {"wizard", "env"} /\ DOMAIN req[r].want = {}
  /\ \/ /\ req[r].op = "env" /\ NeedsSecret(active, req[r].done \cap {Url})
        /\ Become(r, [op |-> "envsecret", batch |-> Entry(Secret, Generated)])
     \/ /\ ~(req[r].op = "env" /\ NeedsSecret(active, req[r].done \cap {Url}))
        /\ IF req[r].done = {} THEN Finish(r) ELSE Become(r, [pc |-> "notify"])
  /\ UnchangedConfig /\ UnchangedRest /\ UnchangedCounts /\ UNCHANGED torn

First(keys) == CHOOSE k \in keys : \A x \in keys : Rank(k) <= Rank(x)

\* Mutant: an error of the store is logged and the batch put into force.
StoreRow_ErrorIgnored(r) ==
  /\ req[r].pc = "store"
  /\ LET k == First(req[r].todo)
     IN \/ row' = [row EXCEPT ![k] = req[r].batch[k]] /\ UNCHANGED faults
        \/ faults < MaxFaults /\ faults' = faults + 1 /\ UNCHANGED row
  /\ LET k == First(req[r].todo)
     IN Become(r, [todo |-> req[r].todo \ {k},
                   pc |-> IF req[r].todo = {k} THEN "swap" ELSE "store"])
  /\ UNCHANGED <<fileMap, active, torn, asked, overlapped, restarts>> /\ UnchangedRest

(* One row is written; an error ends the request with the rows before it   *)
(* written and none of them in force.                                      *)
StoreRow(r) ==
  /\ req[r].pc = "store"
  /\ LET k == First(req[r].todo)
     IN \/ /\ row' = [row EXCEPT ![k] = req[r].batch[k]]
           /\ Become(r, [todo |-> req[r].todo \ {k},
                         pc |-> IF req[r].todo = {k} THEN "swap" ELSE "store"])
           /\ UNCHANGED <<torn, faults>>
        \/ /\ faults < MaxFaults
           /\ faults' = faults + 1
           /\ torn' = TRUE
           /\ Fail(r, req[r].want)
           /\ UNCHANGED row
  /\ UNCHANGED <<fileMap, active, asked, overlapped, restarts>> /\ UnchangedRest

\* After the swap: the model cache is dropped, more entries, or the end.
AfterSwap(r) ==
  LET done == req[r].done \cup DOMAIN req[r].batch
  IN Become(r, [done |-> done,
                pc |-> IF Providers \in DOMAIN req[r].batch THEN "invalidate"
                       ELSE IF req[r].op \in {"wizard", "env"} THEN "check" ELSE "notify"])

(* UpdateBatch puts the configuration it checked into force; Update applies *)
(* its entry to the one in force now.                                       *)
Swap(r) ==
  /\ req[r].pc = "swap"
  /\ \/ /\ req[r].op \in {"put", "import"}
        /\ active' = req[r].snap
        /\ AfterSwap(r)
        /\ UNCHANGED torn
     \/ /\ req[r].op \notin {"put", "import"}
        /\ LET merged == Merged(active, req[r].batch)
           IN IF merged.ok
              THEN /\ active' = merged.cfg
                   /\ AfterSwap(r)
                   /\ UNCHANGED torn
              ELSE /\ torn' = TRUE
                   /\ Fail(r, req[r].want)
                   /\ UNCHANGED active
  /\ UNCHANGED <<row, fileMap>> /\ UnchangedRest /\ UnchangedCounts

\* Mutant: the cached list of models survives a change of the providers.
Invalidate_Kept(r) ==
  /\ req[r].pc = "invalidate"
  /\ Become(r, [pc |-> IF req[r].op \in {"wizard", "env"} THEN "check" ELSE "notify"])
  /\ UnchangedConfig /\ UnchangedRest /\ UNCHANGED torn /\ UnchangedCounts

Invalidate(r) ==
  /\ req[r].pc = "invalidate"
  /\ cache' = Empty
  /\ Become(r, [pc |-> IF req[r].op \in {"wizard", "env"} THEN "check" ELSE "notify"])
  /\ UnchangedConfig /\ UNCHANGED <<live, token, doc, torn>> /\ UnchangedCounts

(* Delete drops the row and then goes back to what it reads of the file,   *)
(* which must pass the check of its key: it reads nothing of the gates,    *)
(* which is refused, and nothing of the preset, which comes into force.    *)
(* Reading the hubs of the file masks them.                                *)
EraseRow(r) ==
  /\ req[r].pc = "erase"
  /\ \/ /\ row' = [k \in Keys |-> IF k \in req[r].todo THEN NoRow ELSE row[k]]
        /\ Become(r, [pc |-> "revert", todo |-> {}])
        /\ UNCHANGED faults
     \/ /\ faults < MaxFaults
        /\ faults' = faults + 1
        /\ Finish(r)
        /\ UNCHANGED row
  /\ UNCHANGED <<fileMap, active, torn, asked, overlapped, restarts>> /\ UnchangedRest

Masked(password) == IF password = Empty THEN Empty ELSE Mask

Revert(r) ==
  /\ req[r].pc = "revert"
  /\ LET k   == CHOOSE x \in DOMAIN req[r].batch : TRUE
         map == IF k = Backends THEN Masked(fileMap) ELSE fileMap
         cur == IF active[Backends] = Shared THEN map ELSE active[Backends]
         val == IF k # Backends THEN Baseline(k)
                ELSE IF map = Mask /\ cur # Empty THEN cur ELSE map
     IN /\ fileMap' = map
        /\ IF Accepts(active, k, val)
           THEN /\ active' = [active EXCEPT ![k] = val]
                /\ AfterSwap(r)
                /\ UNCHANGED torn
           ELSE /\ torn' = TRUE
                /\ Finish(r)
                /\ UNCHANGED active
  /\ UNCHANGED row /\ UnchangedRest /\ UnchangedCounts

(* The components are given a copy of what is in force: it is taken and    *)
(* handed over in two steps.                                               *)
Notify(r) ==
  /\ req[r].pc = "notify"
  /\ Become(r, [pc |-> "reload", snap |-> active])
  /\ UnchangedConfig /\ UnchangedRest /\ UnchangedCounts /\ UNCHANGED torn

Reload(r) ==
  /\ req[r].pc = "reload"
  /\ live' = req[r].snap
  /\ token' = IF req[r].op = "wizard" THEN "off" ELSE token
  /\ IF req[r].op \in {"put", "delete"} THEN Become(r, [IdleReq EXCEPT !.pc = "display"])
     ELSE Finish(r)
  /\ UnchangedConfig /\ UNCHANGED <<cache, doc, torn>> /\ UnchangedCounts

\* Building the answer marshals the file's hubs unless the table has its own,
\* and marshalling masks the passwords of the map it is given.
DisplayMasks == IF row[Backends] \in {NoRow, Empty} THEN Masked(fileMap) ELSE fileMap

Display(r) ==
  /\ req[r].pc = "display"
  /\ fileMap' = DisplayMasks
  /\ Finish(r)
  /\ UNCHANGED <<row, active, torn>> /\ UnchangedRest /\ UnchangedCounts

(* GET /api/config. *)
GetConfig ==
  /\ fileMap' = DisplayMasks
  /\ UNCHANGED <<row, active, req, torn>> /\ UnchangedRest /\ UnchangedCounts

-----------------------------------------------------------------------------
(* The list of models of the provider: read, discovered and cached. *)
ListModels(r) ==
  /\ active[Providers] # Empty /\ cache = Empty
  /\ Submit(r, [pc |-> "discover", op |-> "models", snap |-> active])
  /\ UnchangedConfig /\ UnchangedRest /\ UNCHANGED <<torn, faults, restarts>>

CacheModels(r) ==
  /\ req[r].pc = "discover"
  /\ cache' = req[r].snap[Providers]
  /\ Finish(r)
  /\ UnchangedConfig /\ UNCHANGED <<live, token, doc, torn>> /\ UnchangedCounts

ExpireModels ==
  /\ cache # Empty
  /\ cache' = Empty
  /\ UnchangedConfig /\ UNCHANGED <<live, token, doc, req, torn>> /\ UnchangedCounts

(* The process dies and starts again. *)
ConfigRestart ==
  /\ restarts < MaxRestarts
  /\ restarts' = restarts + 1
  /\ fileMap' = File[Backends]
  /\ active' = Overlaid /\ live' = Overlaid
  /\ token' = IF SetupRequired(Overlaid) THEN "armed" ELSE "off"
  /\ cache' = Empty
  /\ req' = [r \in Requests |-> IdleReq]
  /\ torn' = FALSE /\ overlapped' = FALSE
  /\ UNCHANGED <<row, doc, asked, faults>>

-----------------------------------------------------------------------------
ConfigInit ==
  /\ row = [k \in Keys |-> NoRow]
  /\ fileMap = File[Backends]
  /\ active = [File EXCEPT ![Backends] = Shared]
  /\ live = [File EXCEPT ![Backends] = Shared]
  /\ cache = Empty
  /\ token = IF SetupRequired(File) THEN "armed" ELSE "off"
  /\ doc = NoDoc
  /\ req = [r \in Requests |-> IdleReq]
  /\ torn = FALSE /\ overlapped = FALSE
  /\ asked = 0 /\ faults = 0 /\ restarts = 0

ConfigStep ==
  \/ \E r \in Requests :
       \/ PutConfig(r) \/ Import(r) \/ CompleteSetup(r) \/ ApplyEnv(r) \/ DeleteEntry(r)
       \/ Check(r) \/ Applied(r) \/ StoreRow(r) \/ Swap(r) \/ Invalidate(r)
       \/ EraseRow(r) \/ Revert(r) \/ Notify(r) \/ Reload(r) \/ Display(r)
       \/ ListModels(r) \/ CacheModels(r)
  \/ Export \/ GetConfig \/ ExpireModels

ConfigNext == ConfigStep \/ ConfigRestart

ConfigSpec == ConfigInit /\ [][ConfigNext]_configVars

-----------------------------------------------------------------------------
(* Properties. *)

Settings == [Keys -> Values \cup {Shared}]

(* Types, and: no masked form ever reaches the table or the configuration  *)
(* in force for the two Gitea credentials and the providers' keys, the     *)
(* entries the endpoints resolve against what is configured.               *)
ConfigInv ==
  /\ row \in [Keys -> Values \cup {NoRow}]
  /\ active \in Settings /\ live \in Settings
  /\ fileMap \in Values /\ cache \in Values
  /\ token \in {"armed", "off"}
  /\ doc = NoDoc \/ doc \in [Keys -> Values]
  /\ \A k \in Sensitive \cup {Providers} :
       row[k] # Mask /\ active[k] # Mask /\ live[k] # Mask

\* The preset after its override was deleted: none is in force, whatever the
\* file says.
Dropped(k) == k = Preset /\ row[k] = NoRow /\ active[k] = Empty

(* Between requests that neither failed half-way nor overlapped, the       *)
(* program runs with exactly the table laid over the file, so that a       *)
(* restart would change nothing, the components have that configuration,   *)
(* and the cached list of models is the one of the provider in force.  The *)
(* one value a restart changes is that of a preset whose override was      *)
(* deleted: the code puts no preset into force, not the file's.            *)
Settled ==
  (Busy = {} /\ ~torn /\ ~overlapped) =>
    /\ \A k \in Plain : active[k] = Overlaid[k] \/ Dropped(k)
    /\ live = active
    /\ cache \in {Empty, active[Providers]}

\* The request as the register sees it, on the plain keys.
PendingOf(r) ==
  IF req[r].pc \in {"store", "swap", "erase", "revert"}
  THEN [entries |-> [k \in Plain |-> IF k \in DOMAIN req[r].batch THEN req[r].batch[k]
                                     ELSE Keep],
        target  |-> [k \in Plain |-> IF k \in DOMAIN req[r].batch THEN req[r].batch[k]
                                     ELSE req[r].snap[k]],
        written |-> Plain \cap (DOMAIN req[r].batch \ req[r].todo),
        erases  |-> req[r].op = "delete"]
  ELSE NoBatch

Register == INSTANCE ConfigRegister WITH
  Keys <- Plain, File <- [k \in Plain |-> File[k]], Idle <- NoBatch,
  stored <- [k \in Plain |-> row[k]], running <- [k \in Plain |-> active[k]],
  pending <- [r \in Requests |-> PendingOf(r)]

(* Whatever requests overlap, fail or are cut off by a restart, the        *)
(* configuration manager implements the register: no entry is in force     *)
(* before every entry of its request is stored, all of them come into      *)
(* force at once, and nothing else changes what runs.                      *)
RegisterImplemented == Register!Spec

(* A secret is a value somebody configured, never the mask the interface   *)
(* shows in its place.                                                     *)
SecretsNotClobbered ==
  \A k \in Sensitive \cup {Providers, Backends, Hook} :
    Read(active, k) # Mask /\ Read(live, k) # Mask
=============================================================================
