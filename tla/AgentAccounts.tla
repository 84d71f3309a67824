---------------------------- MODULE AgentAccounts ----------------------------
(***************************************************************************)
(* Agents and the Gitea accounts they act through: the agents table, the   *)
(* registry the dispatcher looks agents up in, the accounts on Gitea, and  *)
(* the management requests that change all three, one call at a time.      *)
(* Some accounts are people's.  A request may fail at any call to Gitea or *)
(* to the store, and the process may restart between two steps.            *)
(***************************************************************************)
EXTENDS Naturals, FiniteSets

CONSTANTS Users, Persons, Jobs, MaxIds, MaxTokens, MaxJobs, MaxErrors, MaxBoots,
          None, Own

\* A row of the agents table.
Row == [user : Users, token : Nat, managed : BOOLEAN, status : {"active", "inactive"}]

ASSUME PersonsAreUsers == Persons \subseteq Users
ASSUME OwnIsNoJob == Own \notin Jobs
ASSUME IdsAreNumbers == MaxIds \in Nat
ASSUME NoneIsNoValue == None \notin Users /\ None \notin Row

VARIABLES
  account,  \* by user name: the Gitea account, or None
  agents,   \* the agents table, by id
  served,   \* the registry by id: the row an agent is served from, or None
  byUser,   \* the registry by user name: an id, or None
  job,      \* the requests under way
  granted,  \* user names whose takeover an operator asked for
  raced,    \* user names two requests worked on at once since the start
  minted, created, \* tokens minted and rows inserted so far
  started, errors, boots

accountVars == <<account, agents, served, byUser, job, granted, raced,
                 minted, created, started, errors, boots>>

Ids == 1..MaxIds

IdleJob == [pc |-> "idle", op |-> "none", id |-> 0, user |-> None, token |-> 0,
            managed |-> FALSE, status |-> "active", takeOver |-> FALSE]

BusyJobs == {j \in Jobs : job[j].pc # "idle"}

Registered(u) == {i \in Ids : agents[i] # None /\ agents[i].user = u}

RowOf(j) == [user |-> job[j].user, token |-> job[j].token,
             managed |-> job[j].managed, status |-> job[j].status]

\* A token is good while it is the one the account carries.
Valid(u, token) == token # 0 /\ account[u] # None /\ account[u].token = token

UnchangedData == UNCHANGED <<account, agents, served, byUser, minted, created>>

\* A new request on user u, and whether another works on u already.
StartJob(j, u, fields) ==
  /\ job[j].pc = "idle" /\ started < MaxJobs
  /\ started' = started + 1
  /\ job' = [job EXCEPT ![j] = fields]
  /\ raced' = IF \E b \in BusyJobs : job[b].user = u THEN raced \cup {u} ELSE raced
  /\ UnchangedData /\ UNCHANGED <<errors, boots>>

Go(j, pc) == job' = [job EXCEPT ![j].pc = pc]
End(j) == job' = [job EXCEPT ![j] = IdleJob]

\* The call fails: an error of Gitea or of the store.
Broken == errors < MaxErrors /\ errors' = errors + 1

-----------------------------------------------------------------------------
(* POST /api/agents: with auto_provision the account is ensured first. *)
StartCreate(j, u, takeOver, auto) ==
  /\ StartJob(j, u, [IdleJob EXCEPT !.pc = IF auto THEN "lookup" ELSE "insert",
                       !.op = "create", !.user = u, !.takeOver = takeOver])
  /\ granted' = IF takeOver THEN granted \cup {u} ELSE granted

(* PUT /api/agents/{id}: the row is read, its status replaced. *)
StartUpdate(j, i, status, takeOver, auto) ==
  /\ agents[i] # None
  /\ StartJob(j, agents[i].user,
       [pc |-> IF auto THEN "lookup" ELSE "update", op |-> "update", id |-> i,
        user |-> agents[i].user, token |-> agents[i].token,
        managed |-> agents[i].managed, status |-> status, takeOver |-> takeOver])
  /\ granted' = IF takeOver THEN granted \cup {agents[i].user} ELSE granted

(* DELETE /api/agents/{id}: the Gitea user is always deleted too. *)
StartDelete(j, i) ==
  /\ agents[i] # None
  /\ StartJob(j, agents[i].user,
       [IdleJob EXCEPT !.pc = "deluser", !.op = "delete", !.id = i, !.user = agents[i].user])
  /\ UNCHANGED granted

-----------------------------------------------------------------------------
(* EnsureGiteaAccount. *)

Ensured(j, token) ==
  job' = [job EXCEPT ![j].pc = IF job[j].op = "create" THEN "insert" ELSE "update",
                     ![j].token = token, ![j].managed = TRUE]

\* Mutant: an agent of that name is enough.
Managed_AnyAgent(u) == Registered(u) # {}

\* The table says Matea manages the account.
Managed(u) == \E i \in Registered(u) : agents[i].managed

(* The account is looked up on Gitea: a missing one is created.            *)
Lookup(j) ==
  /\ job[j].pc = "lookup"
  /\ \/ account[job[j].user] = None /\ Go(j, "create") /\ UNCHANGED errors
     \/ account[job[j].user] # None /\ Go(j, "validate") /\ UNCHANGED errors
     \/ Broken /\ End(j)
  /\ UnchangedData /\ UNCHANGED <<granted, raced, started, boots>>

(* A good token is kept; one that Gitea does not answer for counts as bad. *)
Validate(j) ==
  /\ job[j].pc = "validate"
  /\ \/ /\ Valid(job[j].user, job[j].token)
        /\ Ensured(j, job[j].token)
        /\ UNCHANGED errors
     \/ ~Valid(job[j].user, job[j].token) /\ Go(j, "decide") /\ UNCHANGED errors
     \/ Broken /\ Go(j, "decide")
  /\ UnchangedData /\ UNCHANGED <<granted, raced, started, boots>>

(* A password is reset only where Matea manages the account or the         *)
(* operator asked for it; a table that cannot be read says nothing.        *)
Decide(j) ==
  /\ job[j].pc = "decide"
  /\ \/ (Managed(job[j].user) \/ job[j].takeOver) /\ Go(j, "reset") /\ UNCHANGED errors
     \/ ~Managed(job[j].user) /\ ~job[j].takeOver /\ End(j) /\ UNCHANGED errors
     \/ Broken /\ IF job[j].takeOver THEN Go(j, "reset") ELSE End(j)
  /\ UnchangedData /\ UNCHANGED <<granted, raced, started, boots>>

(* The account is created, with a password only this request knows. *)
CreateAccount(j) ==
  /\ job[j].pc = "create"
  /\ \/ /\ account[job[j].user] = None
        /\ account' = [account EXCEPT ![job[j].user] =
                         [owner |-> "matea", password |-> j, token |-> 0]]
        /\ Go(j, "mint")
        /\ UNCHANGED errors
     \/ account[job[j].user] # None /\ End(j) /\ UNCHANGED <<account, errors>>
     \/ Broken /\ End(j) /\ UNCHANGED account
  /\ UNCHANGED <<agents, served, byUser, minted, created, granted, raced, started, boots>>

ResetPassword(j) ==
  /\ job[j].pc = "reset"
  /\ \/ /\ account[job[j].user] # None
        /\ account' = [account EXCEPT ![job[j].user].password = j]
        /\ Go(j, "mint")
        /\ UNCHANGED errors
     \/ account[job[j].user] = None /\ End(j) /\ UNCHANGED <<account, errors>>
     \/ Broken /\ End(j) /\ UNCHANGED account
  /\ UNCHANGED <<agents, served, byUser, minted, created, granted, raced, started, boots>>

(* A token is minted with the request's own password: refused when another *)
(* request has reset it since.                                             *)
MintToken(j) ==
  /\ job[j].pc = "mint"
  /\ LET u == job[j].user
     IN \/ /\ account[u] # None /\ account[u].password = j /\ minted < MaxTokens
           /\ minted' = minted + 1
           /\ account' = [account EXCEPT ![u].token = minted + 1]
           /\ Ensured(j, minted + 1)
           /\ UNCHANGED errors
        \/ /\ ~(account[u] # None /\ account[u].password = j)
           /\ End(j)
           /\ UNCHANGED <<account, minted, errors>>
        \/ Broken /\ End(j) /\ UNCHANGED <<account, minted>>
  /\ UNCHANGED <<agents, served, byUser, created, granted, raced, started, boots>>

-----------------------------------------------------------------------------
(* The table and the registry. *)

\* The user name is unique in the table, and an id is never given twice.
InsertRow(j) ==
  /\ job[j].pc = "insert"
  /\ \/ /\ Registered(job[j].user) = {}
        /\ created < MaxIds
        /\ created' = created + 1
        /\ agents' = [agents EXCEPT ![created + 1] = RowOf(j)]
        /\ job' = [job EXCEPT ![j].pc = "refresh", ![j].id = created + 1]
        /\ UNCHANGED errors
     \/ Registered(job[j].user) # {} /\ End(j) /\ UNCHANGED <<agents, created, errors>>
     \/ Broken /\ End(j) /\ UNCHANGED <<agents, created>>
  /\ UNCHANGED <<account, served, byUser, minted, granted, raced, started, boots>>

\* Of a row deleted meanwhile the statement changes nothing, without an error.
UpdateRow(j) ==
  /\ job[j].pc = "update"
  /\ \/ /\ agents' = [agents EXCEPT ![job[j].id] = IF @ = None THEN None ELSE RowOf(j)]
        /\ Go(j, "refresh")
        /\ UNCHANGED errors
     \/ Broken /\ End(j) /\ UNCHANGED agents
  /\ UNCHANGED <<account, served, byUser, minted, created, granted, raced, started, boots>>

\* Mutant: an agent switched off stays in the registry.
Refresh_KeepsInactive(j) ==
  /\ job[j].pc = "refresh"
  /\ served' = [served EXCEPT ![job[j].id] = RowOf(j)]
  /\ byUser' = [byUser EXCEPT ![job[j].user] = job[j].id]
  /\ End(j)
  /\ UNCHANGED <<account, agents, minted, created, granted, raced, started, errors, boots>>

Refresh(j) ==
  /\ job[j].pc = "refresh"
  /\ served' = [served EXCEPT ![job[j].id] =
                  IF job[j].status = "active" THEN RowOf(j) ELSE None]
  /\ byUser' = [byUser EXCEPT ![job[j].user] =
                  IF job[j].status = "active" THEN job[j].id ELSE None]
  /\ End(j)
  /\ UNCHANGED <<account, agents, minted, created, granted, raced, started, errors, boots>>

\* An error of Gitea is logged, and the agent is deleted all the same.
DeleteUser(j) ==
  /\ job[j].pc = "deluser"
  /\ \/ account' = [account EXCEPT ![job[j].user] = None] /\ UNCHANGED errors
     \/ Broken /\ UNCHANGED account
  /\ Go(j, "delrow")
  /\ UNCHANGED <<agents, served, byUser, minted, created, granted, raced, started, boots>>

DeleteRow(j) ==
  /\ job[j].pc = "delrow"
  /\ \/ /\ agents' = [agents EXCEPT ![job[j].id] = None]
        /\ Go(j, "remove")
        /\ UNCHANGED errors
     \/ Broken /\ End(j) /\ UNCHANGED agents
  /\ UNCHANGED <<account, served, byUser, minted, created, granted, raced, started, boots>>

\* The name is dropped whichever agent it leads to by now.
Remove(j) ==
  /\ job[j].pc = "remove"
  /\ LET i == job[j].id
     IN IF served[i] = None THEN UNCHANGED <<served, byUser>>
        ELSE /\ byUser' = [byUser EXCEPT ![served[i].user] = None]
             /\ served' = [served EXCEPT ![i] = None]
  /\ End(j)
  /\ UNCHANGED <<account, agents, minted, created, granted, raced, started, errors, boots>>

-----------------------------------------------------------------------------
(* The owner of an account, or an administrator, revokes its token. *)
Revoke(u) ==
  /\ account[u] # None /\ account[u].token # 0
  /\ account' = [account EXCEPT ![u].token = 0]
  /\ UNCHANGED <<agents, served, byUser, job, granted, raced, minted, created, started, errors, boots>>

\* LoadFromDB serves the active agents.
AccountsRestart ==
  /\ boots < MaxBoots
  /\ boots' = boots + 1
  /\ job' = [j \in Jobs |-> IdleJob]
  /\ raced' = {}
  /\ served' = [i \in Ids |-> IF agents[i] # None /\ agents[i].status = "active"
                              THEN agents[i] ELSE None]
  /\ byUser' = [u \in Users |->
                  IF \E i \in Registered(u) : agents[i].status = "active"
                  THEN CHOOSE i \in Registered(u) : agents[i].status = "active" ELSE None]
  /\ UNCHANGED <<account, agents, granted, minted, created, started, errors>>

AccountsInit ==
  /\ account = [u \in Users |-> IF u \in Persons
                  THEN [owner |-> "person", password |-> Own, token |-> 0] ELSE None]
  /\ agents = [i \in Ids |-> None]
  /\ served = [i \in Ids |-> None]
  /\ byUser = [u \in Users |-> None]
  /\ job = [j \in Jobs |-> IdleJob]
  /\ granted = {} /\ raced = {}
  /\ minted = 0 /\ created = 0 /\ started = 0 /\ errors = 0 /\ boots = 0

\* A step of the accounts while gitea.auto_provision has the value auto.
AccountsStep(auto) ==
  \/ \E j \in Jobs :
       \/ \E u \in Users, takeOver \in BOOLEAN : StartCreate(j, u, takeOver, auto)
       \/ \E i \in Ids, status \in {"active", "inactive"}, takeOver \in BOOLEAN :
            StartUpdate(j, i, status, takeOver, auto)
       \/ \E i \in Ids : StartDelete(j, i)
       \/ Lookup(j) \/ Validate(j) \/ Decide(j)
       \/ CreateAccount(j) \/ ResetPassword(j) \/ MintToken(j)
       \/ InsertRow(j) \/ UpdateRow(j) \/ Refresh(j)
       \/ DeleteUser(j) \/ DeleteRow(j) \/ Remove(j)
  \/ \E u \in Users : Revoke(u)

AccountsNext == (\E auto \in BOOLEAN : AccountsStep(auto)) \/ AccountsRestart

AccountsSpec == AccountsInit /\ [][AccountsNext]_accountVars

-----------------------------------------------------------------------------
(* Properties. *)

(* The password of a person's account is reset only after an operator      *)
(* asked for the takeover of that account: neither a request without the   *)
(* flag, nor a row another request stored, nor a token that happens to be  *)
(* good, hands an account to Matea.                                        *)
HandedOver ==
  \A u \in Persons :
    (account[u] # None /\ account[u].owner = "person" /\ account[u].password # Own)
      => u \in granted

(* When no request works on a user name, and none ever raced another over  *)
(* it, the registry serves under that name exactly the active agent the    *)
(* table has for it, as the table has it; nothing deleted is served.       *)
RegistryMatches ==
  \A u \in Users \ raced :
    (\A j \in Jobs : job[j].user # u) =>
      /\ \A i \in Ids : served[i] # None /\ served[i].user = u => agents[i] = served[i]
      /\ \A i \in Registered(u) :
           /\ served[i] = IF agents[i].status = "active" THEN agents[i] ELSE None
           /\ byUser[u] = IF agents[i].status = "active" THEN i ELSE None
      /\ Registered(u) = {} => byUser[u] = None
=============================================================================
