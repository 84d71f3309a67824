------------------------- MODULE AgentAccountsProofs -------------------------
(***************************************************************************)
(* HandedOver for any users, people, requests and bounds: types, and how a *)
(* request, a row or a token can come to stand for a person's account.     *)
(***************************************************************************)
EXTENDS AgentAccounts, TLAPS

Account == [owner : {"matea", "person"}, password : Jobs \cup {Own}, token : Nat]

Steps == {"idle", "lookup", "validate", "decide", "create", "reset", "mint", "insert", "update", "refresh",
          "deluser", "delrow", "remove"}

Job == [pc : Steps, op : {"none", "create", "update", "delete"}, id : Nat, user : Users \cup {None},
        token : Nat, managed : BOOLEAN,
        status : {"active", "inactive"}, takeOver : BOOLEAN]

AccountsTypes ==
  /\ account \in [Users -> Account \cup {None}]
  /\ agents \in [Ids -> Row \cup {None}]
  /\ job \in [Jobs -> Job]
  /\ \A j \in Jobs : job[j].pc # "idle" => job[j].user \in Users
  /\ minted \in Nat /\ created \in Nat
  /\ granted \subseteq Users

\* The account under that name is still the one its owner registered.
Theirs(u) == account[u] # None /\ account[u].owner = "person"

\* A person's account whose takeover nobody asked for is untouched: it has its
\* own password and no token, no row says that Matea manages it, and no request
\* on it was told to take it over, has been given it or is about to reset it.
Untouched(u) ==
  /\ account[u].password = Own /\ account[u].token = 0
  /\ \A i \in Ids : agents[i] # None /\ agents[i].user = u => ~agents[i].managed
  /\ \A j \in Jobs : job[j].user = u => /\ ~job[j].managed /\ ~job[j].takeOver
                                        /\ job[j].pc # "reset"

HandInv ==
  /\ AccountsTypes
  /\ \A u \in Persons : Theirs(u) /\ u \notin granted => Untouched(u)

-----------------------------------------------------------------------------
(* Types are preserved. *)
LEMMA TypesInit == AccountsInit => AccountsTypes
  BY PersonsAreUsers DEF AccountsInit, AccountsTypes, Account, Job, IdleJob, Steps

LEMMA TypesNext == AccountsTypes /\ [AccountsNext]_accountVars => AccountsTypes'
<1> SUFFICES ASSUME AccountsTypes, [AccountsNext]_accountVars PROVE AccountsTypes'
  OBVIOUS
<1> USE DEF AccountsTypes, Steps
<1>id. IdleJob \in Job BY DEF IdleJob, Job
<1>row. ASSUME NEW j \in Jobs, job[j].pc # "idle" PROVE RowOf(j) \in Row
  BY <1>row DEF RowOf, Row, Job
<1>end. ASSUME NEW j \in Jobs, End(j)
        PROVE  job' \in [Jobs -> Job] /\ \A k \in Jobs : job'[k].pc # "idle" => job'[k].user \in Users
  BY <1>end, <1>id DEF End, IdleJob
<1>go. ASSUME NEW j \in Jobs, NEW p \in Steps, Go(j, p), job[j].pc # "idle"
       PROVE  job' \in [Jobs -> Job] /\ \A k \in Jobs : job'[k].pc # "idle" => job'[k].user \in Users
  BY <1>go DEF Go, Job
<1>ens. ASSUME NEW j \in Jobs, NEW n \in Nat, Ensured(j, n), job[j].pc # "idle"
        PROVE  job' \in [Jobs -> Job] /\ \A k \in Jobs : job'[k].pc # "idle" => job'[k].user \in Users
  <2> DEFINE p == IF job[j].op = "create" THEN "insert" ELSE "update"
             r == [job[j] EXCEPT !.pc = p, !.token = n, !.managed = TRUE]
  <2>1. job' = [job EXCEPT ![j] = r] BY <1>ens DEF Ensured
  <2>2. p \in Steps OBVIOUS
  <2>3. job[j] \in Job OBVIOUS
  <2>4. r \in Job /\ r.user = job[j].user BY <2>2, <2>3 DEF Job
  <2>5. job[j].user \in Users BY <1>ens
  <2> QED BY <2>1, <2>4, <2>5
<1>1. ASSUME NEW auto \in BOOLEAN, AccountsStep(auto) PROVE AccountsTypes'
  <2>1. ASSUME NEW j \in Jobs, NEW u \in Users, NEW takeOver \in BOOLEAN,
               StartCreate(j, u, takeOver, auto) PROVE AccountsTypes'
    BY <2>1 DEF StartCreate, StartJob, UnchangedData, IdleJob, Job
  <2>2. ASSUME NEW j \in Jobs, NEW i \in Ids, NEW status \in {"active", "inactive"},
               NEW takeOver \in BOOLEAN, StartUpdate(j, i, status, takeOver, auto)
        PROVE AccountsTypes'
    <3>1. agents[i] \in Row BY <2>2 DEF StartUpdate
    <3>2. i \in Nat BY IdsAreNumbers DEF Ids
    <3>3. agents[i].user \in Users /\ agents[i].token \in Nat /\ agents[i].managed \in BOOLEAN
      BY <3>1 DEF Row
    <3> QED BY <2>2, <3>2, <3>3 DEF StartUpdate, StartJob, UnchangedData, Job
  <2>3. ASSUME NEW j \in Jobs, NEW i \in Ids, StartDelete(j, i) PROVE AccountsTypes'
    <3>1. agents[i] \in Row BY <2>3 DEF StartDelete
    <3>2. i \in Nat BY IdsAreNumbers DEF Ids
    <3>3. agents[i].user \in Users BY <3>1 DEF Row
    <3> QED BY <2>3, <3>2, <3>3 DEF StartDelete, StartJob, UnchangedData, IdleJob, Job
  <2>4. ASSUME NEW j \in Jobs, Lookup(j) \/ Validate(j) \/ Decide(j) PROVE AccountsTypes'
    <3>1. job[j].token \in Nat BY DEF Job
    <3>2. CASE Lookup(j) BY <3>2, <1>go, <1>end DEF Lookup, UnchangedData
    <3>3. CASE Validate(j) BY <3>1, <3>3, <1>go, <1>ens DEF Validate, UnchangedData
    <3>4. CASE Decide(j) BY <3>4, <1>go, <1>end DEF Decide, UnchangedData
    <3> QED BY <2>4, <3>2, <3>3, <3>4
  <2>5. ASSUME NEW j \in Jobs, CreateAccount(j) PROVE AccountsTypes'
    <3>1. account' \in [Users -> Account \cup {None}]
      BY <2>5 DEF CreateAccount, Account
    <3> QED BY <2>5, <3>1, <1>go, <1>end DEF CreateAccount
  <2>6. ASSUME NEW j \in Jobs, ResetPassword(j) PROVE AccountsTypes'
    <3>1. account' \in [Users -> Account \cup {None}]
      <4> DEFINE u == job[j].user
      <4>1. u \in Users BY <2>6 DEF ResetPassword
      <4>2. CASE account[u] # None /\ account' = [account EXCEPT ![u].password = j]
        BY <4>1, <4>2 DEF Account
      <4> QED BY <2>6, <4>2 DEF ResetPassword
    <3> QED BY <2>6, <3>1, <1>go, <1>end DEF ResetPassword
  <2>7. ASSUME NEW j \in Jobs, MintToken(j) PROVE AccountsTypes'
    <3> DEFINE u == job[j].user
    <3>1. u \in Users BY <2>7 DEF MintToken
    <3>2. account' \in [Users -> Account \cup {None}] /\ minted' \in Nat
      <4>1. CASE account[u] # None /\ account' = [account EXCEPT ![u].token = minted + 1]
                 /\ minted' = minted + 1
        BY <3>1, <4>1 DEF Account
      <4> QED BY <2>7, <4>1 DEF MintToken
    <3>3. minted + 1 \in Nat OBVIOUS
    <3> QED BY <2>7, <3>2, <3>3, <1>end, <1>ens DEF MintToken
  <2>8. ASSUME NEW j \in Jobs, InsertRow(j) PROVE AccountsTypes'
    <3> DEFINE r == [job[j] EXCEPT !.pc = "refresh", !.id = created + 1]
    <3>1. CASE created' = created + 1
               /\ agents' = [agents EXCEPT ![created + 1] = RowOf(j)]
               /\ job' = [job EXCEPT ![j].pc = "refresh", ![j].id = created + 1]
      <4>1. job' = [job EXCEPT ![j] = r] BY <3>1
      <4>2. job[j] \in Job /\ job[j].user \in Users BY <2>8 DEF InsertRow
      <4>3. r \in Job /\ r.user = job[j].user
        <5>1. created + 1 \in Nat OBVIOUS
        <5> QED BY <4>2, <5>1 DEF Job
      <4>4. RowOf(j) \in Row BY <2>8, <1>row DEF InsertRow
      <4>5. created + 1 \in Nat OBVIOUS
      <4>6. agents' \in [Ids -> Row \cup {None}]
        BY <3>1, <4>4
      <4>7. job' \in [Jobs -> Job] /\ \A k \in Jobs : job'[k].pc # "idle" => job'[k].user \in Users
        BY <4>1, <4>2, <4>3
      <4> QED BY <2>8, <3>1, <4>5, <4>6, <4>7 DEF InsertRow
    <3> QED BY <2>8, <3>1, <1>end DEF InsertRow
  <2>9. ASSUME NEW j \in Jobs, UpdateRow(j) PROVE AccountsTypes'
    BY <2>9, <1>row, <1>go, <1>end DEF UpdateRow
  <2>10. ASSUME NEW j \in Jobs, Refresh(j) PROVE AccountsTypes'
    BY <2>10, <1>end DEF Refresh
  <2>11. ASSUME NEW j \in Jobs, DeleteUser(j) PROVE AccountsTypes'
    BY <2>11, <1>go DEF DeleteUser
  <2>12. ASSUME NEW j \in Jobs, DeleteRow(j) PROVE AccountsTypes'
    BY <2>12, <1>go, <1>end DEF DeleteRow
  <2>13. ASSUME NEW j \in Jobs, Remove(j) PROVE AccountsTypes'
    BY <2>13, <1>end DEF Remove
  <2>14. ASSUME NEW u \in Users, Revoke(u) PROVE AccountsTypes'
    BY <2>14 DEF Revoke, Account
  <2> QED BY <1>1, <2>1, <2>2, <2>3, <2>4, <2>5, <2>6, <2>7, <2>8, <2>9, <2>10,
             <2>11, <2>12, <2>13, <2>14 DEF AccountsStep
<1>2. CASE AccountsRestart
  BY <1>2, <1>id DEF AccountsRestart, IdleJob
<1>3. CASE UNCHANGED accountVars
  BY <1>3 DEF accountVars
<1> QED BY <1>1, <1>2, <1>3 DEF AccountsNext

-----------------------------------------------------------------------------
(* HandInv holds at the start, and no step gives a person's account away. *)
LEMMA HandInit == AccountsInit => HandInv
<1> SUFFICES ASSUME AccountsInit PROVE HandInv
  OBVIOUS
<1>1. AccountsTypes BY TypesInit
<1>2. ASSUME NEW u \in Persons PROVE Untouched(u)
  BY <1>2, PersonsAreUsers DEF AccountsInit, Untouched, IdleJob
<1> QED BY <1>1, <1>2 DEF HandInv

\* A step that leaves the account of u, the rows and the requests on it as
\* they were, or only drops some of them, leaves it untouched.
LEMMA Kept ==
  ASSUME NEW u \in Persons, Untouched(u), account'[u] = account[u],
         \A i \in Ids : agents'[i] # None /\ agents'[i].user = u => ~agents'[i].managed,
         \A j \in Jobs : job'[j].user = u =>
                          ~job'[j].managed /\ ~job'[j].takeOver /\ job'[j].pc # "reset"
  PROVE  Untouched(u)'
  BY DEF Untouched

LEMMA HandNext == HandInv /\ [AccountsNext]_accountVars => HandInv'
<1> SUFFICES ASSUME HandInv, [AccountsNext]_accountVars PROVE HandInv'
  OBVIOUS
<1>t. AccountsTypes /\ AccountsTypes' BY TypesNext DEF HandInv
<1> SUFFICES ASSUME NEW u \in Persons, Theirs(u)', u \notin granted' PROVE Untouched(u)'
  BY <1>t DEF HandInv
<1>u. u \in Users BY PersonsAreUsers
<1>g. ASSUME Theirs(u), u \notin granted PROVE Untouched(u)
  BY <1>g DEF HandInv
<1>kr. ASSUME Untouched(u), UNCHANGED <<account, agents>>,
              \A j \in Jobs : job'[j].user = u =>
                ~job'[j].managed /\ ~job'[j].takeOver /\ job'[j].pc # "reset"
       PROVE  Untouched(u)'
  BY <1>kr, Kept DEF Untouched
<1>end. ASSUME NEW j \in Jobs, End(j), Untouched(u)
        PROVE  \A k \in Jobs : job'[k].user = u =>
                 ~job'[k].managed /\ ~job'[k].takeOver /\ job'[k].pc # "reset"
  BY <1>t, <1>end DEF End, IdleJob, Untouched, AccountsTypes
<1>go. ASSUME NEW j \in Jobs, NEW p \in Steps, Go(j, p), Untouched(u),
              p # "reset" \/ job[j].user # u
       PROVE  \A k \in Jobs : job'[k].user = u =>
                ~job'[k].managed /\ ~job'[k].takeOver /\ job'[k].pc # "reset"
  BY <1>t, <1>go DEF Go, Untouched, AccountsTypes, Job
<1>ens. ASSUME NEW j \in Jobs, NEW n \in Nat, Ensured(j, n), Untouched(u), job[j].user # u
        PROVE  \A k \in Jobs : job'[k].user = u =>
                 ~job'[k].managed /\ ~job'[k].takeOver /\ job'[k].pc # "reset"
  BY <1>t, <1>ens DEF Ensured, Untouched, AccountsTypes, Job
<1>1. ASSUME NEW auto \in BOOLEAN, AccountsStep(auto) PROVE Untouched(u)'
  <2>1. ASSUME NEW j \in Jobs, NEW v \in Users, NEW takeOver \in BOOLEAN,
               StartCreate(j, v, takeOver, auto) PROVE Untouched(u)'
    <3>1. u \notin granted /\ Theirs(u)
      BY <2>1 DEF StartCreate, StartJob, UnchangedData, Theirs
    <3>2. Untouched(u) BY <3>1, <1>g
    <3>3. v = u => ~takeOver BY <2>1 DEF StartCreate
    <3>4. \A k \in Jobs : job'[k].user = u =>
            ~job'[k].managed /\ ~job'[k].takeOver /\ job'[k].pc # "reset"
      BY <1>t, <2>1, <3>2, <3>3 DEF StartCreate, StartJob, IdleJob, Untouched, AccountsTypes
    <3> QED BY <1>kr, <2>1, <3>2, <3>4 DEF StartCreate, StartJob, UnchangedData
  <2>2. ASSUME NEW j \in Jobs, NEW i \in Ids, NEW status \in {"active", "inactive"},
               NEW takeOver \in BOOLEAN, StartUpdate(j, i, status, takeOver, auto)
        PROVE Untouched(u)'
    <3>1. u \notin granted /\ Theirs(u)
      BY <2>2 DEF StartUpdate, StartJob, UnchangedData, Theirs
    <3>2. Untouched(u) BY <3>1, <1>g
    <3>3. agents[i].user = u => ~takeOver /\ ~agents[i].managed
      BY <2>2, <3>2 DEF StartUpdate, Untouched
    <3>4. \A k \in Jobs : job'[k].user = u =>
            ~job'[k].managed /\ ~job'[k].takeOver /\ job'[k].pc # "reset"
      BY <1>t, <2>2, <3>2, <3>3 DEF StartUpdate, StartJob, Untouched, AccountsTypes
    <3> QED BY <1>kr, <2>2, <3>2, <3>4 DEF StartUpdate, StartJob, UnchangedData
  <2>3. ASSUME NEW j \in Jobs, NEW i \in Ids, StartDelete(j, i) PROVE Untouched(u)'
    <3>1. u \notin granted /\ Theirs(u)
      BY <2>3 DEF StartDelete, StartJob, UnchangedData, Theirs
    <3>2. Untouched(u) BY <3>1, <1>g
    <3>4. \A k \in Jobs : job'[k].user = u =>
            ~job'[k].managed /\ ~job'[k].takeOver /\ job'[k].pc # "reset"
      BY <1>t, <2>3, <3>2 DEF StartDelete, StartJob, IdleJob, Untouched, AccountsTypes
    <3> QED BY <1>kr, <2>3, <3>2, <3>4 DEF StartDelete, StartJob, UnchangedData
  \* The account is only looked at; a reset needs a managed row or the flag.
  <2>4. ASSUME NEW j \in Jobs, Lookup(j) \/ Validate(j) \/ Decide(j) PROVE Untouched(u)'
    <3>1. Untouched(u)
      BY <2>4, <1>g DEF Lookup, Validate, Decide, UnchangedData, Theirs
    <3>2. job[j].user = u => ~Managed(u) /\ ~job[j].takeOver /\ ~Valid(u, job[j].token)
      BY <3>1 DEF Untouched, Managed, Registered, Valid
    <3>3. \A k \in Jobs : job'[k].user = u =>
            ~job'[k].managed /\ ~job'[k].takeOver /\ job'[k].pc # "reset"
      <4>1. CASE \E p \in {"create", "validate", "decide"} : Go(j, p)
        BY <4>1, <3>1, <1>go DEF Steps
      <4>2. CASE Valid(job[j].user, job[j].token) /\ Ensured(j, job[j].token)
        <5>1. job[j].token \in Nat BY <1>t DEF AccountsTypes, Job
        <5> QED BY <4>2, <3>1, <3>2, <5>1, <1>ens
      <4>3. CASE (Managed(job[j].user) \/ job[j].takeOver) /\ Go(j, "reset")
        BY <4>3, <3>1, <3>2, <1>go DEF Steps
      <4>4. CASE End(j) BY <4>4, <3>1, <1>end
      <4>5. CASE Lookup(j) BY <4>1, <4>4, <4>5 DEF Lookup
      <4>6. CASE Validate(j) BY <4>1, <4>2, <4>6 DEF Validate
      <4>7. CASE Decide(j) BY <4>3, <4>4, <4>7 DEF Decide
      <4> QED BY <2>4, <4>5, <4>6, <4>7
    <3>4. UNCHANGED <<account, agents>> BY <2>4 DEF Lookup, Validate, Decide, UnchangedData
    <3> QED BY <1>kr, <3>1, <3>3, <3>4
  \* An account that is created belongs to Matea.
  <2>5. ASSUME NEW j \in Jobs, CreateAccount(j) PROVE Untouched(u)'
    <3> DEFINE v == job[j].user
    <3>0. v \in Users BY <1>t, <2>5 DEF CreateAccount, AccountsTypes
    <3>1. CASE account' = [account EXCEPT ![v] = [owner |-> "matea", password |-> j, token |-> 0]]
               /\ Go(j, "mint")
      <4>1. v # u BY <1>t, <1>u, <3>0, <3>1 DEF Theirs, AccountsTypes
      <4>2. account'[u] = account[u] BY <1>t, <3>1, <4>1 DEF AccountsTypes
      <4>3. Untouched(u) BY <2>5, <4>2, <1>g DEF CreateAccount, Theirs
      <4>4. \A k \in Jobs : job'[k].user = u =>
              ~job'[k].managed /\ ~job'[k].takeOver /\ job'[k].pc # "reset"
        BY <3>1, <4>3, <1>go DEF Steps
      <4> QED BY <2>5, <4>2, <4>3, <4>4, Kept DEF CreateAccount, Untouched
    <3>2. CASE UNCHANGED account /\ End(j)
      <4>1. Untouched(u) BY <2>5, <3>2, <1>g DEF CreateAccount, Theirs
      <4> QED BY <2>5, <3>2, <4>1, <1>end, <1>kr DEF CreateAccount
    <3> QED BY <2>5, <3>1, <3>2 DEF CreateAccount
  \* Nobody resets an untouched account.
  <2>6. ASSUME NEW j \in Jobs, ResetPassword(j) PROVE Untouched(u)'
    <3> DEFINE v == job[j].user
    <3>0. v \in Users BY <1>t, <2>6 DEF ResetPassword, AccountsTypes
    <3>1. CASE account[v] # None /\ account' = [account EXCEPT ![v].password = j]
               /\ Go(j, "mint")
      <4>1. account'[u] = account[u] \/ (v = u /\ account[u] \in Account
              /\ account'[u] = [account[u] EXCEPT !.password = j])
        BY <1>t, <1>u, <3>0, <3>1 DEF AccountsTypes
      <4>2. Theirs(u) BY <3>1, <4>1 DEF Theirs, Account
      <4>3. Untouched(u) BY <2>6, <4>2, <1>g DEF ResetPassword
      <4>4. v # u BY <2>6, <4>3 DEF ResetPassword, Untouched
      <4>5. \A k \in Jobs : job'[k].user = u =>
              ~job'[k].managed /\ ~job'[k].takeOver /\ job'[k].pc # "reset"
        BY <3>1, <4>3, <1>go DEF Steps
      <4> QED BY <2>6, <4>1, <4>3, <4>4, <4>5, Kept DEF ResetPassword, Untouched
    <3>2. CASE UNCHANGED account /\ End(j)
      <4>1. Untouched(u) BY <2>6, <3>2, <1>g DEF ResetPassword, Theirs
      <4> QED BY <2>6, <3>2, <4>1, <1>end, <1>kr DEF ResetPassword
    <3> QED BY <2>6, <3>1, <3>2 DEF ResetPassword
  \* A token is minted with a password a request has set, never with the owner's.
  <2>7. ASSUME NEW j \in Jobs, MintToken(j) PROVE Untouched(u)'
    <3> DEFINE v == job[j].user
    <3>0. v \in Users BY <1>t, <2>7 DEF MintToken, AccountsTypes
    <3>1. CASE account[v] # None /\ account[v].password = j
               /\ account' = [account EXCEPT ![v].token = minted + 1] /\ Ensured(j, minted + 1)
      <4>1. account'[u] = account[u] \/ (v = u /\ account[u] \in Account
              /\ account'[u] = [account[u] EXCEPT !.token = minted + 1])
        BY <1>t, <1>u, <3>0, <3>1 DEF AccountsTypes
      <4>2. Theirs(u) BY <3>1, <4>1 DEF Theirs, Account
      <4>3. Untouched(u) BY <2>7, <4>2, <1>g DEF MintToken
      <4>4. v # u BY <3>1, <4>3, OwnIsNoJob DEF Untouched
      <4>5. minted + 1 \in Nat BY <1>t DEF AccountsTypes
      <4>6. \A k \in Jobs : job'[k].user = u =>
              ~job'[k].managed /\ ~job'[k].takeOver /\ job'[k].pc # "reset"
        BY <3>1, <4>3, <4>4, <4>5, <1>ens
      <4> QED BY <2>7, <4>1, <4>3, <4>4, <4>6, Kept DEF MintToken, Untouched
    <3>2. CASE UNCHANGED account /\ End(j)
      <4>1. Untouched(u) BY <2>7, <3>2, <1>g DEF MintToken, Theirs
      <4> QED BY <2>7, <3>2, <4>1, <1>end, <1>kr DEF MintToken
    <3> QED BY <2>7, <3>1, <3>2 DEF MintToken
  <2>8. ASSUME NEW j \in Jobs, InsertRow(j) PROVE Untouched(u)'
    <3>1. Untouched(u) BY <2>8, <1>g DEF InsertRow, Theirs
    <3>2. CASE /\ agents' = [agents EXCEPT ![created + 1] = RowOf(j)]
               /\ job' = [job EXCEPT ![j].pc = "refresh", ![j].id = created + 1]
      <4>1. \A i \in Ids : agents'[i] # None /\ agents'[i].user = u => ~agents'[i].managed
        <5>1. RowOf(j).user = u => ~RowOf(j).managed BY <3>1 DEF RowOf, Untouched
        <5> QED BY <1>t, <3>1, <3>2, <5>1 DEF Untouched, AccountsTypes
      <4>2. \A k \in Jobs : job'[k].user = u =>
              ~job'[k].managed /\ ~job'[k].takeOver /\ job'[k].pc # "reset"
        BY <1>t, <3>1, <3>2 DEF Untouched, AccountsTypes, Job
      <4> QED BY <2>8, <3>1, <4>1, <4>2, Kept DEF InsertRow
    <3>3. CASE UNCHANGED agents /\ End(j)
      BY <2>8, <3>1, <3>3, <1>end, <1>kr DEF InsertRow
    <3> QED BY <2>8, <3>2, <3>3 DEF InsertRow
  <2>9. ASSUME NEW j \in Jobs, UpdateRow(j) PROVE Untouched(u)'
    <3>1. Untouched(u) BY <2>9, <1>g DEF UpdateRow, Theirs
    <3>2. CASE /\ agents' = [agents EXCEPT ![job[j].id] = IF @ = None THEN None ELSE RowOf(j)]
               /\ Go(j, "refresh")
      <4>1. \A i \in Ids : agents'[i] # None /\ agents'[i].user = u => ~agents'[i].managed
        <5>1. RowOf(j).user = u => ~RowOf(j).managed BY <3>1 DEF RowOf, Untouched
        <5> QED BY <1>t, <3>1, <3>2, <5>1 DEF Untouched, AccountsTypes
      <4>2. \A k \in Jobs : job'[k].user = u =>
              ~job'[k].managed /\ ~job'[k].takeOver /\ job'[k].pc # "reset"
        BY <3>1, <3>2, <1>go DEF Steps
      <4> QED BY <2>9, <3>1, <4>1, <4>2, Kept DEF UpdateRow
    <3>3. CASE UNCHANGED agents /\ End(j)
      BY <2>9, <3>1, <3>3, <1>end, <1>kr DEF UpdateRow
    <3> QED BY <2>9, <3>2, <3>3 DEF UpdateRow
  <2>10. ASSUME NEW j \in Jobs, Refresh(j) PROVE Untouched(u)'
    <3>1. Untouched(u) BY <2>10, <1>g DEF Refresh, Theirs
    <3> QED BY <2>10, <3>1, <1>end, <1>kr DEF Refresh
  <2>11. ASSUME NEW j \in Jobs, DeleteUser(j) PROVE Untouched(u)'
    <3>1. account'[u] = account[u]
      BY <1>t, <1>u, <2>11 DEF DeleteUser, Theirs, AccountsTypes
    <3>2. Untouched(u) BY <2>11, <3>1, <1>g DEF DeleteUser, Theirs
    <3>3. \A k \in Jobs : job'[k].user = u =>
            ~job'[k].managed /\ ~job'[k].takeOver /\ job'[k].pc # "reset"
      BY <2>11, <3>2, <1>go DEF DeleteUser, Steps
    <3> QED BY <2>11, <3>1, <3>2, <3>3, Kept DEF DeleteUser, Untouched
  <2>12. ASSUME NEW j \in Jobs, DeleteRow(j) PROVE Untouched(u)'
    <3>1. Untouched(u) BY <2>12, <1>g DEF DeleteRow, Theirs
    <3>2. \A i \in Ids : agents'[i] # None /\ agents'[i].user = u => ~agents'[i].managed
      BY <1>t, <2>12, <3>1 DEF DeleteRow, Untouched, AccountsTypes
    <3>3. \A k \in Jobs : job'[k].user = u =>
            ~job'[k].managed /\ ~job'[k].takeOver /\ job'[k].pc # "reset"
      BY <2>12, <3>1, <1>go, <1>end DEF DeleteRow, Steps
    <3> QED BY <2>12, <3>1, <3>2, <3>3, Kept DEF DeleteRow
  <2>13. ASSUME NEW j \in Jobs, Remove(j) PROVE Untouched(u)'
    <3>1. Untouched(u) BY <2>13, <1>g DEF Remove, Theirs
    <3> QED BY <2>13, <3>1, <1>end, <1>kr DEF Remove
  <2>14. ASSUME NEW v \in Users, Revoke(v) PROVE Untouched(u)'
    <3>1. account'[u] = account[u] \/ (v = u /\ account[u] \in Account
            /\ account'[u] = [account[u] EXCEPT !.token = 0])
      BY <1>t, <1>u, <2>14 DEF Revoke, AccountsTypes
    <3>2. Theirs(u) BY <2>14, <3>1 DEF Theirs, Account, Revoke
    <3>3. Untouched(u) BY <2>14, <3>2, <1>g DEF Revoke
    <3>4. account'[u].password = Own /\ account'[u].token = 0
      BY <3>1, <3>3 DEF Untouched, Account
    <3> QED BY <2>14, <3>3, <3>4 DEF Revoke, Untouched
  <2> QED BY <1>1, <2>1, <2>2, <2>3, <2>4, <2>5, <2>6, <2>7, <2>8, <2>9, <2>10,
             <2>11, <2>12, <2>13, <2>14 DEF AccountsStep
<1>2. CASE AccountsRestart
  <2>1. Untouched(u) BY <1>2, <1>g DEF AccountsRestart, Theirs
  <2>2. \A k \in Jobs : job'[k].user = u =>
          ~job'[k].managed /\ ~job'[k].takeOver /\ job'[k].pc # "reset"
    BY <1>2 DEF AccountsRestart, IdleJob
  <2> QED BY <1>2, <2>1, <2>2, <1>kr DEF AccountsRestart
<1>3. CASE UNCHANGED accountVars
  <2>1. Untouched(u) BY <1>3, <1>g DEF accountVars, Theirs
  <2> QED BY <1>3, <2>1 DEF accountVars, Untouched
<1> QED BY <1>1, <1>2, <1>3 DEF AccountsNext

(* A person's account is handed over only by an operator's request for that *)
(* account, whatever requests race, fail or are cut off.                    *)
THEOREM OnlyHandedOver == AccountsSpec => []HandedOver
<1>1. HandInv => HandedOver BY DEF HandInv, HandedOver, Theirs, Untouched
<1> QED BY HandInit, HandNext, <1>1, PTL DEF AccountsSpec

-----------------------------------------------------------------------------
(***************************************************************************)
(* RegistryMatches for any users, requests and bounds.  What the registry  *)
(* serves under a name can only be known while the requests on that name   *)
(* come one after the other; the invariant says what the one request under *)
(* way has written and not yet shown, and that requests on other names     *)
(* touch other ids.                                                        *)
(***************************************************************************)

Shown == {"refresh", "remove"}

RegistryTypes ==
  /\ AccountsTypes
  /\ served \in [Ids -> Row \cup {None}]
  /\ byUser \in [Users -> Nat \cup {None}]
  /\ raced \subseteq Users

On(j, u) == job[j].pc # "idle" /\ job[j].user = u

\* Two requests on one name have raced.
OneEach == \A j, k \in Jobs, u \in Users : j # k /\ On(j, u) /\ On(k, u) => u \in raced

\* An id has one user name for good: in the table, the registry and the requests.
IdsNamed ==
  /\ \A i \in Ids : agents[i] # None /\ served[i] # None => agents[i].user = served[i].user
  /\ \A j \in Jobs : job[j].id \in Ids =>
       /\ agents[job[j].id] # None => agents[job[j].id].user = job[j].user
       /\ served[job[j].id] # None => served[job[j].id].user = job[j].user
       /\ \A k \in Jobs : job[k].id = job[j].id => job[k].user = job[j].user

\* An id that has not been given to a row yet is used nowhere.
IdsFresh ==
  /\ \A i \in Ids : agents[i] # None \/ served[i] # None => i <= created
  /\ \A j \in Jobs : job[j].id <= created

\* The user name is unique in the table.
NamesUnique ==
  \A i, k \in Ids : agents[i] # None /\ agents[k] # None /\ agents[i].user = agents[k].user => i = k

\* A request that changes or deletes a row has been given one.
OpsSound ==
  \A j \in Jobs : /\ job[j].pc \in {"update", "deluser", "delrow", "remove"} => job[j].op # "create"
                  /\ job[j].pc # "idle" /\ job[j].op # "create" => job[j].id \in Ids

\* The registry serves the name u as the table has it.
Matches(u) ==
  /\ \A i \in Ids : served[i] # None /\ served[i].user = u => agents[i] = served[i]
  /\ \A i \in Ids : agents[i] # None /\ agents[i].user = u =>
       /\ served[i] = IF agents[i].status = "active" THEN agents[i] ELSE None
       /\ byUser[u] = IF agents[i].status = "active" THEN i ELSE None
  /\ (\A i \in Ids : agents[i] # None => agents[i].user # u) => byUser[u] = None

\* Nothing but the row of request j is served under u.
OnlyServes(j, u) == \A i \in Ids \ {job[j].id} : served[i] # None => served[i].user # u

\* What request j on u knows: its row is there until it deletes it; what it has
\* written and not shown yet.
Knows(j, u) ==
  /\ job[j].op # "create" /\ job[j].pc \notin Shown => job[j].id \in Ids /\ agents[job[j].id] # None
  /\ job[j].pc = "refresh" => /\ job[j].id \in Ids /\ agents[job[j].id] = RowOf(j)
                              /\ OnlyServes(j, u)
  /\ job[j].pc = "remove" => /\ job[j].id \in Ids
                             /\ \A i \in Ids : agents[i] # None => agents[i].user # u
                             /\ OnlyServes(j, u)
                             /\ served[job[j].id] = None => byUser[u] = None

\* The name u between two steps.
Served(u) ==
  /\ (\A j \in Jobs : On(j, u) => job[j].pc \notin Shown) => Matches(u)
  /\ \A j \in Jobs : On(j, u) => Knows(j, u)

Naming == RegistryTypes /\ OneEach /\ IdsNamed /\ IdsFresh /\ NamesUnique /\ OpsSound

RegistryInv == Naming /\ \A u \in Users \ raced : Served(u)

-----------------------------------------------------------------------------
(* What the steps do to a request. *)

LEMMA GoFacts ==
  ASSUME RegistryTypes, NEW j \in Jobs, NEW p \in Steps, Go(j, p)
  PROVE  /\ \A k \in Jobs \ {j} : job'[k] = job[k]
         /\ job'[j].pc = p /\ job'[j].op = job[j].op /\ job'[j].id = job[j].id
         /\ job'[j].user = job[j].user /\ RowOf(j)' = RowOf(j)
<1>1. job \in [Jobs -> Job] BY DEF RegistryTypes, AccountsTypes
<1>2. job[j] \in Job BY <1>1
<1>3. job' = [job EXCEPT ![j] = [job[j] EXCEPT !.pc = p]] BY DEF Go
<1>4. job'[j] = [job[j] EXCEPT !.pc = p] BY <1>1, <1>3
<1>5. \A k \in Jobs \ {j} : job'[k] = job[k] BY <1>1, <1>3
<1> QED BY <1>2, <1>4, <1>5 DEF Job, RowOf

LEMMA EndFacts ==
  ASSUME RegistryTypes, NEW j \in Jobs, End(j)
  PROVE  /\ \A k \in Jobs \ {j} : job'[k] = job[k]
         /\ job'[j].pc = "idle" /\ job'[j].id = 0
  BY DEF RegistryTypes, AccountsTypes, End, IdleJob

LEMMA EnsuredFacts ==
  ASSUME RegistryTypes, NEW j \in Jobs, NEW n \in Nat, Ensured(j, n)
  PROVE  /\ \A k \in Jobs \ {j} : job'[k] = job[k]
         /\ job'[j].pc = IF job[j].op = "create" THEN "insert" ELSE "update"
         /\ job'[j].op = job[j].op /\ job'[j].id = job[j].id /\ job'[j].user = job[j].user
<1> DEFINE r == [job[j] EXCEPT !.pc = IF job[j].op = "create" THEN "insert" ELSE "update",
                               !.token = n, !.managed = TRUE]
<1>1. job \in [Jobs -> Job] BY DEF RegistryTypes, AccountsTypes
<1>2. job[j] \in Job BY <1>1
<1>3. job' = [job EXCEPT ![j] = r] BY DEF Ensured
<1>4. job'[j] = r BY <1>1, <1>3
<1>5. \A k \in Jobs \ {j} : job'[k] = job[k] BY <1>1, <1>3
<1> QED BY <1>2, <1>4, <1>5 DEF Job

LEMMA InsertFacts ==
  ASSUME RegistryTypes, NEW j \in Jobs,
         job' = [job EXCEPT ![j].pc = "refresh", ![j].id = created + 1]
  PROVE  /\ \A k \in Jobs \ {j} : job'[k] = job[k]
         /\ job'[j].pc = "refresh" /\ job'[j].op = job[j].op /\ job'[j].id = created + 1
         /\ job'[j].user = job[j].user /\ RowOf(j)' = RowOf(j)
<1> DEFINE r == [job[j] EXCEPT !.pc = "refresh", !.id = created + 1]
<1>1. job \in [Jobs -> Job] BY DEF RegistryTypes, AccountsTypes
<1>2. job[j] \in Job BY <1>1
<1>3. job' = [job EXCEPT ![j] = r] OBVIOUS
<1>4. job'[j] = r BY <1>1, <1>3
<1>5. \A k \in Jobs \ {j} : job'[k] = job[k] BY <1>1, <1>3
<1>6. created + 1 \in Nat BY DEF RegistryTypes, AccountsTypes
<1>7. /\ r.pc = "refresh" /\ r.op = job[j].op /\ r.id = created + 1 /\ r.user = job[j].user
      /\ r.token = job[j].token /\ r.managed = job[j].managed /\ r.status = job[j].status
  BY <1>2, <1>6 DEF Job
<1> QED BY <1>4, <1>5, <1>7 DEF RowOf

LEMMA RowFacts ==
  ASSUME RegistryTypes, NEW j \in Jobs, job[j].pc # "idle"
  PROVE  /\ job[j].user \in Users /\ RowOf(j) \in Row /\ RowOf(j) # None
         /\ RowOf(j).user = job[j].user /\ RowOf(j).status = job[j].status
<1>1. job[j] \in Job /\ job[j].user \in Users BY DEF RegistryTypes, AccountsTypes
<1>2. RowOf(j) \in Row BY <1>1 DEF Job, Row, RowOf
<1> QED BY <1>1, <1>2, NoneIsNoValue DEF RowOf

LEMMA IdFacts == Ids \subseteq Nat \ {0}
  BY IdsAreNumbers DEF Ids

(* A step that leaves the table, the registry, the number of rows and the  *)
(* requests but one alone, which ends or goes on with its row.             *)
LEMMA WalkNames ==
  ASSUME Naming, RegistryTypes', NEW j \in Jobs, job[j].pc # "idle",
         UNCHANGED <<agents, served, byUser, created, raced>>,
         \A k \in Jobs \ {j} : job'[k] = job[k],
         \/ job'[j].pc = "idle" /\ job'[j].id = 0
         \/ /\ job'[j].id = job[j].id /\ job'[j].user = job[j].user /\ job'[j].op = job[j].op
            /\ job'[j].pc \in {"update", "deluser", "delrow", "remove"} => job[j].op # "create"
  PROVE  Naming'
<1> USE DEF Naming
<1>1. OneEach' BY DEF OneEach, On
<1>2. IdsNamed'
  <2>1. \A k \in Jobs : job'[k].id \in Ids => job'[k].id = job[k].id /\ job'[k].user = job[k].user
    BY IdFacts
  <2> QED BY <2>1 DEF IdsNamed
<1>3. IdsFresh'
  <2>1. created \in Nat BY DEF RegistryTypes, AccountsTypes
  <2> QED BY <2>1 DEF IdsFresh
<1>4. NamesUnique' BY DEF NamesUnique
<1>5. OpsSound' BY DEF OpsSound
<1> QED BY <1>1, <1>2, <1>3, <1>4, <1>5

-----------------------------------------------------------------------------
LEMMA TypesOfRegistry ==
  RegistryTypes /\ [AccountsNext]_accountVars => RegistryTypes'
<1> SUFFICES ASSUME RegistryTypes, [AccountsNext]_accountVars PROVE RegistryTypes'
  OBVIOUS
<1>t. AccountsTypes' BY TypesNext DEF RegistryTypes
<1>1. ASSUME NEW auto \in BOOLEAN, AccountsStep(auto) PROVE RegistryTypes'
  <2>1. ASSUME NEW j \in Jobs, NEW u \in Users, NEW takeOver \in BOOLEAN,
               StartCreate(j, u, takeOver, auto) PROVE RegistryTypes'
    BY <1>t, <2>1 DEF StartCreate, StartJob, UnchangedData, RegistryTypes
  <2>2. ASSUME NEW j \in Jobs, NEW i \in Ids, NEW status \in {"active", "inactive"},
               NEW takeOver \in BOOLEAN, StartUpdate(j, i, status, takeOver, auto)
        PROVE RegistryTypes'
    <3>1. agents[i].user \in Users
      BY <2>2 DEF StartUpdate, RegistryTypes, AccountsTypes, Row
    <3> QED BY <1>t, <2>2, <3>1 DEF StartUpdate, StartJob, UnchangedData, RegistryTypes
  <2>3. ASSUME NEW j \in Jobs, NEW i \in Ids, StartDelete(j, i) PROVE RegistryTypes'
    <3>1. agents[i].user \in Users
      BY <2>3 DEF StartDelete, RegistryTypes, AccountsTypes, Row
    <3> QED BY <1>t, <2>3, <3>1 DEF StartDelete, StartJob, UnchangedData, RegistryTypes
  <2>4. ASSUME NEW j \in Jobs, Lookup(j) \/ Validate(j) \/ Decide(j) \/ CreateAccount(j)
                               \/ ResetPassword(j) \/ MintToken(j) \/ InsertRow(j)
                               \/ UpdateRow(j) \/ DeleteUser(j) \/ DeleteRow(j)
        PROVE RegistryTypes'
    BY <1>t, <2>4 DEF Lookup, Validate, Decide, CreateAccount, ResetPassword, MintToken,
                      InsertRow, UpdateRow, DeleteUser, DeleteRow, UnchangedData, RegistryTypes
  <2>5. ASSUME NEW j \in Jobs, Refresh(j) PROVE RegistryTypes'
    <3>1. RowOf(j) \in Row BY <2>5, RowFacts DEF Refresh
    <3>2. served' \in [Ids -> Row \cup {None}] BY <2>5, <3>1 DEF Refresh, RegistryTypes
    <3>3. byUser' \in [Users -> Nat \cup {None}]
      <4>1. job[j].id \in Nat BY DEF RegistryTypes, AccountsTypes, Job
      <4> QED BY <2>5, <4>1 DEF Refresh, RegistryTypes
    <3> QED BY <1>t, <2>5, <3>2, <3>3 DEF Refresh, RegistryTypes
  <2>6. ASSUME NEW j \in Jobs, Remove(j) PROVE RegistryTypes'
    BY <1>t, <2>6 DEF Remove, RegistryTypes
  <2>7. ASSUME NEW u \in Users, Revoke(u) PROVE RegistryTypes'
    BY <1>t, <2>7 DEF Revoke, RegistryTypes
  <2> QED BY <1>1, <2>1, <2>2, <2>3, <2>4, <2>5, <2>6, <2>7 DEF AccountsStep
<1>2. CASE AccountsRestart
  <2>1. served' \in [Ids -> Row \cup {None}] BY <1>2 DEF AccountsRestart, RegistryTypes, AccountsTypes
  <2>2. byUser' \in [Users -> Nat \cup {None}] BY <1>2, IdFacts DEF AccountsRestart, Registered
  <2> QED BY <1>t, <1>2, <2>1, <2>2 DEF AccountsRestart, RegistryTypes
<1>3. CASE UNCHANGED accountVars
  BY <1>t, <1>3 DEF accountVars, RegistryTypes
<1> QED BY <1>1, <1>2, <1>3 DEF AccountsNext

(* A request that starts has no id, or that of a row with its name. *)
LEMMA StartNames ==
  ASSUME Naming, RegistryTypes', NEW j \in Jobs, NEW u \in Users, NEW fields,
         StartJob(j, u, fields), fields.user = u,
         \/ fields.id = 0 /\ fields.op = "create"
         \/ fields.id \in Ids /\ agents[fields.id] # None /\ agents[fields.id].user = u,
         fields.pc \in {"update", "deluser", "delrow", "remove"} => fields.op # "create"
  PROVE  Naming'
<1> USE DEF Naming
<1>1. job'[j] = fields /\ \A k \in Jobs \ {j} : job'[k] = job[k]
  BY DEF StartJob, RegistryTypes, AccountsTypes
<1>2. UNCHANGED <<agents, served, created>> BY DEF StartJob, UnchangedData
<1>3. OneEach'
  <2>1. raced \subseteq raced' BY DEF StartJob
  <2>2. ASSUME NEW k \in Jobs \ {j}, On(k, u) PROVE u \in raced'
    BY <2>2 DEF StartJob, BusyJobs, On
  <2> SUFFICES ASSUME NEW k \in Jobs, NEW l \in Jobs, NEW v \in Users, k # l,
                      On(k, v)', On(l, v)'
               PROVE  v \in raced'
    BY DEF OneEach
  <2>3. CASE k # j /\ l # j BY <2>1, <2>3, <1>1 DEF OneEach, On
  <2>4. CASE k = j BY <2>2, <2>4, <1>1 DEF On
  <2>5. CASE l = j BY <2>2, <2>5, <1>1 DEF On
  <2> QED BY <2>3, <2>4, <2>5
<1>4. IdsNamed'
  <2>1. \A k \in Jobs \ {j} : job[k].id = fields.id /\ fields.id \in Ids => job[k].user = u
    <3>1. 0 \notin Ids BY IdFacts
    <3> QED BY <3>1 DEF IdsNamed
  <2>2. fields.id \in Ids => /\ agents[fields.id].user = u
                             /\ served[fields.id] # None => served[fields.id].user = u
    <3>1. 0 \notin Ids BY IdFacts
    <3>2. \A i \in Ids : agents[i] # None /\ served[i] # None => agents[i].user = served[i].user
      BY DEF IdsNamed
    <3> QED BY <3>1, <3>2
  <2>3. ASSUME NEW k \in Jobs, job'[k].id \in Ids
        PROVE  /\ agents'[job'[k].id] # None => agents'[job'[k].id].user = job'[k].user
               /\ served'[job'[k].id] # None => served'[job'[k].id].user = job'[k].user
               /\ \A l \in Jobs : job'[l].id = job'[k].id => job'[l].user = job'[k].user
    <3>1. CASE k = j BY <3>1, <2>1, <2>2, <2>3, <1>1, <1>2
    <3>2. CASE k # j BY <3>2, <2>1, <2>3, <1>1, <1>2 DEF IdsNamed
    <3> QED BY <3>1, <3>2
  <2> QED BY <2>3, <1>2 DEF IdsNamed
<1>5. IdsFresh'
  <2>1. created \in Nat BY DEF RegistryTypes, AccountsTypes
  <2>2. fields.id <= created BY <2>1 DEF IdsFresh
  <2> QED BY <2>2, <1>1, <1>2 DEF IdsFresh
<1>6. NamesUnique' BY <1>2 DEF NamesUnique
<1>7. OpsSound' BY <1>1 DEF OpsSound
<1> QED BY <1>3, <1>4, <1>5, <1>6, <1>7

LEMMA NamesNext == Naming /\ [AccountsNext]_accountVars => Naming'
<1> SUFFICES ASSUME Naming, [AccountsNext]_accountVars PROVE Naming'
  OBVIOUS
<1>t. RegistryTypes /\ RegistryTypes' BY TypesOfRegistry DEF Naming
<1>id. job \in [Jobs -> Job] /\ created \in Nat BY <1>t DEF RegistryTypes, AccountsTypes
<1>1. ASSUME NEW auto \in BOOLEAN, AccountsStep(auto) PROVE Naming'
  <2>1. ASSUME NEW j \in Jobs, NEW u \in Users, NEW takeOver \in BOOLEAN,
               StartCreate(j, u, takeOver, auto) PROVE Naming'
    <3> DEFINE f == [IdleJob EXCEPT !.pc = IF auto THEN "lookup" ELSE "insert",
                       !.op = "create", !.user = u, !.takeOver = takeOver]
    <3>1. StartJob(j, u, f) BY <2>1 DEF StartCreate
    <3>2. f.user = u /\ f.id = 0 /\ f.op = "create" /\ f.pc \in {"lookup", "insert"} BY DEF IdleJob
    <3> HIDE DEF f
    <3> QED BY <1>t, <3>1, <3>2, StartNames
  <2>2. ASSUME NEW j \in Jobs, NEW i \in Ids, NEW status \in {"active", "inactive"},
               NEW takeOver \in BOOLEAN, StartUpdate(j, i, status, takeOver, auto)
        PROVE Naming'
    <3> DEFINE f == [pc |-> IF auto THEN "lookup" ELSE "update", op |-> "update", id |-> i,
                     user |-> agents[i].user, token |-> agents[i].token,
                     managed |-> agents[i].managed, status |-> status, takeOver |-> takeOver]
    <3>1. StartJob(j, agents[i].user, f) /\ agents[i] # None BY <2>2 DEF StartUpdate
    <3>2. f.user = agents[i].user /\ f.id = i /\ f.op = "update" OBVIOUS
    <3>3. agents[i].user \in Users BY <1>t, <3>1 DEF RegistryTypes, AccountsTypes, Row
    <3> HIDE DEF f
    <3> QED BY <1>t, <3>1, <3>2, <3>3, StartNames
  <2>3. ASSUME NEW j \in Jobs, NEW i \in Ids, StartDelete(j, i) PROVE Naming'
    <3> DEFINE f == [IdleJob EXCEPT !.pc = "deluser", !.op = "delete", !.id = i,
                                    !.user = agents[i].user]
    <3>1. StartJob(j, agents[i].user, f) /\ agents[i] # None BY <2>3 DEF StartDelete
    <3>2. f.user = agents[i].user /\ f.id = i /\ f.op = "delete" BY DEF IdleJob
    <3>3. agents[i].user \in Users BY <1>t, <3>1 DEF RegistryTypes, AccountsTypes, Row
    <3> HIDE DEF f
    <3> QED BY <1>t, <3>1, <3>2, <3>3, StartNames
  <2>4. ASSUME NEW j \in Jobs, Lookup(j) \/ Validate(j) \/ Decide(j) \/ CreateAccount(j)
                               \/ ResetPassword(j) \/ MintToken(j)
        PROVE  Naming'
    <3>1. job[j].pc # "idle" /\ UNCHANGED <<agents, served, byUser, created, raced>>
      BY <2>4 DEF Lookup, Validate, Decide, CreateAccount, ResetPassword, MintToken, UnchangedData
    <3>2. CASE \E p \in {"validate", "decide", "create", "reset", "mint"} : Go(j, p)
      BY <1>t, <3>1, <3>2, GoFacts, WalkNames DEF Steps
    <3>3. CASE End(j) BY <1>t, <3>1, <3>3, EndFacts, WalkNames
    <3>4. CASE \E n \in Nat : Ensured(j, n)
      <4>1. PICK n \in Nat : Ensured(j, n) BY <3>4
      <4>2. job'[j].pc \in {"update", "deluser", "delrow"} => job[j].op # "create"
        BY <1>t, <4>1, EnsuredFacts
      <4> QED BY <1>t, <3>1, <4>1, <4>2, EnsuredFacts, WalkNames
    <3>5. job[j].token \in Nat /\ minted + 1 \in Nat
      BY <1>t, <1>id DEF RegistryTypes, AccountsTypes, Job
    <3> QED BY <2>4, <3>2, <3>3, <3>4, <3>5
            DEF Lookup, Validate, Decide, CreateAccount, ResetPassword, MintToken
  <2>5. ASSUME NEW j \in Jobs, InsertRow(j) PROVE Naming'
    <3>1. CASE End(j) /\ UNCHANGED <<agents, created>>
      BY <1>t, <2>5, <3>1, EndFacts, WalkNames DEF InsertRow
    <3>2. CASE /\ Registered(job[j].user) = {} /\ created < MaxIds
               /\ created' = created + 1
               /\ agents' = [agents EXCEPT ![created + 1] = RowOf(j)]
               /\ job' = [job EXCEPT ![j].pc = "refresh", ![j].id = created + 1]
      <4> DEFINE n == created + 1
      <4>1. n \in Ids /\ UNCHANGED <<served, raced>>
        BY <1>id, <2>5, <3>2, IdsAreNumbers DEF InsertRow, Ids
      <4>2. agents[n] = None /\ served[n] = None /\ \A k \in Jobs : job[k].id # n
        BY <1>id, <4>1 DEF Naming, IdsFresh, Job
      <4>3. agents'[n] = RowOf(j) /\ \A i \in Ids \ {n} : agents'[i] = agents[i]
        BY <1>t, <3>2, <4>1 DEF RegistryTypes, AccountsTypes
      <4>4. RowOf(j).user = job[j].user /\ job[j].user \in Users
        BY <1>t, <2>5, RowFacts DEF InsertRow
      <4>5. /\ \A k \in Jobs \ {j} : job'[k] = job[k]
            /\ job'[j].pc = "refresh" /\ job'[j].id = n
            /\ job'[j].user = job[j].user /\ job'[j].op = job[j].op
        BY <1>t, <3>2, InsertFacts
      <4>6. OneEach' BY <2>5, <4>1, <4>5 DEF Naming, OneEach, On, InsertRow
      <4>7. IdsNamed'
        <5>1. \A i \in Ids : agents'[i] # None /\ served'[i] # None => agents'[i].user = served'[i].user
          BY <4>1, <4>2, <4>3 DEF Naming, IdsNamed
        <5>2. ASSUME NEW k \in Jobs, job'[k].id \in Ids
              PROVE  /\ agents'[job'[k].id] # None => agents'[job'[k].id].user = job'[k].user
                     /\ served'[job'[k].id] # None => served'[job'[k].id].user = job'[k].user
                     /\ \A l \in Jobs : job'[l].id = job'[k].id => job'[l].user = job'[k].user
          <6>1. CASE k = j BY <6>1, <4>1, <4>2, <4>3, <4>4, <4>5
          <6>2. CASE k # j
            <7>1. job'[k] = job[k] /\ job[k].id # n /\ job[k].id \in Ids BY <6>2, <5>2, <4>2, <4>5
            <7>2. agents'[job[k].id] = agents[job[k].id] BY <7>1, <4>3
            <7> QED BY <7>1, <7>2, <4>1, <4>5 DEF Naming, IdsNamed
          <6> QED BY <6>1, <6>2
        <5> QED BY <5>1, <5>2 DEF IdsNamed
      <4>8. IdsFresh'
        BY <1>id, <3>2, <4>1, <4>3, <4>5, IdFacts DEF Naming, IdsFresh, Job
      <4>9. NamesUnique'
        <5>1. \A i \in Ids : agents[i] # None => agents[i].user # job[j].user
          BY <3>2 DEF Registered
        <5> QED BY <4>1, <4>3, <4>4, <5>1 DEF Naming, NamesUnique
      <4>10. OpsSound' BY <4>1, <4>5 DEF Naming, OpsSound
      <4> QED BY <1>t, <4>6, <4>7, <4>8, <4>9, <4>10 DEF Naming
    <3> QED BY <2>5, <3>1, <3>2 DEF InsertRow
  <2>6. ASSUME NEW j \in Jobs, UpdateRow(j) PROVE Naming'
    <3>1. CASE End(j) /\ UNCHANGED agents
      BY <1>t, <2>6, <3>1, EndFacts, WalkNames DEF UpdateRow
    <3>2. CASE /\ agents' = [agents EXCEPT ![job[j].id] = IF @ = None THEN None ELSE RowOf(j)]
               /\ Go(j, "refresh")
      <4>1. \A i \in Ids : \/ agents'[i] = agents[i]
                           \/ i = job[j].id /\ agents[i] # None /\ agents'[i] = RowOf(j)
        <5>1. agents \in [Ids -> Row \cup {None}] BY <1>t DEF RegistryTypes, AccountsTypes
        <5>2. ASSUME NEW i \in Ids, i # job[j].id PROVE agents'[i] = agents[i]
          BY <3>2, <5>1, <5>2
        <5>3. ASSUME job[j].id \in Ids
              PROVE  agents'[job[j].id] = IF agents[job[j].id] = None THEN None ELSE RowOf(j)
          BY <3>2, <5>1, <5>3
        <5> QED BY <5>2, <5>3
      <4>2. RowOf(j).user = job[j].user BY <1>t, <2>6, RowFacts DEF UpdateRow
      <4>3. \A i \in Ids : /\ agents'[i] # None => agents[i] # None
                           /\ agents'[i] # None => agents'[i].user = agents[i].user
        BY <4>1, <4>2 DEF Naming, IdsNamed
      <4>4. /\ \A k \in Jobs : job'[k].id = job[k].id /\ job'[k].user = job[k].user
            /\ \A k \in Jobs \ {j} : job'[k] = job[k]
            /\ job'[j].pc = "refresh" /\ job'[j].op = job[j].op
        BY <1>t, <3>2, GoFacts DEF Steps
      <4>5. UNCHANGED <<served, raced, created>> BY <2>6 DEF UpdateRow
      <4>6. OneEach' BY <2>6, <4>4, <4>5 DEF Naming, OneEach, On, UpdateRow
      <4>7. IdsNamed' BY <4>3, <4>4, <4>5 DEF Naming, IdsNamed
      <4>8. IdsFresh' BY <4>3, <4>4, <4>5 DEF Naming, IdsFresh
      <4>9. NamesUnique' BY <4>3 DEF Naming, NamesUnique
      <4>10. OpsSound' BY <2>6, <4>4 DEF Naming, OpsSound, UpdateRow
      <4> QED BY <1>t, <4>6, <4>7, <4>8, <4>9, <4>10 DEF Naming
    <3> QED BY <2>6, <3>1, <3>2 DEF UpdateRow
  \* The registry is given a row with the name of its id.
  <2>7. ASSUME NEW j \in Jobs, Refresh(j) PROVE Naming'
    <3>1. /\ \A k \in Jobs \ {j} : job'[k] = job[k]
          /\ job'[j].pc = "idle" /\ job'[j].id = 0
      BY <1>t, <2>7, EndFacts DEF Refresh
    <3>2. \A i \in Ids : \/ served'[i] = served[i] \/ served'[i] = None
                         \/ i = job[j].id /\ served'[i] = RowOf(j)
      <4>1. served \in [Ids -> Row \cup {None}] BY <1>t DEF RegistryTypes
      <4>2. ASSUME NEW i \in Ids, i # job[j].id PROVE served'[i] = served[i]
        BY <2>7, <4>1, <4>2 DEF Refresh
      <4>3. ASSUME job[j].id \in Ids PROVE served'[job[j].id] \in {None, RowOf(j)}
        BY <2>7, <4>1, <4>3 DEF Refresh
      <4> QED BY <4>2, <4>3
    <3>3. RowOf(j).user = job[j].user BY <1>t, <2>7, RowFacts DEF Refresh
    <3>4. UNCHANGED <<agents, raced, created>> BY <2>7 DEF Refresh
    <3>5. OneEach' BY <3>1, <3>4 DEF Naming, OneEach, On
    <3>6. IdsNamed'
      <4>1. \A i \in Ids : agents'[i] # None /\ served'[i] # None => agents'[i].user = served'[i].user
        BY <3>2, <3>3, <3>4 DEF Naming, IdsNamed
      <4>2. \A k \in Jobs : job'[k].id \in Ids => k # j /\ job'[k] = job[k]
        BY <3>1, IdFacts
      <4>3. \A k \in Jobs : job[k].id \in Ids /\ served'[job[k].id] # None
                             => served'[job[k].id].user = job[k].user
        BY <3>2, <3>3 DEF Naming, IdsNamed
      <4> QED BY <4>1, <4>2, <4>3, <3>4 DEF Naming, IdsNamed
    <3>7. IdsFresh'
      <4>1. \A i \in Ids : served'[i] # None => i <= created
        BY <3>2 DEF Naming, IdsFresh
      <4> QED BY <1>id, <3>1, <3>4, <4>1 DEF Naming, IdsFresh
    <3>8. NamesUnique' BY <3>4 DEF Naming, NamesUnique
    <3>9. OpsSound' BY <3>1 DEF Naming, OpsSound
    <3> QED BY <1>t, <3>5, <3>6, <3>7, <3>8, <3>9 DEF Naming
  <2>8. ASSUME NEW j \in Jobs, DeleteUser(j) PROVE Naming'
    <3>1. job[j].pc # "idle" /\ Go(j, "delrow") /\ job[j].op # "create"
          /\ UNCHANGED <<agents, served, byUser, created, raced>>
      BY <2>8 DEF DeleteUser, Naming, OpsSound
    <3> QED BY <1>t, <3>1, GoFacts, WalkNames DEF Steps
  <2>9. ASSUME NEW j \in Jobs, DeleteRow(j) PROVE Naming'
    <3>1. CASE End(j) /\ UNCHANGED agents
      BY <1>t, <2>9, <3>1, EndFacts, WalkNames DEF DeleteRow
    <3>2. CASE agents' = [agents EXCEPT ![job[j].id] = None] /\ Go(j, "remove")
      <4>1. \A i \in Ids : agents'[i] = None \/ agents'[i] = agents[i]
        BY <1>t, <3>2 DEF RegistryTypes, AccountsTypes
      <4>2. /\ \A k \in Jobs : job'[k].id = job[k].id /\ job'[k].user = job[k].user
            /\ \A k \in Jobs \ {j} : job'[k] = job[k]
            /\ job'[j].pc = "remove" /\ job'[j].op = job[j].op
        BY <1>t, <3>2, GoFacts DEF Steps
      <4>3. UNCHANGED <<served, raced, created>> BY <2>9 DEF DeleteRow
      <4>4. OneEach' BY <2>9, <4>2, <4>3 DEF Naming, OneEach, On, DeleteRow
      <4>5. IdsNamed' BY <4>1, <4>2, <4>3 DEF Naming, IdsNamed
      <4>6. IdsFresh' BY <4>1, <4>2, <4>3 DEF Naming, IdsFresh
      <4>7. NamesUnique' BY <4>1 DEF Naming, NamesUnique
      <4>8. OpsSound' BY <2>9, <4>2 DEF Naming, OpsSound, DeleteRow
      <4> QED BY <1>t, <4>4, <4>5, <4>6, <4>7, <4>8 DEF Naming
    <3> QED BY <2>9, <3>1, <3>2 DEF DeleteRow
  <2>10. ASSUME NEW j \in Jobs, Remove(j) PROVE Naming'
    <3>1. /\ \A k \in Jobs \ {j} : job'[k] = job[k]
          /\ job'[j].pc = "idle" /\ job'[j].id = 0
      BY <1>t, <2>10, EndFacts DEF Remove
    <3>2. \A i \in Ids : served'[i] = served[i] \/ served'[i] = None
      BY <1>t, <2>10 DEF Remove, RegistryTypes
    <3>3. UNCHANGED <<agents, raced, created>> BY <2>10 DEF Remove
    <3>4. OneEach' BY <3>1, <3>3 DEF Naming, OneEach, On
    <3>5. IdsNamed'
      <4>1. \A k \in Jobs : job'[k].id \in Ids => k # j /\ job'[k] = job[k]
        BY <3>1, IdFacts
      <4> QED BY <3>2, <3>3, <4>1 DEF Naming, IdsNamed
    <3>6. IdsFresh' BY <1>id, <3>1, <3>2, <3>3 DEF Naming, IdsFresh
    <3>7. NamesUnique' BY <3>3 DEF Naming, NamesUnique
    <3>8. OpsSound' BY <3>1 DEF Naming, OpsSound
    <3> QED BY <1>t, <3>4, <3>5, <3>6, <3>7, <3>8 DEF Naming
  <2>11. ASSUME NEW u \in Users, Revoke(u) PROVE Naming'
    <3>1. UNCHANGED <<agents, served, job, raced, created>> BY <2>11 DEF Revoke
    <3> QED BY <1>t, <3>1 DEF Naming, OneEach, IdsNamed, IdsFresh, NamesUnique, OpsSound, On
  <2> QED BY <1>1, <2>1, <2>2, <2>3, <2>4, <2>5, <2>6, <2>7, <2>8, <2>9, <2>10, <2>11
          DEF AccountsStep
\* All requests are gone, and what is served is a row of the table.
<1>2. CASE AccountsRestart
  <2>1. /\ \A k \in Jobs : job'[k].pc = "idle" /\ job'[k].id = 0
        /\ UNCHANGED <<agents, created>>
        /\ \A i \in Ids : served'[i] = None \/ (agents[i] # None /\ served'[i] = agents[i])
    BY <1>2 DEF AccountsRestart, IdleJob
  <2>2. OneEach' BY <2>1 DEF OneEach, On
  <2>3. IdsNamed' BY <2>1, IdFacts DEF IdsNamed
  <2>4. IdsFresh' BY <1>id, <2>1 DEF Naming, IdsFresh
  <2>5. NamesUnique' BY <2>1 DEF Naming, NamesUnique
  <2>6. OpsSound' BY <2>1 DEF OpsSound
  <2> QED BY <1>t, <2>2, <2>3, <2>4, <2>5, <2>6 DEF Naming
<1>3. CASE UNCHANGED accountVars
  BY <1>t, <1>3 DEF accountVars, Naming, OneEach, IdsNamed, IdsFresh, NamesUnique, OpsSound, On
<1> QED BY <1>1, <1>2, <1>3 DEF AccountsNext

-----------------------------------------------------------------------------
(* One name through a step. *)

\* While no two requests have raced over u, request j on u is the only one.
LEMMA Sole ==
  ASSUME Naming, NEW u \in Users \ raced, NEW j \in Jobs, On(j, u)
  PROVE  \A k \in Jobs \ {j} : ~On(k, u)
  BY DEF Naming, OneEach

\* The one row with the name u is the only one that can be served under u.
LEMMA OneRow ==
  ASSUME Naming, NEW u \in Users, Matches(u), NEW i \in Ids, agents[i] # None, agents[i].user = u
  PROVE  \A k \in Ids \ {i} : /\ agents[k] # None => agents[k].user # u
                              /\ served[k] # None => served[k].user # u
<1>1. \A k \in Ids \ {i} : agents[k] # None => agents[k].user # u BY DEF Naming, NamesUnique
<1>2. \A k \in Ids : served[k] # None /\ served[k].user = u => agents[k] = served[k] BY DEF Matches
<1> QED BY <1>1, <1>2

(* A step that touches only the ids of D, none of which has to do with u,  *)
(* and none of the requests on u.                                          *)
LEMMA Frame ==
  ASSUME NEW u \in Users, Served(u), NEW D,
         \A i \in Ids \ D : agents'[i] = agents[i] /\ served'[i] = served[i],
         \A i \in Ids \cap D : /\ agents[i] # None => agents[i].user # u
                               /\ agents'[i] # None => agents'[i].user # u
                               /\ served[i] # None => served[i].user # u
                               /\ served'[i] # None => served'[i].user # u,
         byUser'[u] = byUser[u],
         \A k \in Jobs : On(k, u) => job[k].id \notin D,
         \A k \in Jobs : On(k, u) \/ On(k, u)' => job'[k] = job[k]
  PROVE  Served(u)'
<1>1. \A k \in Jobs : On(k, u)' => On(k, u) /\ job'[k] = job[k] BY DEF On
<1>2. \A k \in Jobs : On(k, u) => On(k, u)' /\ job'[k] = job[k] BY DEF On
<1>3. Matches(u) => Matches(u)' BY DEF Matches
<1>4. ASSUME NEW k \in Jobs, On(k, u)' PROVE Knows(k, u)'
  <2>1. On(k, u) /\ job'[k] = job[k] /\ job[k].id \notin D /\ RowOf(k)' = RowOf(k)
    BY <1>1, <1>4 DEF RowOf
  <2>2. Knows(k, u) BY <2>1 DEF Served
  <2>3. OnlyServes(k, u) => OnlyServes(k, u)' BY <2>1 DEF OnlyServes
  <2>4. (\A i \in Ids : agents[i] # None => agents[i].user # u)
          => \A i \in Ids : agents'[i] # None => agents'[i].user # u
    OBVIOUS
  <2> QED BY <2>1, <2>2, <2>3, <2>4 DEF Knows
<1> QED BY <1>1, <1>2, <1>3, <1>4 DEF Served

\* A step that leaves the table and the registry, and the requests on u.
LEMMA Apart ==
  ASSUME NEW u \in Users, Served(u), UNCHANGED <<agents, served, byUser>>,
         \A k \in Jobs : On(k, u) \/ On(k, u)' => job'[k] = job[k]
  PROVE  Served(u)'
<1> DEFINE D == {}
<1>1. \A i \in Ids \ D : agents'[i] = agents[i] /\ served'[i] = served[i] OBVIOUS
<1>2. \A i \in Ids \cap D : /\ agents[i] # None => agents[i].user # u
                            /\ agents'[i] # None => agents'[i].user # u
                            /\ served[i] # None => served[i].user # u
                            /\ served'[i] # None => served'[i].user # u
  OBVIOUS
<1>3. \A k \in Jobs : On(k, u) => job[k].id \notin D OBVIOUS
<1> HIDE DEF D
<1> QED BY <1>1, <1>2, <1>3, Frame

(* A step that leaves the table and the registry, after which at most one  *)
(* request is on u, and it has shown all it has written.                   *)
LEMMA Quiet ==
  ASSUME NEW u \in Users, Matches(u), NEW j \in Jobs,
         UNCHANGED <<agents, served, byUser>>,
         \A k \in Jobs \ {j} : ~On(k, u)',
         On(j, u)' => /\ job'[j].pc \notin Shown
                      /\ job'[j].op # "create" => job'[j].id \in Ids /\ agents[job'[j].id] # None
  PROVE  Served(u)'
<1>1. Matches(u)' BY DEF Matches
<1>2. \A k \in Jobs : On(k, u)' => Knows(k, u)' BY DEF Knows, Shown
<1> QED BY <1>1, <1>2 DEF Served

\* A request starts.
LEMMA StartServed ==
  ASSUME Naming, NEW u \in Users \ raced, Served(u), NEW j \in Jobs, NEW v \in Users, NEW fields,
         StartJob(j, v, fields), u \notin raced', fields.user = v, fields.pc \notin Shown,
         fields.op # "create" => fields.id \in Ids /\ agents[fields.id] # None
  PROVE  Served(u)'
<1>1. job'[j] = fields /\ \A k \in Jobs \ {j} : job'[k] = job[k]
  BY DEF StartJob, Naming, RegistryTypes, AccountsTypes
<1>2. job[j].pc = "idle" /\ UNCHANGED <<agents, served, byUser>> BY DEF StartJob, UnchangedData
<1>3. CASE u = v
  <2>1. \A k \in Jobs : ~On(k, u) BY <1>2, <1>3 DEF StartJob, BusyJobs, On
  <2>2. Matches(u) BY <2>1 DEF Served
  <2>3. \A k \in Jobs \ {j} : ~On(k, u)' BY <1>1, <2>1 DEF On
  <2> QED BY <1>1, <1>2, <2>2, <2>3, Quiet
<1>4. CASE u # v
  <2>1. \A k \in Jobs : On(k, u) \/ On(k, u)' => job'[k] = job[k] BY <1>1, <1>2, <1>4 DEF On
  <2> QED BY <1>2, <2>1, Apart
<1> QED BY <1>3, <1>4

(* A request goes on, or ends, without a write. *)
LEMMA WalkServed ==
  ASSUME Naming, NEW u \in Users \ raced, Served(u), NEW j \in Jobs,
         job[j].pc # "idle", job[j].pc \notin Shown,
         UNCHANGED <<agents, served, byUser>>,
         \A k \in Jobs \ {j} : job'[k] = job[k],
         \/ job'[j].pc = "idle"
         \/ /\ job'[j].pc \notin Shown
            /\ job'[j].id = job[j].id /\ job'[j].user = job[j].user /\ job'[j].op = job[j].op
  PROVE  Served(u)'
<1>1. CASE job[j].user = u
  <2>1. On(j, u) BY <1>1 DEF On
  <2>2. \A k \in Jobs \ {j} : ~On(k, u) BY <2>1, Sole
  <2>3. Matches(u) BY <2>1, <2>2 DEF Served
  <2>4. Knows(j, u) BY <2>1 DEF Served
  <2>5. \A k \in Jobs \ {j} : ~On(k, u)' BY <2>2 DEF On
  <2>6. On(j, u)' => /\ job'[j].pc \notin Shown
                     /\ job'[j].op # "create" => job'[j].id \in Ids /\ agents[job'[j].id] # None
    BY <2>4 DEF On, Knows
  <2> QED BY <2>3, <2>5, <2>6, Quiet
<1>2. CASE job[j].user # u
  <2>1. job'[j].pc = "idle" \/ job'[j].user # u BY <1>2
  <2>2. \A k \in Jobs : On(k, u) \/ On(k, u)' => job'[k] = job[k] BY <1>2, <2>1 DEF On
  <2> QED BY <2>2, Apart
<1> QED BY <1>1, <1>2

(* A write of request j, on another name than u, to the row of j. *)
LEMMA OtherServed ==
  ASSUME Naming, Naming', NEW u \in Users, Served(u), NEW j \in Jobs, NEW i,
         job[j].pc # "idle", job[j].user # u,
         job[j].id = i \/ (job'[j].id = i /\ job'[j].user = job[j].user /\ i \notin {job[k].id : k \in Jobs}
                            /\ (i \in Ids => agents[i] = None /\ served[i] = None)),
         \A k \in Ids \ {i} : agents'[k] = agents[k] /\ served'[k] = served[k],
         i \in Ids => /\ agents'[i] \in {None, agents[i], RowOf(j)}
                      /\ served'[i] \in {None, served[i], RowOf(j)},
         byUser'[u] = byUser[u],
         \A k \in Jobs \ {j} : job'[k] = job[k],
         job'[j].pc = "idle" \/ job'[j].user = job[j].user
  PROVE  Served(u)'
<1> DEFINE D == {i}
<1>1. i \in Ids => /\ agents[i] # None => agents[i].user # u
                   /\ served[i] # None => served[i].user # u
  BY DEF Naming, IdsNamed
<1>2. RowOf(j).user = job[j].user BY DEF RowOf
<1>3. \A k \in Ids \cap D : /\ agents[k] # None => agents[k].user # u
                            /\ agents'[k] # None => agents'[k].user # u
                            /\ served[k] # None => served[k].user # u
                            /\ served'[k] # None => served'[k].user # u
  BY <1>1, <1>2
<1>4. \A k \in Jobs : On(k, u) /\ i \in Ids => job[k].id \notin D
  BY DEF On, Naming, IdsNamed
<1>5. \A k \in Jobs : On(k, u) \/ On(k, u)' => job'[k] = job[k] BY DEF On
<1>6. \A k \in Ids \ D : agents'[k] = agents[k] /\ served'[k] = served[k] OBVIOUS
<1>7. CASE i \in Ids
  <2> HIDE DEF D
  <2> QED BY <1>3, <1>4, <1>5, <1>6, <1>7, Frame
<1>8. CASE i \notin Ids
  <2> DEFINE E == {}
  <2>1. \A k \in Ids \ E : agents'[k] = agents[k] /\ served'[k] = served[k] BY <1>8
  <2>2. \A k \in Ids \cap E : /\ agents[k] # None => agents[k].user # u
                              /\ agents'[k] # None => agents'[k].user # u
                              /\ served[k] # None => served[k].user # u
                              /\ served'[k] # None => served'[k].user # u
    OBVIOUS
  <2>3. \A k \in Jobs : On(k, u) => job[k].id \notin E OBVIOUS
  <2> HIDE DEF E
  <2> QED BY <1>5, <2>1, <2>2, <2>3, Frame
<1> QED BY <1>7, <1>8

-----------------------------------------------------------------------------
(* The writes of a request. *)

LEMMA InsertServed ==
  ASSUME Naming, Naming', NEW u \in Users \ raced, Served(u), NEW j \in Jobs, InsertRow(j)
  PROVE  Served(u)'
<1>t. RegistryTypes /\ job[j].pc = "insert" BY DEF Naming, InsertRow
<1>1. CASE End(j) /\ UNCHANGED agents
  BY <1>t, <1>1, EndFacts, WalkServed DEF InsertRow, Shown
<1>2. CASE /\ Registered(job[j].user) = {} /\ created < MaxIds
           /\ created' = created + 1
           /\ agents' = [agents EXCEPT ![created + 1] = RowOf(j)]
           /\ job' = [job EXCEPT ![j].pc = "refresh", ![j].id = created + 1]
  <2> DEFINE n == created + 1
  <2>c. created \in Nat BY <1>t DEF RegistryTypes, AccountsTypes
  <2>1. n \in Ids /\ UNCHANGED <<served, byUser>>
    BY <2>c, <1>2, IdsAreNumbers DEF InsertRow, Ids
  <2>2. agents[n] = None /\ served[n] = None /\ \A k \in Jobs : job[k].id # n
    BY <2>c, <2>1, <1>t DEF Naming, IdsFresh, RegistryTypes, AccountsTypes, Job
  <2>3. agents'[n] = RowOf(j) /\ \A i \in Ids \ {n} : agents'[i] = agents[i]
    BY <1>t, <1>2, <2>1 DEF RegistryTypes, AccountsTypes
  <2>4. /\ \A k \in Jobs \ {j} : job'[k] = job[k]
        /\ job'[j].pc = "refresh" /\ job'[j].id = n /\ job'[j].user = job[j].user
        /\ RowOf(j)' = RowOf(j)
    BY <1>t, <1>2, InsertFacts
  <2>5. CASE job[j].user = u
    <3>1. On(j, u) /\ \A k \in Jobs \ {j} : ~On(k, u) BY <1>t, <2>5, Sole DEF On
    <3>2. Matches(u) BY <1>t, <3>1 DEF Served, Shown
    <3>3. \A i \in Ids : agents[i] # None => agents[i].user # u BY <1>2, <2>5 DEF Registered
    <3>4. \A i \in Ids : served[i] # None => served[i].user # u BY <3>2, <3>3 DEF Matches
    <3>5. OnlyServes(j, u)' BY <3>4, <2>1 DEF OnlyServes
    <3>6. Knows(j, u)' BY <3>5, <2>1, <2>3, <2>4 DEF Knows, Shown
    <3>7. \A k \in Jobs : On(k, u)' <=> k = j BY <3>1, <2>4, <2>5 DEF On
    <3> QED BY <3>6, <3>7, <2>4 DEF Served, Shown
  <2>6. CASE job[j].user # u
    <3> HIDE DEF n
    <3> QED BY <1>t, <2>1, <2>2, <2>3, <2>4, <2>6, OtherServed
  <2> QED BY <2>5, <2>6
<1> QED BY <1>1, <1>2 DEF InsertRow

\* The row of a request that changes or deletes it is the only one under its name.
LEMMA OwnRow ==
  ASSUME Naming, NEW u \in Users \ raced, Served(u), NEW j \in Jobs, job[j].user = u,
         job[j].pc \in {"update", "delrow"}
  PROVE  /\ On(j, u) /\ \A k \in Jobs \ {j} : ~On(k, u)
         /\ Matches(u) /\ job[j].id \in Ids
         /\ agents[job[j].id] # None /\ agents[job[j].id].user = u
         /\ \A k \in Ids \ {job[j].id} : /\ agents[k] # None => agents[k].user # u
                                         /\ served[k] # None => served[k].user # u
<1>1. On(j, u) /\ \A k \in Jobs \ {j} : ~On(k, u) BY Sole DEF On
<1>2. Matches(u) BY <1>1 DEF Served, Shown
<1>3. job[j].op # "create" BY DEF Naming, OpsSound
<1>4. job[j].id \in Ids /\ agents[job[j].id] # None BY <1>1, <1>3 DEF Served, Knows, Shown
<1>5. agents[job[j].id].user = u BY <1>4 DEF Naming, IdsNamed
<1> QED BY <1>1, <1>2, <1>4, <1>5, OneRow

LEMMA UpdateServed ==
  ASSUME Naming, Naming', NEW u \in Users \ raced, Served(u), NEW j \in Jobs, UpdateRow(j)
  PROVE  Served(u)'
<1>t. RegistryTypes /\ job[j].pc = "update" BY DEF Naming, UpdateRow
<1>1. CASE End(j) /\ UNCHANGED agents
  BY <1>t, <1>1, EndFacts, WalkServed DEF UpdateRow, Shown
<1>2. CASE /\ agents' = [agents EXCEPT ![job[j].id] = IF @ = None THEN None ELSE RowOf(j)]
           /\ Go(j, "refresh")
  <2> DEFINE i == job[j].id
  <2>0. agents \in [Ids -> Row \cup {None}] BY <1>t DEF RegistryTypes, AccountsTypes
  <2>1. UNCHANGED <<served, byUser>> BY DEF UpdateRow
  <2>2. \A k \in Ids \ {i} : agents'[k] = agents[k] BY <1>2, <2>0
  <2>3. i \in Ids => agents'[i] = IF agents[i] = None THEN None ELSE RowOf(j) BY <1>2, <2>0
  <2>4. /\ \A k \in Jobs \ {j} : job'[k] = job[k]
        /\ job'[j].pc = "refresh" /\ job'[j].id = i /\ job'[j].user = job[j].user
        /\ RowOf(j)' = RowOf(j)
    BY <1>t, <1>2, GoFacts DEF Steps
  <2>5. CASE job[j].user = u
    <3>1. /\ On(j, u) /\ \A k \in Jobs \ {j} : ~On(k, u)
          /\ i \in Ids /\ agents[i] # None
          /\ \A k \in Ids \ {i} : served[k] # None => served[k].user # u
      BY <1>t, <2>5, OwnRow
    <3>2. OnlyServes(j, u)' BY <3>1, <2>1, <2>4 DEF OnlyServes
    <3>3. Knows(j, u)' BY <3>1, <3>2, <2>3, <2>4 DEF Knows, Shown
    <3>4. \A k \in Jobs : On(k, u)' <=> k = j BY <3>1, <2>4, <2>5 DEF On
    <3> QED BY <3>3, <3>4, <2>4 DEF Served, Shown
  <2>6. CASE job[j].user # u
    <3> HIDE DEF i
    <3>1. job[j].id = i BY DEF i
    <3> QED BY <1>t, <2>1, <2>2, <2>3, <2>4, <2>6, <3>1, OtherServed
  <2> QED BY <2>5, <2>6
<1> QED BY <1>1, <1>2 DEF UpdateRow

LEMMA DeleteServed ==
  ASSUME Naming, Naming', NEW u \in Users \ raced, Served(u), NEW j \in Jobs, DeleteRow(j)
  PROVE  Served(u)'
<1>t. RegistryTypes /\ job[j].pc = "delrow" BY DEF Naming, DeleteRow
<1>1. CASE End(j) /\ UNCHANGED agents
  BY <1>t, <1>1, EndFacts, WalkServed DEF DeleteRow, Shown
<1>2. CASE agents' = [agents EXCEPT ![job[j].id] = None] /\ Go(j, "remove")
  <2> DEFINE i == job[j].id
  <2>0. agents \in [Ids -> Row \cup {None}] BY <1>t DEF RegistryTypes, AccountsTypes
  <2>1. UNCHANGED <<served, byUser>> BY DEF DeleteRow
  <2>2. \A k \in Ids \ {i} : agents'[k] = agents[k] BY <1>2, <2>0
  <2>3. i \in Ids => agents'[i] = None BY <1>2, <2>0
  <2>4. /\ \A k \in Jobs \ {j} : job'[k] = job[k]
        /\ job'[j].pc = "remove" /\ job'[j].id = i /\ job'[j].user = job[j].user
    BY <1>t, <1>2, GoFacts DEF Steps
  <2>5. CASE job[j].user = u
    <3>1. /\ On(j, u) /\ \A k \in Jobs \ {j} : ~On(k, u)
          /\ Matches(u) /\ i \in Ids /\ agents[i] # None /\ agents[i].user = u
          /\ \A k \in Ids \ {i} : /\ agents[k] # None => agents[k].user # u
                                  /\ served[k] # None => served[k].user # u
      BY <1>t, <2>5, OwnRow
    <3>2. OnlyServes(j, u)' BY <3>1, <2>1, <2>4 DEF OnlyServes
    <3>3. \A k \in Ids : agents'[k] # None => agents'[k].user # u BY <3>1, <2>2, <2>3
    <3>4. served[i] = None => byUser[u] = None BY <3>1 DEF Matches
    <3>5. Knows(j, u)' BY <3>1, <3>2, <3>3, <3>4, <2>1, <2>4 DEF Knows, Shown
    <3>6. \A k \in Jobs : On(k, u)' <=> k = j BY <3>1, <2>4, <2>5 DEF On
    <3> QED BY <3>5, <3>6, <2>4 DEF Served, Shown
  <2>6. CASE job[j].user # u
    <3> HIDE DEF i
    <3>1. job[j].id = i BY DEF i
    <3> QED BY <1>t, <2>1, <2>2, <2>3, <2>4, <2>6, <3>1, OtherServed
  <2> QED BY <2>5, <2>6
<1> QED BY <1>1, <1>2 DEF DeleteRow

-----------------------------------------------------------------------------
(* The registry is shown what was written. *)

LEMMA RefreshServed ==
  ASSUME Naming, Naming', NEW u \in Users \ raced, Served(u), NEW j \in Jobs, Refresh(j)
  PROVE  Served(u)'
<1> DEFINE i == job[j].id
<1>t. RegistryTypes /\ job[j].pc = "refresh" /\ UNCHANGED agents BY DEF Naming, Refresh
<1>0. served \in [Ids -> Row \cup {None}] /\ byUser \in [Users -> Nat \cup {None}]
  BY <1>t DEF RegistryTypes
<1>1. \A k \in Ids \ {i} : served'[k] = served[k] BY <1>0 DEF Refresh
<1>2. i \in Ids => served'[i] = IF job[j].status = "active" THEN RowOf(j) ELSE None
  BY <1>0 DEF Refresh
<1>3. /\ \A k \in Jobs \ {j} : job'[k] = job[k]
      /\ job'[j].pc = "idle"
  BY <1>t, EndFacts DEF Refresh
<1>4. /\ job[j].user \in Users /\ RowOf(j) # None
      /\ RowOf(j).user = job[j].user /\ RowOf(j).status = job[j].status
  BY <1>t, RowFacts
<1>5. CASE job[j].user = u
  <2>1. On(j, u) /\ \A k \in Jobs \ {j} : ~On(k, u) BY <1>t, <1>5, Sole DEF On
  <2>2. i \in Ids /\ agents[i] = RowOf(j) /\ OnlyServes(j, u)
    BY <1>t, <2>1 DEF Served, Knows
  <2>3. \A k \in Ids \ {i} : /\ agents[k] # None => agents[k].user # u
                             /\ served[k] # None => served[k].user # u
    BY <1>4, <1>5, <2>2 DEF OnlyServes, Naming, NamesUnique
  <2>4. byUser'[u] = IF job[j].status = "active" THEN i ELSE None BY <1>0, <1>5 DEF Refresh
  <2>5. \A k \in Ids : served'[k] # None /\ served'[k].user = u => agents'[k] = served'[k]
    BY <1>t, <1>1, <1>2, <2>2, <2>3
  <2>6. ASSUME NEW k \in Ids, agents'[k] # None, agents'[k].user = u
        PROVE  /\ served'[k] = IF agents'[k].status = "active" THEN agents'[k] ELSE None
               /\ byUser'[u] = IF agents'[k].status = "active" THEN k ELSE None
    <3>1. k = i BY <1>t, <2>3, <2>6
    <3> QED BY <1>t, <1>2, <1>4, <2>2, <2>4, <3>1
  <2>7. ~(\A k \in Ids : agents'[k] # None => agents'[k].user # u) BY <1>t, <1>4, <1>5, <2>2
  <2>8. Matches(u)' BY <2>5, <2>6, <2>7 DEF Matches
  <2>9. \A k \in Jobs : ~On(k, u)' BY <1>3, <2>1 DEF On
  <2> QED BY <2>8, <2>9 DEF Served
<1>6. CASE job[j].user # u
  <2>1. byUser'[u] = byUser[u] BY <1>0, <1>6 DEF Refresh
  <2>2. job[j].id = i OBVIOUS
  <2> HIDE DEF i
  <2> QED BY <1>t, <1>1, <1>2, <1>3, <1>6, <2>1, <2>2, OtherServed
<1> QED BY <1>5, <1>6

LEMMA RemoveServed ==
  ASSUME Naming, Naming', NEW u \in Users \ raced, Served(u), NEW j \in Jobs, Remove(j)
  PROVE  Served(u)'
<1> DEFINE i == job[j].id
<1>t. /\ RegistryTypes /\ job[j].pc = "remove" /\ UNCHANGED agents
      /\ i \in Ids
  BY DEF Naming, OpsSound, Remove
<1>0. served \in [Ids -> Row \cup {None}] /\ byUser \in [Users -> Nat \cup {None}]
  BY <1>t DEF RegistryTypes
<1>1. \A k \in Ids \ {i} : served'[k] = served[k] BY <1>0 DEF Remove
<1>2. served'[i] = None BY <1>0, <1>t DEF Remove
<1>3. /\ \A k \in Jobs \ {j} : job'[k] = job[k]
      /\ job'[j].pc = "idle"
  BY <1>t, EndFacts DEF Remove
<1>4. served[i] # None => served[i].user = job[j].user BY <1>t DEF Naming, IdsNamed
<1>5. CASE job[j].user = u
  <2>1. On(j, u) /\ \A k \in Jobs \ {j} : ~On(k, u) BY <1>t, <1>5, Sole DEF On
  <2>2. /\ \A k \in Ids : agents[k] # None => agents[k].user # u
        /\ OnlyServes(j, u) /\ (served[i] = None => byUser[u] = None)
    BY <1>t, <2>1 DEF Served, Knows
  <2>3. byUser'[u] = None
    <3>1. CASE served[i] = None BY <3>1, <2>2 DEF Remove
    <3>2. CASE served[i] # None BY <3>2, <1>0, <1>4, <1>5 DEF Remove
    <3> QED BY <3>1, <3>2
  <2>4. \A k \in Ids : served'[k] # None => served'[k].user # u
    BY <1>1, <1>2, <2>2 DEF OnlyServes
  <2>5. Matches(u)' BY <1>t, <2>2, <2>3, <2>4 DEF Matches
  <2>6. \A k \in Jobs : ~On(k, u)' BY <1>3, <2>1 DEF On
  <2> QED BY <2>5, <2>6 DEF Served
<1>6. CASE job[j].user # u
  <2>1. byUser'[u] = byUser[u]
    <3>1. CASE served[i] = None BY <3>1 DEF Remove
    <3>2. CASE served[i] # None BY <3>2, <1>0, <1>4, <1>6 DEF Remove
    <3> QED BY <3>1, <3>2
  <2>2. job[j].id = i OBVIOUS
  <2> HIDE DEF i
  <2> QED BY <1>t, <1>1, <1>2, <1>3, <1>6, <2>1, <2>2, OtherServed
<1> QED BY <1>5, <1>6

(* A restart builds the registry from the table. *)
LEMMA RestartServed ==
  ASSUME Naming, NEW u \in Users, AccountsRestart
  PROVE  Served(u)'
<1>1. \A k \in Jobs : ~On(k, u)' BY DEF AccountsRestart, IdleJob, On
<1>2. \A i \in Ids : served'[i] = IF agents[i] # None /\ agents[i].status = "active"
                                  THEN agents[i] ELSE None
  BY DEF AccountsRestart
<1>3. UNCHANGED agents BY DEF AccountsRestart
<1>4. byUser'[u] = IF \E i \in Registered(u) : agents[i].status = "active"
                   THEN CHOOSE i \in Registered(u) : agents[i].status = "active" ELSE None
  BY DEF AccountsRestart
<1>5. ASSUME NEW i \in Ids, agents[i] # None, agents[i].user = u
      PROVE  byUser'[u] = IF agents[i].status = "active" THEN i ELSE None
  <2>1. Registered(u) = {i} BY <1>5 DEF Registered, Naming, NamesUnique
  <2>2. CASE agents[i].status = "active"
    <3>1. (CHOOSE k \in Registered(u) : agents[k].status = "active") = i BY <2>1, <2>2
    <3> QED BY <1>4, <2>1, <2>2, <3>1
  <2>3. CASE agents[i].status # "active" BY <1>4, <2>1, <2>3
  <2> QED BY <2>2, <2>3
<1>6. ASSUME \A i \in Ids : agents[i] # None => agents[i].user # u PROVE byUser'[u] = None
  <2>1. Registered(u) = {} BY <1>6 DEF Registered
  <2> QED BY <1>4, <2>1
<1>7. Matches(u)' BY <1>2, <1>3, <1>5, <1>6 DEF Matches
<1> QED BY <1>1, <1>7 DEF Served

-----------------------------------------------------------------------------
LEMMA RegistryInit == AccountsInit => RegistryInv
<1> SUFFICES ASSUME AccountsInit PROVE RegistryInv
  OBVIOUS
<1>1. AccountsTypes BY TypesInit
<1>2. /\ agents = [i \in Ids |-> None] /\ served = [i \in Ids |-> None]
      /\ byUser = [u \in Users |-> None] /\ created = 0 /\ raced = {}
      /\ \A j \in Jobs : job[j].pc = "idle" /\ job[j].id = 0
  BY DEF AccountsInit, IdleJob
<1>3. RegistryTypes BY <1>1, <1>2 DEF RegistryTypes
<1>4. Naming
  BY <1>2, <1>3, IdFacts DEF Naming, OneEach, On, IdsNamed, IdsFresh, NamesUnique, OpsSound
<1>5. \A u \in Users : Served(u) BY <1>2 DEF Served, Matches, On
<1> QED BY <1>4, <1>5 DEF RegistryInv

LEMMA ServedNext ==
  ASSUME Naming, Naming', NEW u \in Users, (u \notin raced) => Served(u), u \notin raced',
         [AccountsNext]_accountVars
  PROVE  Served(u)'
<1>t. RegistryTypes BY DEF Naming
<1>r. AccountsRestart \/ (u \in Users \ raced /\ Served(u))
  <2>1. ASSUME NEW auto \in BOOLEAN, AccountsStep(auto) PROVE u \notin raced
    <3>1. \A j \in Jobs, v \in Users : \A f : StartJob(j, v, f) => u \notin raced
      BY DEF StartJob
    <3> QED
      BY <2>1 DEF AccountsStep, StartCreate, StartUpdate, StartDelete, StartJob, Lookup,
         Validate, Decide, CreateAccount, ResetPassword, MintToken, InsertRow, UpdateRow, Refresh, DeleteUser,
         DeleteRow, Remove, Revoke
  <2>2. UNCHANGED accountVars => u \notin raced BY DEF accountVars
  <2> QED BY <2>1, <2>2 DEF AccountsNext
<1>1. ASSUME NEW auto \in BOOLEAN, AccountsStep(auto), u \in Users \ raced, Served(u)
      PROVE  Served(u)'
  <2>1. ASSUME NEW j \in Jobs, NEW v \in Users, NEW takeOver \in BOOLEAN,
               StartCreate(j, v, takeOver, auto) PROVE Served(u)'
    <3> DEFINE f == [IdleJob EXCEPT !.pc = IF auto THEN "lookup" ELSE "insert",
                       !.op = "create", !.user = v, !.takeOver = takeOver]
    <3>1. StartJob(j, v, f) BY <2>1 DEF StartCreate
    <3>2. f.user = v /\ f.op = "create" /\ f.pc \in {"lookup", "insert"} BY DEF IdleJob
    <3> HIDE DEF f
    <3> QED BY <1>1, <3>1, <3>2, StartServed DEF Shown
  <2>2. ASSUME NEW j \in Jobs, NEW i \in Ids, NEW status \in {"active", "inactive"},
               NEW takeOver \in BOOLEAN, StartUpdate(j, i, status, takeOver, auto)
        PROVE Served(u)'
    <3> DEFINE f == [pc |-> IF auto THEN "lookup" ELSE "update", op |-> "update", id |-> i,
                     user |-> agents[i].user, token |-> agents[i].token,
                     managed |-> agents[i].managed, status |-> status, takeOver |-> takeOver]
    <3>1. StartJob(j, agents[i].user, f) /\ agents[i] # None BY <2>2 DEF StartUpdate
    <3>2. f.user = agents[i].user /\ f.id = i /\ f.pc \in {"lookup", "update"} OBVIOUS
    <3>3. agents[i].user \in Users BY <1>t, <3>1 DEF RegistryTypes, AccountsTypes, Row
    <3> HIDE DEF f
    <3> QED BY <1>1, <3>1, <3>2, <3>3, StartServed DEF Shown
  <2>3. ASSUME NEW j \in Jobs, NEW i \in Ids, StartDelete(j, i) PROVE Served(u)'
    <3> DEFINE f == [IdleJob EXCEPT !.pc = "deluser", !.op = "delete", !.id = i,
                                    !.user = agents[i].user]
    <3>1. StartJob(j, agents[i].user, f) /\ agents[i] # None BY <2>3 DEF StartDelete
    <3>2. f.user = agents[i].user /\ f.id = i /\ f.pc = "deluser" BY DEF IdleJob
    <3>3. agents[i].user \in Users BY <1>t, <3>1 DEF RegistryTypes, AccountsTypes, Row
    <3> HIDE DEF f
    <3> QED BY <1>1, <3>1, <3>2, <3>3, StartServed DEF Shown
  <2>4. ASSUME NEW j \in Jobs,
               \/ Lookup(j) \/ Validate(j) \/ Decide(j) \/ CreateAccount(j)
               \/ ResetPassword(j) \/ MintToken(j) \/ DeleteUser(j)
        PROVE  Served(u)'
    <3>1. /\ job[j].pc # "idle" /\ job[j].pc \notin Shown
          /\ UNCHANGED <<agents, served, byUser>>
      BY <2>4 DEF Lookup, Validate, Decide, CreateAccount, ResetPassword, MintToken, DeleteUser,
         UnchangedData, Shown
    <3>2. CASE \E p \in {"validate", "decide", "create", "reset", "mint", "delrow"} : Go(j, p)
      <4>1. PICK p \in {"validate", "decide", "create", "reset", "mint", "delrow"} : Go(j, p)
        BY <3>2
      <4>2. p \in Steps /\ p \notin Shown BY DEF Steps, Shown
      <4> QED BY <1>1, <1>t, <3>1, <4>1, <4>2, GoFacts, WalkServed
    <3>3. CASE End(j) BY <1>1, <1>t, <3>1, <3>3, EndFacts, WalkServed
    <3>4. CASE \E n \in Nat : Ensured(j, n)
      <4>1. PICK n \in Nat : Ensured(j, n) BY <3>4
      <4>2. job'[j].pc \notin Shown BY <1>t, <4>1, EnsuredFacts DEF Shown
      <4> QED BY <1>1, <1>t, <3>1, <4>1, <4>2, EnsuredFacts, WalkServed
    <3>5. job[j].token \in Nat /\ minted + 1 \in Nat
      BY <1>t DEF RegistryTypes, AccountsTypes, Job
    <3> QED BY <2>4, <3>2, <3>3, <3>4, <3>5
            DEF Lookup, Validate, Decide, CreateAccount, ResetPassword, MintToken, DeleteUser
  <2>5. ASSUME NEW j \in Jobs, InsertRow(j) PROVE Served(u)' BY <1>1, <2>5, InsertServed
  <2>6. ASSUME NEW j \in Jobs, UpdateRow(j) PROVE Served(u)' BY <1>1, <2>6, UpdateServed
  <2>7. ASSUME NEW j \in Jobs, Refresh(j) PROVE Served(u)' BY <1>1, <2>7, RefreshServed
  <2>8. ASSUME NEW j \in Jobs, DeleteRow(j) PROVE Served(u)' BY <1>1, <2>8, DeleteServed
  <2>9. ASSUME NEW j \in Jobs, Remove(j) PROVE Served(u)' BY <1>1, <2>9, RemoveServed
  <2>10. ASSUME NEW v \in Users, Revoke(v) PROVE Served(u)'
    <3>1. UNCHANGED <<agents, served, byUser, job>> BY <2>10 DEF Revoke
    <3> QED BY <1>1, <3>1, Apart
  <2> QED BY <1>1, <2>1, <2>2, <2>3, <2>4, <2>5, <2>6, <2>7, <2>8, <2>9, <2>10 DEF AccountsStep
<1>2. CASE AccountsRestart BY <1>2, RestartServed
<1>3. ASSUME UNCHANGED accountVars, u \in Users \ raced, Served(u) PROVE Served(u)'
  <2>1. UNCHANGED <<agents, served, byUser, job>> BY <1>3 DEF accountVars
  <2> QED BY <1>3, <2>1, Apart
<1> QED BY <1>r, <1>1, <1>2, <1>3 DEF AccountsNext

LEMMA RegistryNext == RegistryInv /\ [AccountsNext]_accountVars => RegistryInv'
<1> SUFFICES ASSUME RegistryInv, [AccountsNext]_accountVars PROVE RegistryInv'
  OBVIOUS
<1>1. Naming /\ Naming' BY NamesNext DEF RegistryInv
<1>2. ASSUME NEW u \in Users \ raced' PROVE Served(u)'
  <2>1. u \notin raced => Served(u) BY DEF RegistryInv
  <2> QED BY <1>1, <2>1, ServedNext
<1> QED BY <1>1, <1>2 DEF RegistryInv

LEMMA RegistryInvMatches == RegistryInv => RegistryMatches
<1> SUFFICES ASSUME RegistryInv, NEW u \in Users \ raced, \A j \in Jobs : job[j].user # u
             PROVE  /\ \A i \in Ids : served[i] # None /\ served[i].user = u => agents[i] = served[i]
                    /\ \A i \in Registered(u) :
                         /\ served[i] = IF agents[i].status = "active" THEN agents[i] ELSE None
                         /\ byUser[u] = IF agents[i].status = "active" THEN i ELSE None
                    /\ Registered(u) = {} => byUser[u] = None
  BY DEF RegistryMatches
<1>1. Matches(u) BY DEF RegistryInv, Served, On
<1> QED BY <1>1 DEF Matches, Registered

(* Whatever requests run at once, fail half way or are cut off by a        *)
(* restart: under a name that no two requests have raced over, the         *)
(* registry serves the active agent the table has for it, and nothing else *)
(* (agents/registry.go, agents/manager.go).                                *)
THEOREM RegistryServesTable == AccountsSpec => []RegistryMatches
<1>1. AccountsInit => RegistryInv BY RegistryInit
<1>2. RegistryInv /\ [AccountsNext]_accountVars => RegistryInv' BY RegistryNext
<1>3. RegistryInv => RegistryMatches BY RegistryInvMatches
<1> QED BY <1>1, <1>2, <1>3, PTL DEF AccountsSpec
=============================================================================
