--------------------------- MODULE ConfigRegister ---------------------------
(***************************************************************************)
(* What the configuration manager promises of every key that has a value   *)
(* of its own: a stored override per key, the value the program runs with, *)
(* and requests that change both.  A request first writes its entries one  *)
(* by one and only then puts them into force, all of them at once; until   *)
(* that step the running configuration shows none of them, and a key it    *)
(* does not name keeps its value or, at worst, goes back to the one it had *)
(* when the request was checked.  After a restart the stored overrides,    *)
(* laid over the file, are what runs.                                      *)
(***************************************************************************)
CONSTANTS Keys, Values, Requests, File, NoRow, Keep, Idle

VARIABLES stored, running, pending

vars == <<stored, running, pending>>

\* The configuration made of what is stored over what the file says.
Overlaid == [k \in Keys |-> IF stored[k] = NoRow THEN File[k] ELSE stored[k]]

Named(entries) == {k \in Keys : entries[k] # Keep}

Laid(entries, over) ==
  [k \in Keys |-> IF entries[k] = Keep THEN over[k] ELSE entries[k]]

Init == /\ stored = [k \in Keys |-> NoRow]
        /\ running = File
        /\ pending = [r \in Requests |-> Idle]

\* The request may ask for any entries: the step constrains the value it ends with.
Begin(r) ==
  /\ pending[r] = Idle
  /\ pending'[r] # Idle
  /\ pending'[r].entries \in [Keys -> Values \cup {Keep}]
  /\ pending' = [pending EXCEPT ![r] =
                   [entries |-> pending'[r].entries,
                    target  |-> Laid(pending'[r].entries, running),
                    written |-> {},
                    erases  |-> pending'[r].erases]]
  /\ UNCHANGED <<stored, running>>

Store(r, k) ==
  /\ pending[r] # Idle
  /\ k \in Named(pending[r].entries) \ pending[r].written
  /\ stored' = [stored EXCEPT ![k] = IF pending[r].erases THEN NoRow
                                     ELSE pending[r].entries[k]]
  /\ pending' = [pending EXCEPT ![r].written = @ \cup {k}]
  /\ UNCHANGED running

Activate(r) ==
  /\ pending[r] # Idle
  /\ pending[r].written = Named(pending[r].entries)
  /\ running' \in {pending[r].target, Laid(pending[r].entries, running)}
  /\ pending' = [pending EXCEPT ![r] = Idle]
  /\ UNCHANGED stored

Abandon(r) == /\ pending[r] # Idle
              /\ pending' = [pending EXCEPT ![r] = Idle]
              /\ UNCHANGED <<stored, running>>

Restart == /\ running' = Overlaid
           /\ pending' = [r \in Requests |-> Idle]
           /\ UNCHANGED stored

Next == \/ \E r \in Requests :
             Begin(r) \/ Activate(r) \/ Abandon(r) \/ \E k \in Keys : Store(r, k)
        \/ Restart

Spec == Init /\ [][Next]_vars
=============================================================================
