---------------------------- MODULE PublishedDay ----------------------------
(***************************************************************************)
(* What a daily batch promises.  The snapshot file of a date is of         *)
(* connections that are recorded for it, under the identities recorded.    *)
(* The batch is completed only when the file is of all connections as they *)
(* are at that moment, and reopened only when one of them is not recorded. *)
(* Connections are edited at any time; progress is lost only when the      *)
(* batch moves to another date.                                            *)
(***************************************************************************)

CONSTANTS
  Accounts,  \* broker connections
  Keys,      \* their identities
  Days,      \* dates a batch may have
  None       \* a connection that is not enabled, or not recorded; no file

VARIABLES
  keys,      \* the present identity of every connection
  date,      \* the date of the batch, 0 before the first one
  synced,    \* the identity each connection is recorded under for that date
  complete,  \* whether the batch is completed
  imported,  \* <<date, connection, identity>> of every import made so far
  files      \* per date: the connections and identities its file is of

vars == <<keys, date, synced, complete, imported, files>>

\* The connections of k, which has some, are recorded.
In(k) == /\ \E a \in Accounts : k[a] # None
         /\ \A a \in Accounts : k[a] # None => synced[a] = k[a]

Init ==
  /\ keys \in [Accounts -> Keys]
  /\ date = 0
  /\ synced = [a \in Accounts |-> None]
  /\ complete = FALSE
  /\ imported = {}
  /\ files = [d \in Days |-> None]

Edit ==
  /\ \E a \in Accounts, k \in Keys \cup {None} : keys' = [keys EXCEPT ![a] = k]
  /\ UNCHANGED <<date, synced, complete, imported, files>>

Begin ==
  /\ date' \in Days \ {date}
  /\ synced' = [a \in Accounts |-> None]
  /\ complete' = FALSE
  /\ UNCHANGED <<keys, imported, files>>

Import ==
  /\ date \in Days
  /\ \E a \in Accounts : keys[a] # None /\ imported' = imported \cup {<<date, a, keys[a]>>}
  /\ UNCHANGED <<keys, date, synced, complete, files>>

Record ==
  /\ ~complete
  /\ \E a \in Accounts, k \in Keys :
       <<date, a, k>> \in imported /\ synced' = [synced EXCEPT ![a] = k]
  /\ UNCHANGED <<keys, date, complete, imported, files>>

Publish ==
  /\ ~complete
  /\ \E k \in [Accounts -> Keys \cup {None}] : In(k) /\ files' = [files EXCEPT ![date] = k]
  /\ UNCHANGED <<keys, date, synced, complete, imported>>

Complete ==
  /\ ~complete /\ complete' = TRUE
  /\ In(keys) /\ files[date] = keys
  /\ UNCHANGED <<keys, date, synced, imported, files>>

Reopen ==
  /\ complete /\ complete' = FALSE
  /\ ~In(keys)
  /\ UNCHANGED <<keys, date, synced, imported, files>>

Next == Edit \/ Begin \/ Import \/ Record \/ Publish \/ Complete \/ Reopen

Spec == Init /\ [][Next]_vars
=============================================================================
