------------------------------ MODULE DailySync ------------------------------
(***************************************************************************)
(* The daily batch of one investor (brokers/daily-sync.ts): several        *)
(* scheduler processes tick, each with the date it read when its tick      *)
(* began; one of them claims the batch in the investor document, imports   *)
(* every eligible account, records progress and captures the snapshot of   *)
(* the batch's date.                                                       *)
(*                                                                         *)
(* One attempt at one account is BrokerSync's business; here it is an      *)
(* outcome: whole, deferred (part of the answer could not be read and the  *)
(* previous values stay), or failed.                                       *)
(***************************************************************************)
EXTENDS Naturals, FiniteSets

CONSTANTS
    Runners,       \* scheduler processes
    Accounts,      \* broker connections
    Keys,          \* identities: <<broker, source, account, channel>>
    None,
    MaxDay,        \* bound: Singapore days
    MaxEdits,      \* bound: edits of a connection
    MaxCrashes,    \* bound: crashes of a process
    MaxOthers,     \* bound: failed or deferred attempts outside the batch
    LeaseOutlives  \* whether every run of a batch ends within its six hours

Days == 1..MaxDay

\* The stored batch.  "lease" and "retry" say that lease_until and retry_after
\* are present.
Batch == [date : Days, synced : [Accounts -> Keys \cup {None}],
          completed : BOOLEAN, lease : BOOLEAN, retry : BOOLEAN]

\* The part of the investor document a batch reads or writes.  A key of None
\* stands for a connection that is paused or not bound.
Document == [keys : [Accounts -> Keys \cup {None}], deferred : SUBSET Accounts,
             batch : Batch \cup {None}]

\* What a snapshot file is of: the connections, with their identities, in the
\* document it was computed from.
Coverage == [Accounts -> Keys \cup {None}]

ASSUME NoneAssumption == /\ None \notin Keys /\ None \notin Batch
                         /\ None \notin Document /\ None \notin Coverage
ASSUME BoundAssumption ==
    /\ MaxDay \in Nat \ {0} /\ MaxEdits \in Nat /\ MaxCrashes \in Nat
    /\ MaxOthers \in Nat /\ LeaseOutlives \in BOOLEAN

VARIABLES
    doc,        \* the investor document, as the database holds it
    leasePast,  \* the stored lease_until is in the past
    retryPast,  \* the stored retry_after is in the past
    day, due,   \* Singapore day, and whether its batch minute has come
    snapshots,  \* per date: what its snapshot file is of, or None
    pc,         \* where each runner is
    tick,       \* the day and due flag a runner read when its tick began
    copy, fresh,  \* the document a runner loaded, and whether it is still current
    date,       \* the date of the batch a runner claimed
    eligible,   \* the accounts a runner found at its claim, with their keys
    todo, at,   \* accounts a runner has still to visit, and the one it is visiting
    edits, crashes, others

\* Observer variables.
VARIABLES
    claims,     \* runners at work whose six hours are not over
    imported,   \* <<date, account, key>> of every import made for a batch
    partial     \* accounts whose last saved import was deferred

envVars == <<day, due, edits, crashes, others>>
timeVars == <<leasePast, retryPast>>
runVars == <<pc, tick, date, eligible, todo, at>>
copyVars == <<copy, fresh>>
ghostVars == <<claims, imported, partial>>
vars == <<doc, timeVars, snapshots, envVars, runVars, copyVars, ghostVars>>

Working == {"loop", "sync", "progressLoad", "progressSave", "complete",
            "capture", "releaseLoad", "releaseSave"}

-----------------------------------------------------------------------------
Eligible(d) == {a \in Accounts : d.keys[a] # None}

\* Mutant: the date is the UTC one.
NewUtcBatch(d) == [date |-> d - 1, synced |-> [a \in Accounts |-> None],
                   completed |-> FALSE, lease |-> FALSE, retry |-> FALSE]

NewBatch(d) == [date |-> d, synced |-> [a \in Accounts |-> None],
                completed |-> FALSE, lease |-> FALSE, retry |-> FALSE]

\* Mutant: a lease is given up by its runner only.
WaitingForRunner(b) == b # None /\ (b.lease \/ (b.retry /\ ~retryPast))

\* Whether a tick may not touch the stored batch yet.
Waiting(b) == /\ b # None
              /\ \/ b.lease /\ ~leasePast
                 \/ b.retry /\ ~retryPast

\* Mutant: an unfinished batch of the day starts over.
StartsAfresh(b, t) == b # None => ~b.completed \/ (b.date # t.day /\ t.due)

\* Whether the tick replaces the stored batch, and the batch it goes on with.
Replaces(b, t) == b # None => b.date # t.day /\ (b.completed \/ t.due)

BatchFor(b, t) == IF Replaces(b, t) THEN NewBatch(t.day) ELSE b

\* Mutant: the identity an account was synced under does not matter.
AllSyncedOnce(d, b) == \A a \in Eligible(d) : b.synced[a] # None

AllSynced(d, b) == \A a \in Eligible(d) : b.synced[a] = d.keys[a]

\* finishBrokerSyncBatch: what may be published as a complete snapshot.
Publishable(d) ==
    /\ Eligible(d) \cap d.deferred = {}
    /\ Eligible(d) # {}
    /\ AllSynced(d, d.batch)

\* Mutant: a save ignores the revision.
SaveAnyway(r) == TRUE

\* saveInvestor finds the revision it loaded.
Current(r) == fresh[r]

Goto(r, l) == pc' = [pc EXCEPT ![r] = l]

Load(r, d) == /\ copy' = [copy EXCEPT ![r] = d]
              /\ fresh' = [fresh EXCEPT ![r] = TRUE]

Drop(r) == /\ copy' = [copy EXCEPT ![r] = None]
           /\ fresh' = [fresh EXCEPT ![r] = FALSE]

\* Every other copy of the document is out of date once one was saved.
Save(r) == /\ Current(r)
           /\ doc' = copy[r]
           /\ copy' = [copy EXCEPT ![r] = None]
           /\ fresh' = [x \in Runners |-> FALSE]

Idle(r) ==
    /\ Goto(r, "idle")
    /\ tick' = [tick EXCEPT ![r] = [day |-> 1, due |-> FALSE]]
    /\ date' = [date EXCEPT ![r] = 0]
    /\ eligible' = [eligible EXCEPT ![r] = [a \in Accounts |-> None]]
    /\ todo' = [todo EXCEPT ![r] = {}]
    /\ at' = [at EXCEPT ![r] = None]
    /\ claims' = claims \ {r}

-----------------------------------------------------------------------------
Init ==
    /\ doc \in [keys : [Accounts -> Keys], deferred : {{}}, batch : {None}]
    /\ leasePast = FALSE /\ retryPast = FALSE
    /\ day = 1 /\ due = FALSE
    /\ snapshots = [d \in Days |-> None]
    /\ pc = [r \in Runners |-> "idle"]
    /\ tick = [r \in Runners |-> [day |-> 1, due |-> FALSE]]
    /\ copy = [r \in Runners |-> None]
    /\ fresh = [r \in Runners |-> FALSE]
    /\ date = [r \in Runners |-> 0]
    /\ eligible = [r \in Runners |-> [a \in Accounts |-> None]]
    /\ todo = [r \in Runners |-> {}]
    /\ at = [r \in Runners |-> None]
    /\ edits = 0 /\ crashes = 0 /\ others = 0
    /\ claims = {} /\ imported = {} /\ partial = {}

-----------------------------------------------------------------------------
(* A tick of one scheduler process.                                        *)

\* The date and the due flag are fixed before any network work; other users and
\* the retry scan come between them and this investor.
Tick(r) ==
    /\ pc[r] = "idle"
    /\ tick' = [tick EXCEPT ![r] = [day |-> day, due |-> due]]
    /\ Goto(r, "load")
    /\ UNCHANGED <<doc, timeVars, snapshots, envVars, date, eligible, todo, at,
                   copyVars, ghostVars>>

LoadBatch(r) ==
    LET old == doc.batch
        new == BatchFor(old, tick[r])
        leave == \/ Eligible(doc) = {}
                 \/ Waiting(old)
                 \/ Replaces(old, tick[r]) /\ ~tick[r].due
                 \/ new.completed /\ AllSynced(doc, new)
    IN
    /\ pc[r] = "load"
    /\ \/ /\ leave
          /\ Idle(r)
          /\ UNCHANGED copyVars
       \/ /\ ~leave
          /\ Load(r, [doc EXCEPT !.batch = [new EXCEPT !.completed = FALSE,
                                                       !.lease = TRUE]])
          /\ Goto(r, "claim")
          /\ UNCHANGED <<tick, date, eligible, todo, at, claims>>
    /\ UNCHANGED <<doc, timeVars, snapshots, envVars, imported, partial>>

\* The claim: saved under the revision that was loaded.
Claim(r) ==
    LET b == copy[r].batch IN
    /\ pc[r] = "claim"
    /\ Save(r)
    /\ leasePast' = FALSE
    /\ retryPast' = (b.retry /\ retryPast)
    /\ date' = [date EXCEPT ![r] = b.date]
    /\ eligible' = [eligible EXCEPT ![r] = copy[r].keys]
    /\ todo' = [todo EXCEPT ![r] =
                  {a \in Eligible(copy[r]) : b.synced[a] # copy[r].keys[a]}]
    /\ Goto(r, "loop")
    /\ claims' = claims \cup {r}
    /\ UNCHANGED <<snapshots, envVars, tick, at, imported, partial>>

ClaimFails(r) ==
    /\ pc[r] = "claim"
    /\ Idle(r)
    /\ Drop(r)
    /\ UNCHANGED <<doc, timeVars, snapshots, envVars, imported, partial>>

\* An account whose identity changed, or that another call is syncing, is left
\* for the retry.
SkipAccount(r, a) ==
    /\ pc[r] = "loop"
    /\ a \in todo[r]
    /\ todo' = [todo EXCEPT ![r] = @ \ {a}]
    /\ UNCHANGED <<doc, timeVars, snapshots, envVars, pc, tick, date, eligible, at,
                   copyVars, ghostVars>>

VisitAccount(r, a) ==
    /\ pc[r] = "loop"
    /\ a \in todo[r]
    /\ doc.keys[a] = eligible[r][a]
    /\ at' = [at EXCEPT ![r] = a]
    /\ Goto(r, "sync")
    /\ UNCHANGED <<doc, timeVars, snapshots, envVars, tick, date, eligible, todo,
                   copyVars, ghostVars>>

\* A saved import says in last_sync which sections it deferred, a failure saves a
\* last_sync without them.
Attempt(a, outcome) ==
    /\ doc' = [doc EXCEPT !.deferred = IF outcome = "deferred" THEN @ \cup {a}
                                       ELSE @ \ {a}]
    /\ fresh' = [x \in Runners |-> FALSE]
    /\ partial' = CASE outcome = "whole" -> partial \ {a}
                    [] outcome = "deferred" -> partial \cup {a}
                    [] outcome = "failed" -> partial
    /\ UNCHANGED copy

\* syncBrokerAccount saves into the connection it was called for, or not at all.
Import(r, outcome) ==
    LET a == at[r] IN
    /\ pc[r] = "sync"
    /\ doc.keys[a] = eligible[r][a]
    /\ outcome \in {"whole", "deferred"}
    /\ Attempt(a, outcome)
    /\ imported' = imported \cup {<<date[r], a, eligible[r][a]>>}
    /\ Goto(r, "progressLoad")
    /\ UNCHANGED <<timeVars, snapshots, envVars, tick, date, eligible, todo, at, claims>>

NextAccount(r) ==
    /\ Goto(r, "loop")
    /\ todo' = [todo EXCEPT ![r] = @ \ {at[r]}]
    /\ at' = [at EXCEPT ![r] = None]
    /\ UNCHANGED <<tick, date, eligible>>

\* The failure is recorded while the connection has the binding of the call, which
\* a pause does not change.
ImportFails(r) ==
    LET a == at[r] IN
    /\ pc[r] = "sync"
    /\ \/ /\ doc.keys[a] \in {None, eligible[r][a]}
          /\ Attempt(a, "failed")
       \/ UNCHANGED <<doc, copyVars, partial>>
    /\ NextAccount(r)
    /\ UNCHANGED <<timeVars, snapshots, envVars, claims, imported>>

LoadProgress(r) ==
    /\ pc[r] = "progressLoad"
    /\ \/ /\ doc.batch.date = date[r]
          /\ Load(r, [doc EXCEPT !.batch.synced[at[r]] = eligible[r][at[r]]])
          /\ Goto(r, "progressSave")
          /\ UNCHANGED <<tick, date, eligible, todo, at>>
       \/ /\ doc.batch.date # date[r]
          /\ NextAccount(r)
          /\ UNCHANGED copyVars
    /\ UNCHANGED <<doc, timeVars, snapshots, envVars, ghostVars>>

SaveProgress(r) ==
    /\ pc[r] = "progressSave"
    /\ Save(r)
    /\ NextAccount(r)
    /\ UNCHANGED <<timeVars, snapshots, envVars, ghostVars>>

ProgressFails(r) ==
    /\ pc[r] = "progressSave"
    /\ Drop(r)
    /\ NextAccount(r)
    /\ UNCHANGED <<doc, timeVars, snapshots, envVars, ghostVars>>

-----------------------------------------------------------------------------
(* The end of a run.                                                       *)

\* The document is reloaded; its own batch, whichever that is now, decides.
StartCapture(r) ==
    /\ pc[r] = "loop"
    /\ todo[r] = {}
    /\ Publishable(doc)
    /\ Load(r, doc)
    /\ Goto(r, "capture")
    /\ UNCHANGED <<doc, timeVars, snapshots, envVars, tick, date, eligible, todo, at,
                   ghostVars>>

\* Prices and exchange rates have come, minutes after the check: the file of the
\* claimed date is written from the loaded document, whatever is stored by now, and
\* the batch is marked in that document.
Capture(r) ==
    /\ pc[r] = "capture"
    /\ snapshots' = [snapshots EXCEPT ![date[r]] = copy[r].keys]
    /\ copy' = [copy EXCEPT ![r] = [@ EXCEPT !.batch.completed = TRUE,
                                            !.batch.retry = FALSE,
                                            !.batch.lease = FALSE]]
    /\ Goto(r, "complete")
    /\ UNCHANGED <<doc, timeVars, envVars, tick, date, eligible, todo, at, fresh,
                   ghostVars>>

\* No prices, no rates or an incomplete value: there is no file.
CaptureFails(r) ==
    /\ pc[r] = "capture"
    /\ Drop(r)
    /\ Goto(r, "releaseLoad")
    /\ UNCHANGED <<doc, timeVars, snapshots, envVars, tick, date, eligible, todo, at,
                   ghostVars>>

RetryLater(b) == [b EXCEPT !.retry = TRUE, !.lease = FALSE]

Withhold(r) ==
    /\ pc[r] = "loop"
    /\ todo[r] = {}
    /\ ~Publishable(doc)
    /\ Load(r, [doc EXCEPT !.batch = RetryLater(@)])
    /\ Goto(r, "complete")
    /\ UNCHANGED <<doc, timeVars, snapshots, envVars, tick, date, eligible, todo, at,
                   ghostVars>>

\* The run ends with this save: the lease is gone, a retry_after is a new one.
SaveEnd(r) ==
    /\ Save(r)
    /\ leasePast' = FALSE /\ retryPast' = FALSE
    /\ Idle(r)
    /\ UNCHANGED <<snapshots, envVars, imported, partial>>

Complete(r) == pc[r] = "complete" /\ SaveEnd(r)

\* The calculations of a written snapshot's totals fail, or the save is refused.
CompleteFails(r) ==
    /\ pc[r] = "complete"
    /\ Drop(r)
    /\ Goto(r, "releaseLoad")
    /\ UNCHANGED <<doc, timeVars, snapshots, envVars, tick, date, eligible, todo, at,
                   ghostVars>>

ReleaseLoad(r) ==
    /\ pc[r] = "releaseLoad"
    /\ Load(r, [doc EXCEPT !.batch = RetryLater(@)])
    /\ Goto(r, "releaseSave")
    /\ UNCHANGED <<doc, timeVars, snapshots, envVars, tick, date, eligible, todo, at,
                   ghostVars>>

Release(r) == pc[r] = "releaseSave" /\ SaveEnd(r)

\* A release that cannot be saved leaves the lease to its expiry.
ReleaseFails(r) ==
    /\ pc[r] = "releaseSave"
    /\ Drop(r)
    /\ Idle(r)
    /\ UNCHANGED <<doc, timeVars, snapshots, envVars, imported, partial>>

-----------------------------------------------------------------------------
(* The environment.                                                        *)

MayExpire == LeaseOutlives => \A r \in Runners : pc[r] \notin Working

ExpireLease ==
    /\ doc.batch # None
    /\ doc.batch.lease /\ ~leasePast
    /\ MayExpire
    /\ leasePast' = TRUE
    /\ claims' = {}
    /\ UNCHANGED <<doc, retryPast, snapshots, envVars, runVars, copyVars, imported,
                   partial>>

RetryPasses ==
    /\ doc.batch # None
    /\ doc.batch.retry /\ ~retryPast
    /\ retryPast' = TRUE
    /\ UNCHANGED <<doc, leasePast, snapshots, envVars, runVars, copyVars, ghostVars>>

Clock ==
    /\ \/ ~due /\ due' = TRUE /\ UNCHANGED day
       \/ due /\ day < MaxDay /\ day' = day + 1 /\ due' = FALSE
    /\ UNCHANGED <<doc, timeVars, snapshots, edits, crashes, others, runVars, copyVars,
                   ghostVars>>

\* A user pauses, resumes, links or rebinds a connection.
EditAccount(a, k) ==
    /\ edits < MaxEdits
    /\ edits' = edits + 1
    /\ k # doc.keys[a]
    /\ doc' = [doc EXCEPT !.keys[a] = k]
    /\ fresh' = [r \in Runners |-> FALSE]
    /\ UNCHANGED <<timeVars, snapshots, day, due, crashes, others, runVars, copy,
                   ghostVars>>

\* A manual sync or the retry scheduler attempts an account outside the batch.
OtherSync(a, outcome) ==
    /\ doc.keys[a] # None
    /\ outcome = "whole" \/ others < MaxOthers
    /\ others' = IF outcome = "whole" THEN others ELSE others + 1
    /\ Attempt(a, outcome)
    /\ UNCHANGED <<timeVars, snapshots, day, due, edits, crashes, runVars, claims,
                   imported>>

\* A process dies and comes back: the stored lease stays.
Crash(r) ==
    /\ crashes < MaxCrashes
    /\ pc[r] # "idle"
    /\ crashes' = crashes + 1
    /\ Idle(r)
    /\ Drop(r)
    /\ UNCHANGED <<doc, timeVars, snapshots, day, due, edits, others, imported, partial>>

-----------------------------------------------------------------------------
Run(r) ==
    \/ Tick(r) \/ LoadBatch(r) \/ Claim(r) \/ ClaimFails(r)
    \/ \E a \in Accounts : SkipAccount(r, a) \/ VisitAccount(r, a)
    \/ \E outcome \in {"whole", "deferred"} : Import(r, outcome)
    \/ ImportFails(r) \/ LoadProgress(r) \/ SaveProgress(r) \/ ProgressFails(r)
    \/ StartCapture(r) \/ Capture(r) \/ CaptureFails(r) \/ Withhold(r)
    \/ Complete(r) \/ CompleteFails(r) \/ ReleaseLoad(r)
    \/ Release(r) \/ ReleaseFails(r)

Environment ==
    \/ ExpireLease \/ RetryPasses \/ Clock
    \/ \E a \in Accounts, k \in Keys \cup {None} : EditAccount(a, k)
    \/ \E a \in Accounts, outcome \in {"whole", "deferred", "failed"} :
          OtherSync(a, outcome)
    \/ \E r \in Runners : Crash(r)

Next == (\E r \in Runners : Run(r)) \/ Environment

Spec == Init /\ [][Next]_vars

\* Processes are scheduled and time passes; after an outage the brokers, the
\* database, the market and the calculations answer again; not every capture is
\* overtaken by another save of the document; and the retry of a deferred account
\* ends in a whole import (what BrokerSync's IntentsDrain promises).
Fairness ==
    /\ \A r \in Runners :
          /\ WF_vars(Run(r))
          /\ SF_vars(Claim(r))
          /\ \A a \in Accounts : SF_vars(VisitAccount(r, a))
          /\ SF_vars(Import(r, "whole") \/ Import(r, "deferred"))
          /\ SF_vars(SaveProgress(r))
          /\ SF_vars(Current(r) /\ Capture(r))
          /\ SF_vars(Complete(r))
    /\ \A a \in Accounts : SF_vars(a \in partial /\ OtherSync(a, "whole"))
    /\ WF_vars(ExpireLease)
    /\ WF_vars(RetryPasses)
    /\ WF_vars(Clock)

FairSpec == Spec /\ Fairness

-----------------------------------------------------------------------------
(* The abstract batch this one implements: the stored date and progress,     *)
(* whether it is completed, and what the snapshot files are of.              *)

BatchDate == IF doc.batch = None THEN 0 ELSE doc.batch.date
Progress == IF doc.batch = None THEN [a \in Accounts |-> None] ELSE doc.batch.synced
Completed == doc.batch # None /\ doc.batch.completed

Day == INSTANCE PublishedDay
         WITH keys <- doc.keys, date <- BatchDate, synced <- Progress, complete <- Completed,
              files <- snapshots

-----------------------------------------------------------------------------
(* Properties.                                                             *)

\* Types of all variables.
TypeOK ==
    /\ doc \in Document
    /\ leasePast \in BOOLEAN /\ retryPast \in BOOLEAN
    /\ day \in Days /\ due \in BOOLEAN
    /\ snapshots \in [Days -> Coverage \cup {None}]
    /\ pc \in [Runners -> Working \cup {"idle", "load", "claim"}]
    /\ tick \in [Runners -> [day : Days, due : BOOLEAN]]
    /\ copy \in [Runners -> Document \cup {None}]
    /\ fresh \in [Runners -> BOOLEAN]
    /\ date \in [Runners -> 0..MaxDay]
    /\ eligible \in [Runners -> [Accounts -> Keys \cup {None}]]
    /\ todo \in [Runners -> SUBSET Accounts]
    /\ at \in [Runners -> Accounts \cup {None}]
    /\ edits \in 0..MaxEdits /\ crashes \in 0..MaxCrashes /\ others \in 0..MaxOthers
    /\ claims \in SUBSET Runners
    /\ imported \in SUBSET (Days \X Accounts \X Keys)
    /\ partial \in SUBSET Accounts

\* Two runners never work on the investor's batch under claims that are both in
\* force: the claim, made under the revision, keeps another scheduler out.
OneLiveClaim == Cardinality(claims) <= 1

\* The snapshot file of a date is of connections each of which was imported by that
\* date's batch under the identity the file gives it, although accounts are rebound,
\* linked and paused while the batch runs and while the snapshot's prices are
\* fetched, and the batch is resumed by another process after a crash.
SnapshotImported ==
    \A d \in Days : snapshots[d] # None =>
        /\ \E a \in Accounts : snapshots[d][a] # None
        /\ \A a \in Accounts : snapshots[d][a] # None => <<d, a, snapshots[d][a]>> \in imported

\* Progress recorded for a date is kept as long as the batch has that date:
\* failures, crashes, resumption and a lost race of two saves do not cause a
\* successful account to be imported again.
ProgressKept ==
    [][LET b == doc.batch IN
       b # None /\ doc'.batch.date = b.date =>
           \A a \in Accounts : b.synced[a] # None => doc'.batch.synced[a] # None]_vars

\* Schedulers that race, resume, fail and crash, and users that rebind and pause,
\* act together as one batch: a file is of connections the date's batch has recorded;
\* the batch is completed only when the file is of all connections as they are at
\* that moment, whatever was edited between its check, its file and its save; and no
\* late save undoes its progress or an edit of a connection.
DayPublished == Day!Spec

\* A batch is completed only when every section of every account has been recovered.
SnapshotWhole ==
    [][doc'.batch # None /\ doc'.batch.completed /\ ~Completed =>
           Eligible(doc) \cap partial = {}]_vars

\* Once the batch minute of the last day has come, the batch of that day completes,
\* whatever failed or crashed before, unless no account is left to sync.
LastDayCompletes ==
    day = MaxDay /\ due
       ~> \/ Eligible(doc) = {}
          \/ doc.batch # None /\ doc.batch.date = MaxDay /\ doc.batch.completed
=============================================================================
