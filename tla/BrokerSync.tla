----------------------------- MODULE BrokerSync -----------------------------
(***************************************************************************)
(* One broker connection of one investor, synchronised by several calls    *)
(* (settings API, agent tools, the daily batch, the minute scheduler) that *)
(* run in several operating-system processes.                              *)
(*                                                                         *)
(* Three stores meet here.  The investor document is a database row saved  *)
(* under an optimistic revision.  The retry intent is a file that survives *)
(* crashes; Full requests that arrive while another attempt runs are       *)
(* separate immutable files beside it.  The lease is a kernel flock that   *)
(* dies with its process.  A call reads the document long before it takes  *)
(* the lease, and talks to the broker for minutes before it saves.         *)
(***************************************************************************)
EXTENDS Naturals, FiniteSets

CONSTANTS
    Users,       \* calls made by users, tools and the daily batch
    Scheduler,   \* the one active tick of the retry scheduler
    Pids,        \* process ids; a dead one may be reused by a new process
    Ids,         \* ids of intents and requests (randomUUID)
    Bindings,    \* values of <<broker, account, channel, source>>
    None,        \* "no such thing"
    MaxRequests, \* bound: Full request files at a time
    MaxEdits,    \* bound: edits that pause, resume or rebind the connection
    MaxCrashes,  \* bound: process crashes
    OtherSaves   \* bound: whether other parts of the server save the document

Callers == Users \cup {Scheduler}

\* What an fsynced intent file holds.  "elapsed" says that retryAt has passed.
Intent == [id : Ids, binding : Bindings, full : BOOLEAN, request : BOOLEAN,
           fullRequests : SUBSET Ids, ownerPid : Pids \cup {None},
           elapsed : BOOLEAN]

\* The part of the investor document a sync reads or writes.  "data" is the
\* binding whose holdings, cash or history the channel holds.
Document == [binding : Bindings, enabled : BOOLEAN,
             last_sync : {"none", "ok", "failed"}, data : Bindings \cup {None}]

\* What a call knows of the connection from the document it was given.
Snapshot == [binding : Bindings, enabled : BOOLEAN]

ASSUME NoneAssumption ==
    /\ None \notin Callers
    /\ None \notin Pids
    /\ None \notin Bindings
    /\ None \notin Intent \cup Document \cup Snapshot
    /\ Scheduler \notin Users
ASSUME BoundAssumption ==
    /\ MaxRequests \in Nat /\ MaxEdits \in Nat /\ MaxCrashes \in Nat
    /\ OtherSaves \in BOOLEAN

VARIABLES
    doc,       \* the investor document, as the database holds it
    main,      \* the intent file of the connection, or None
    requests,  \* the Full request files of the connection
    lease,     \* the call that holds the flock, or None
    alive,     \* the process ids that are running
    pc,        \* where each call is
    pid,       \* the process that runs the call
    seen,      \* the binding and enabled flag in the snapshot the call was given
    full,      \* whether the call asks for a full history
    intent,    \* the job the call works on: its own intent or the scheduler's pick
    copy,      \* the document as last loaded by the call
    fresh,     \* whether that copy still carries the stored revision
    tries,     \* revision conflicts met by the attempt so far
    complete,  \* the attempt may clear its intent
    edits, crashes

\* Observer variables: what was promised and is not delivered yet.
VARIABLES
    queued,    \* per binding: a Full request was queued and is "waiting" for an
               \* attempt to begin, or "taken" by the attempt under way
    started    \* per binding: a full attempt began, none has completed since, the
               \* work was not cancelled, and no attempt of another binding began

docVars == <<doc, copy, fresh>>
diskVars == <<main, requests>>
callVars == <<pc, pid, seen, full, intent, tries, complete>>
ghostVars == <<queued, started>>
vars == <<docVars, diskVars, lease, alive, callVars, edits, crashes, ghostVars>>

-----------------------------------------------------------------------------
(* The intent files: brokers/sync-retries.ts.                              *)

\* randomUUID: an id no file and no call's memory mentions.
FreeIds ==
    LET held(j) == IF j = None THEN {} ELSE {j.id} \cup j.fullRequests
    IN  Ids \ (held(main) \cup {r.id : r \in requests}
                 \cup UNION {held(intent[c]) : c \in Callers})

RequestsFor(b) == {r \in requests : r.binding = b}

\* Mutant: the mode of the retry file is that of the last attempt.
ForgetPriorFull(b) == FALSE

PriorFull(b) == main # None /\ main.binding = b /\ main.full

\* beginBrokerSync: a retry of the same binding stays full once it was full, and
\* captures the requests it is going to acknowledge.
BeginIntent(i, b, asked, p) ==
    [id |-> i, binding |-> b, request |-> FALSE,
     full |-> asked \/ PriorFull(b) \/ RequestsFor(b) # {},
     fullRequests |-> {r.id : r \in RequestsFor(b)},
     ownerPid |-> p, elapsed |-> FALSE]

FullRequest(i, b) ==
    [id |-> i, binding |-> b, request |-> TRUE, full |-> TRUE,
     fullRequests |-> {}, ownerPid |-> None, elapsed |-> FALSE]

\* The file a job came from still holds that job.
OwnsMain(job) == /\ ~job.request
                 /\ main # None
                 /\ main.id = job.id

\* Mutant: a completed attempt clears every request of the connection.
WithoutAny(ids) == {}

Without(ids) == {r \in requests : r.id \notin ids}

\* The end of an attempt that leaves work to do: no owner, a new retryAt.
Backoff(job) == [job EXCEPT !.ownerPid = None, !.elapsed = FALSE]

\* dueBrokerSyncs.  A main intent governs timing; a request counts without one.
Abandoned(job) == job.ownerPid # None /\ job.ownerPid \notin alive
Due(job) == Abandoned(job) \/ job.elapsed

\* Mutant: only main intents are looked for.
MainJobs == IF main = None THEN {} ELSE {main}

Jobs == IF main = None THEN requests ELSE {main}

-----------------------------------------------------------------------------
\* Mutant: the lease does not exclude anybody.
LeaseIgnored == TRUE

\* flock -n on the connection's lock file succeeds.
LeaseFree == lease = None

\* Mutant: the work of a paused connection is tried again and again.
MovedAway(b) == doc.binding # b

Obsolete(b) == ~doc.enabled \/ doc.binding # b

\* Mutant: an answer is applied to a connection paused in the meantime.
SameBinding(c) == doc.binding = seen[c].binding

\* The check of the apply loop on the reloaded connection.
StillSelected(c) == doc.enabled /\ doc.binding = seen[c].binding

\* Mutant: a connection is taken for unused unless its last sync was a success.
LastSyncNotOk == doc.last_sync # "ok"

\* patchBrokerAccount lets a connection move to another account only while
\* nothing has been imported on its channel.
CanRebind == doc.last_sync # "ok" /\ doc.data = None

\* Mutant: one conflict too many is retried.
MayReapplyOnceMore(c) == tries[c] <= 2

\* Three tries of the same answer in all.
MayReapply(c) == tries[c] < 2

Attempt == {"begin", "fetch", "load", "save", "failed", "record", "ack",
            "forget", "notify"}
Cancelling == {"revalidate", "cancel", "cancelForget"}
Locals == {"idle", "picked", "obsolete", "called", "busy"}

\* The program counters between the write of the intent and its release.
Running == Attempt \ {"begin"}

Idle(c) ==
    /\ pc' = [pc EXCEPT ![c] = "idle"]
    /\ pid' = [pid EXCEPT ![c] = None]
    /\ seen' = [seen EXCEPT ![c] = None]
    /\ full' = [full EXCEPT ![c] = FALSE]
    /\ intent' = [intent EXCEPT ![c] = None]
    /\ tries' = [tries EXCEPT ![c] = 0]
    /\ complete' = [complete EXCEPT ![c] = FALSE]

Goto(c, l) == pc' = [pc EXCEPT ![c] = l]

\* An attempt that ends without success leaves what it took waiting.
Untake == queued' = [b \in Bindings |->
                       IF queued[b] = "taken" THEN "waiting" ELSE queued[b]]

-----------------------------------------------------------------------------
Init ==
    /\ doc \in [binding : Bindings, enabled : {TRUE},
                last_sync : {"none"}, data : {None}]
    /\ main = None
    /\ requests = {}
    /\ lease = None
    /\ alive = Pids
    /\ pc = [c \in Callers |-> "idle"]
    /\ pid = [c \in Callers |-> None]
    /\ seen = [c \in Callers |-> None]
    /\ full = [c \in Callers |-> FALSE]
    /\ intent = [c \in Callers |-> None]
    /\ copy = [c \in Callers |-> None]
    /\ fresh = [c \in Callers |-> FALSE]
    /\ tries = [c \in Callers |-> 0]
    /\ complete = [c \in Callers |-> FALSE]
    /\ edits = 0
    /\ crashes = 0
    /\ queued = [b \in Bindings |-> "none"]
    /\ started = [b \in Bindings |-> FALSE]

-----------------------------------------------------------------------------
(* Where calls come from.                                                  *)

\* A route or tool loads the document and calls syncBrokerAccount with it.
UserCall(c, asked) ==
    /\ pc[c] = "idle"
    /\ \E p \in alive : pid' = [pid EXCEPT ![c] = p]
    /\ seen' = [seen EXCEPT ![c] = [binding |-> doc.binding, enabled |-> doc.enabled]]
    /\ full' = [full EXCEPT ![c] = asked]
    /\ Goto(c, "called")
    /\ UNCHANGED <<docVars, diskVars, lease, alive, intent, tries, complete,
                   edits, crashes, ghostVars>>

\* The tick reads the due jobs ...
SchedulerPick(i) ==
    /\ pc[Scheduler] = "idle"
    /\ \E job \in Jobs, p \in alive :
          /\ job.id = i
          /\ Due(job)
          /\ intent' = [intent EXCEPT ![Scheduler] = job]
          /\ pid' = [pid EXCEPT ![Scheduler] = p]
    /\ Goto(Scheduler, "picked")
    /\ UNCHANGED <<docVars, diskVars, lease, alive, seen, full, tries, complete,
                   edits, crashes, ghostVars>>

\* ... then loads the document: obsolete work is cancelled, the rest is synced
\* in the job's own mode.
SchedulerLoad ==
    LET job == intent[Scheduler] IN
    /\ pc[Scheduler] = "picked"
    /\ \/ /\ Obsolete(job.binding)
          /\ Goto(Scheduler, "obsolete")
          /\ UNCHANGED <<seen, full, intent>>
       \/ /\ ~Obsolete(job.binding)
          /\ Goto(Scheduler, "called")
          /\ seen' = [seen EXCEPT ![Scheduler] =
                        [binding |-> doc.binding, enabled |-> doc.enabled]]
          /\ full' = [full EXCEPT ![Scheduler] = job.full]
          /\ intent' = [intent EXCEPT ![Scheduler] = None]
    /\ UNCHANGED <<docVars, diskVars, lease, alive, pid, tries, complete,
                   edits, crashes, ghostVars>>

\* The database cannot be read: the due entry stays for the next tick.
SchedulerLoadFails ==
    /\ pc[Scheduler] = "picked"
    /\ Idle(Scheduler)
    /\ UNCHANGED <<docVars, diskVars, lease, alive, edits, crashes, ghostVars>>

-----------------------------------------------------------------------------
(* Cancellation of obsolete work, under the lease.                         *)

CancelLease ==
    /\ pc[Scheduler] = "obsolete"
    /\ LeaseFree
    /\ lease' = Scheduler
    /\ Goto(Scheduler, "revalidate")
    /\ UNCHANGED <<docVars, diskVars, alive, pid, seen, full, intent, tries,
                   complete, edits, crashes, ghostVars>>

CancelBusy ==
    /\ pc[Scheduler] = "obsolete"
    /\ ~LeaseFree
    /\ Idle(Scheduler)
    /\ UNCHANGED <<docVars, diskVars, lease, alive, edits, crashes, ghostVars>>

Revalidate ==
    /\ pc[Scheduler] = "revalidate"
    /\ \/ /\ Obsolete(intent[Scheduler].binding)
          /\ Goto(Scheduler, "cancel")
          /\ UNCHANGED <<lease, pid, seen, full, intent, tries, complete>>
       \/ /\ ~Obsolete(intent[Scheduler].binding)
          /\ lease' = None
          /\ Idle(Scheduler)
    /\ UNCHANGED <<docVars, diskVars, alive, edits, crashes, ghostVars>>

\* finishBrokerSync(job, true): a request has a file of its own; a main intent
\* goes only while it is still the one that was picked.
Cancel ==
    LET job == intent[Scheduler] IN
    /\ pc[Scheduler] = "cancel"
    /\ \/ /\ job.request
          /\ requests' = Without({job.id})
          /\ queued' = [queued EXCEPT ![job.binding] = "none"]
          /\ UNCHANGED <<main, started>>
       \/ /\ OwnsMain(job)
          /\ main' = None
          /\ started' = [started EXCEPT ![job.binding] = FALSE]
          /\ UNCHANGED <<requests, queued>>
       \/ /\ ~job.request /\ ~OwnsMain(job)
          /\ UNCHANGED <<diskVars, ghostVars>>
    /\ IF OwnsMain(job)
       THEN /\ Goto(Scheduler, "cancelForget")
            /\ UNCHANGED <<lease, pid, seen, full, intent, tries, complete>>
       ELSE /\ lease' = None
            /\ Idle(Scheduler)
    /\ UNCHANGED <<docVars, alive, edits, crashes>>

CancelForget ==
    LET job == intent[Scheduler] IN
    /\ pc[Scheduler] = "cancelForget"
    /\ requests' = Without(job.fullRequests)
    /\ queued' = IF job.fullRequests = {} THEN queued
                 ELSE [queued EXCEPT ![job.binding] = "none"]
    /\ lease' = None
    /\ Idle(Scheduler)
    /\ UNCHANGED <<docVars, main, alive, edits, crashes, started>>

-----------------------------------------------------------------------------
(* One attempt: syncBrokerAccount.                                         *)

AcquireLease(c) ==
    /\ pc[c] = "called"
    /\ LeaseFree
    /\ lease' = c
    /\ Goto(c, "begin")
    /\ UNCHANGED <<docVars, diskVars, alive, pid, seen, full, intent, tries,
                   complete, edits, crashes, ghostVars>>

\* "Sync already in progress.": only a Full call has anything left to do.
LeaseBusy(c) ==
    /\ pc[c] = "called"
    /\ ~LeaseFree
    /\ IF full[c]
       THEN Goto(c, "busy") /\ UNCHANGED <<pid, seen, full, intent, tries, complete>>
       ELSE Idle(c)
    /\ UNCHANGED <<docVars, diskVars, lease, alive, edits, crashes, ghostVars>>

QueueFull(c) ==
    LET b == seen[c].binding IN
    /\ pc[c] = "busy"
    /\ Cardinality(requests) < MaxRequests
    /\ \E i \in FreeIds : requests' = requests \cup {FullRequest(i, b)}
    /\ queued' = [queued EXCEPT ![b] = "waiting"]
    /\ Idle(c)
    /\ UNCHANGED <<docVars, main, lease, alive, edits, crashes, started>>

\* At the bound the model forgoes the call: nothing is queued, nothing promised.
BusyAtBound(c) ==
    /\ pc[c] = "busy"
    /\ Cardinality(requests) >= MaxRequests
    /\ Idle(c)
    /\ UNCHANGED <<docVars, diskVars, lease, alive, edits, crashes, ghostVars>>

\* The intent is durable before any network work, and names its process.
Begin(c) ==
    LET b == seen[c].binding IN
    /\ pc[c] = "begin"
    /\ \E i \in FreeIds :
          LET job == BeginIntent(i, b, full[c], pid[c]) IN
          /\ main' = job
          /\ intent' = [intent EXCEPT ![c] = job]
          /\ full' = [full EXCEPT ![c] = job.full]
          /\ queued' = IF job.full /\ queued[b] = "waiting"
                       THEN [queued EXCEPT ![b] = "taken"] ELSE queued
          /\ started' = [x \in Bindings |-> x = b /\ (started[b] \/ job.full)]
    /\ Goto(c, "fetch")
    /\ UNCHANGED <<docVars, requests, lease, alive, pid, seen, tries, complete,
                   edits, crashes>>

\* The broker answered and the answer is archived.
Fetch(c) ==
    /\ pc[c] = "fetch"
    /\ seen[c].enabled
    /\ Goto(c, "load")
    /\ UNCHANGED <<docVars, diskVars, lease, alive, pid, seen, full, intent, tries,
                   complete, edits, crashes, ghostVars>>

\* A paused connection, missing fields, a broker or parser error.
FetchFails(c) ==
    /\ pc[c] = "fetch"
    /\ Goto(c, "failed")
    /\ UNCHANGED <<docVars, diskVars, lease, alive, pid, seen, full, intent, tries,
                   complete, edits, crashes, ghostVars>>

\* loadInvestor and the check that the connection is still the one fetched.
LoadLatest(c) ==
    /\ pc[c] = "load"
    /\ \/ /\ StillSelected(c)
          /\ copy' = [copy EXCEPT ![c] = doc]
          /\ fresh' = [fresh EXCEPT ![c] = TRUE]
          /\ Goto(c, "save")
       \/ /\ ~StillSelected(c)
          /\ Goto(c, "failed")
          /\ UNCHANGED <<copy, fresh>>
    /\ UNCHANGED <<doc, diskVars, lease, alive, pid, seen, full, intent, tries,
                   complete, edits, crashes, ghostVars>>

\* The whole document is written back, so every other loaded copy is stale.
Store(c, d) ==
    /\ doc' = d
    /\ fresh' = [x \in Callers |-> FALSE]
    /\ copy' = [copy EXCEPT ![c] = None]

\* applyBrokerStatement saves with the revision it loaded.  The statement may be
\* empty, and may defer part of the snapshot or of the history.
Save(c, whole, empty) ==
    LET b == seen[c].binding IN
    /\ pc[c] = "save"
    /\ fresh[c]
    /\ Store(c, [copy[c] EXCEPT !.last_sync = "ok",
                                !.data = IF empty THEN None ELSE b])
    /\ complete' = [complete EXCEPT ![c] = whole]
    /\ queued' = IF whole /\ queued[b] = "taken"
                 THEN [queued EXCEPT ![b] = "none"] ELSE queued
    /\ started' = [started EXCEPT ![b] = @ /\ ~whole]
    /\ Goto(c, "ack")
    /\ UNCHANGED <<diskVars, lease, alive, pid, seen, full, intent, tries, edits,
                   crashes>>

\* A revision conflict reapplies the same answer to a reloaded document, at most
\* three times in all; any other error ends the attempt.
SaveFails(c) ==
    /\ pc[c] = "save"
    /\ copy' = [copy EXCEPT ![c] = None]
    /\ fresh' = [fresh EXCEPT ![c] = FALSE]
    /\ \/ /\ ~fresh[c] /\ MayReapply(c)
          /\ tries' = [tries EXCEPT ![c] = @ + 1]
          /\ Goto(c, "load")
       \/ /\ fresh[c] \/ ~MayReapply(c)
          /\ Goto(c, "failed")
          /\ UNCHANGED tries
    /\ UNCHANGED <<doc, diskVars, lease, alive, pid, seen, full, intent, complete,
                   edits, crashes, ghostVars>>

\* The error path reloads the document and, if the binding is unchanged, records
\* the failure; a read error skips the record.
FailedLoad(c) ==
    /\ pc[c] = "failed"
    /\ \/ /\ doc.binding = seen[c].binding
          /\ copy' = [copy EXCEPT ![c] = doc]
          /\ fresh' = [fresh EXCEPT ![c] = TRUE]
          /\ Goto(c, "record")
       \/ /\ Goto(c, "notify")
          /\ UNCHANGED <<copy, fresh>>
    /\ UNCHANGED <<doc, diskVars, lease, alive, pid, seen, full, intent, tries,
                   complete, edits, crashes, ghostVars>>

RecordFailure(c) ==
    /\ pc[c] = "record"
    /\ IF fresh[c]
       THEN Store(c, [copy[c] EXCEPT !.last_sync = "failed"])
       ELSE /\ copy' = [copy EXCEPT ![c] = None]
            /\ UNCHANGED <<doc, fresh>>
    /\ Goto(c, "notify")
    /\ UNCHANGED <<diskVars, lease, alive, pid, seen, full, intent, tries,
                   complete, edits, crashes, ghostVars>>

\* finishBrokerSync after a saved statement, before the notification: the main
\* file goes first, the requests it captured after it.
Acknowledge(c) ==
    /\ pc[c] = "ack"
    /\ IF ~OwnsMain(intent[c])
       THEN UNCHANGED main /\ Goto(c, "notify")
       ELSE IF complete[c]
       THEN main' = None /\ Goto(c, "forget")
       ELSE main' = Backoff(intent[c]) /\ Goto(c, "notify")
    /\ UNCHANGED <<docVars, requests, lease, alive, pid, seen, full, intent, tries,
                   complete, edits, crashes, ghostVars>>

ForgetRequests(c) ==
    /\ pc[c] = "forget"
    /\ requests' = Without(intent[c].fullRequests)
    /\ Goto(c, "notify")
    /\ UNCHANGED <<docVars, main, lease, alive, pid, seen, full, intent, tries,
                   complete, edits, crashes, ghostVars>>

\* finally: finishBrokerSync once more, then the lease is released.
Release(c) ==
    LET job == intent[c] IN
    /\ pc[c] = "notify"
    /\ IF OwnsMain(job)
       THEN IF complete[c]
            THEN main' = None /\ requests' = Without(job.fullRequests)
            ELSE main' = Backoff(job) /\ UNCHANGED requests
       ELSE UNCHANGED diskVars
    /\ Untake
    /\ lease' = None
    /\ Idle(c)
    /\ UNCHANGED <<docVars, alive, edits, crashes, started>>

-----------------------------------------------------------------------------
(* The environment: time, users, processes.                                *)

\* retryAt of a file passes: six hours for a running attempt, a backoff otherwise.
Elapse(i) ==
    /\ \/ /\ main # None
          /\ main.id = i /\ ~main.elapsed
          /\ main' = [main EXCEPT !.elapsed = TRUE]
          /\ UNCHANGED requests
       \/ \E r \in requests :
             /\ r.id = i /\ ~r.elapsed
             /\ requests' = (requests \ {r}) \cup {[r EXCEPT !.elapsed = TRUE]}
             /\ UNCHANGED main
    /\ UNCHANGED <<docVars, lease, alive, callVars, edits, crashes, ghostVars>>

\* A user edit of the connection loads, changes and saves the document under its
\* revision.
EditConnection(d) ==
    /\ edits < MaxEdits
    /\ edits' = edits + 1
    /\ doc' = d
    /\ fresh' = [c \in Callers |-> FALSE]
    /\ UNCHANGED <<copy, diskVars, lease, alive, callVars, crashes, ghostVars>>

Rebind(b) ==
    CanRebind /\ b # doc.binding /\ EditConnection([doc EXCEPT !.binding = b])

SwitchEnabled == EditConnection([doc EXCEPT !.enabled = ~@])

\* Any other save of the investor document: every loaded copy is out of date.
SaveElsewhere ==
    /\ OtherSaves
    /\ fresh' = [c \in Callers |-> FALSE]
    /\ UNCHANGED <<doc, copy, diskVars, lease, alive, callVars, edits, crashes,
                   ghostVars>>

\* A process dies: its calls are gone, the kernel drops its lease, files stay.
Crash(p) ==
    LET dead(c) == pid[c] = p
        reset(f, v) == [c \in Callers |-> IF dead(c) THEN v ELSE f[c]]
    IN
    /\ p \in alive
    /\ crashes < MaxCrashes
    /\ crashes' = crashes + 1
    /\ alive' = alive \ {p}
    /\ IF lease # None /\ pid[lease] = p
       THEN lease' = None /\ Untake
       ELSE UNCHANGED <<lease, queued>>
    /\ pc' = reset(pc, "idle") /\ pid' = reset(pid, None)
    /\ seen' = reset(seen, None) /\ full' = reset(full, FALSE)
    /\ intent' = reset(intent, None) /\ tries' = reset(tries, 0)
    /\ complete' = reset(complete, FALSE)
    /\ copy' = reset(copy, None) /\ fresh' = reset(fresh, FALSE)
    /\ UNCHANGED <<doc, diskVars, edits, started>>

\* A new process starts, possibly under the id of a dead one.
Spawn(p) ==
    /\ p \notin alive
    /\ alive' = alive \cup {p}
    /\ UNCHANGED <<docVars, diskVars, lease, callVars, edits, crashes, ghostVars>>

-----------------------------------------------------------------------------
Step(c) ==
    \/ AcquireLease(c) \/ LeaseBusy(c) \/ QueueFull(c) \/ BusyAtBound(c)
    \/ Begin(c)
    \/ Fetch(c) \/ FetchFails(c) \/ LoadLatest(c)
    \/ \E whole, empty \in BOOLEAN : Save(c, whole, empty)
    \/ SaveFails(c) \/ FailedLoad(c) \/ RecordFailure(c)
    \/ Acknowledge(c) \/ ForgetRequests(c) \/ Release(c)

SchedulerStep ==
    \/ SchedulerLoad \/ SchedulerLoadFails
    \/ CancelLease \/ CancelBusy \/ Revalidate \/ Cancel \/ CancelForget

Environment ==
    \/ \E i \in Ids : Elapse(i)
    \/ \E b \in Bindings : Rebind(b)
    \/ SwitchEnabled \/ SaveElsewhere
    \/ \E p \in Pids : Crash(p) \/ Spawn(p)

Next ==
    \/ \E c \in Users, asked \in BOOLEAN : UserCall(c, asked)
    \/ \E i \in Ids : SchedulerPick(i)
    \/ SchedulerStep
    \/ \E c \in Callers : Step(c)
    \/ Environment

Spec == Init /\ [][Next]_vars

-----------------------------------------------------------------------------
(* Fairness.  Processes are scheduled and restarted, time passes, and the   *)
(* minute tick comes back while a file is due.  After an outage the broker   *)
(* and the database answer the scheduler again and a statement comes that    *)
(* can be applied whole: the strong fairness of Fetch, SaveWhole and         *)
(* SchedulerLoad.  Users and crashes are under no obligation.                *)

SaveWhole(c) == \E empty \in BOOLEAN : Save(c, TRUE, empty)

Fairness ==
    /\ \A c \in Users : WF_vars(Step(c))
    /\ WF_vars(SchedulerStep \/ Step(Scheduler))
    /\ SF_vars(SchedulerLoad)
    /\ SF_vars(Fetch(Scheduler))
    /\ SF_vars(SaveWhole(Scheduler))
    /\ WF_vars(\E i \in Ids : Elapse(i))
    /\ WF_vars(\E i \in Ids : SchedulerPick(i))
    /\ WF_vars(\E p \in Pids : Spawn(p))

FairSpec == Spec /\ Fairness

-----------------------------------------------------------------------------
(* Properties.                                                             *)

\* Types of all variables.
TypeOK ==
    /\ doc \in Document
    /\ main \in Intent \cup {None}
    /\ requests \in SUBSET Intent
    /\ lease \in Callers \cup {None}
    /\ alive \in SUBSET Pids
    /\ pc \in [Callers -> Attempt \cup Cancelling \cup Locals]
    /\ pid \in [Callers -> Pids \cup {None}]
    /\ seen \in [Callers -> Snapshot \cup {None}]
    /\ full \in [Callers -> BOOLEAN]
    /\ intent \in [Callers -> Intent \cup {None}]
    /\ copy \in [Callers -> Document \cup {None}]
    /\ fresh \in [Callers -> BOOLEAN]
    /\ tries \in [Callers -> 0..2]
    /\ complete \in [Callers -> BOOLEAN]
    /\ edits \in 0..MaxEdits
    /\ crashes \in 0..MaxCrashes
    /\ queued \in [Bindings -> {"none", "waiting", "taken"}]
    /\ started \in [Bindings -> BOOLEAN]

\* An attempt between the write of its intent and its acknowledgement finds its
\* own intent on disk, under its own process id: neither a second attempt, nor a
\* cancellation, nor a restart under the same pid has replaced it.
OwnIntent ==
    \A c \in Callers :
        pc[c] \in {"fetch", "load", "save", "failed", "record", "ack"} =>
            /\ main # None
            /\ main.id = intent[c].id
            /\ main.ownerPid = pid[c]

\* What the channel holds was imported for the account it is bound to now, however
\* pause, rebinding and a save of an older answer interleave (canRebind, the
\* check in the apply loop and the revision taken together).
DataBelongs == doc.data # None => doc.data = doc.binding

\* A Full request that arrived during another sync stays on disk until a full
\* attempt that began after it has saved everything, or its work is cancelled.
FullRequestKept ==
    \A b \in Bindings :
        queued[b] # "none" => \E r \in requests : r.binding = b

\* Once a full attempt has begun, the retry intent says full until a full
\* attempt has saved everything or one of another binding takes its place:
\* failures, crashes and revision conflicts of it or of incremental attempts in
\* between do not downgrade it.
FullRetryKept ==
    \A b \in Bindings :
        started[b] => main # None /\ main.binding = b /\ main.full

\* An import is saved into the selected, enabled connection it was fetched for
\* and takes back no edit of it that was saved while the broker was answering.
SaveIntoSelected ==
    [][\A c \in Callers :
         pc[c] = "save" /\ pc'[c] = "ack" =>
             /\ doc.enabled /\ doc.binding = seen[c].binding
             /\ doc'.enabled /\ doc'.binding = doc.binding]_vars

\* From some time on the retry scheduler is the only one that starts attempts.
\* (Every manual sync of a paused connection postpones the retry of its intent.)
UsersQuiet == <>[][\A c \in Users : ~(pc[c] = "idle" /\ pc'[c] = "called")]_vars

\* Once users are quiet, every Full request is eventually served or cancelled,
\* whatever crashed while it was queued or taken.
RequestsDrain == UsersQuiet => (requests # {} ~> requests = {})

\* Once users are quiet, every retry intent is eventually cleared: an attempt
\* that died with its process is found and repeated, an obsolete one cancelled.
IntentsDrain == UsersQuiet => (main # None ~> main = None)
=============================================================================
