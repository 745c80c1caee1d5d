-------------------------- MODULE BrokerSync_proofs --------------------------
(***************************************************************************)
(* What BrokerSync promises for every set of calls, processes, ids and     *)
(* bindings and every bound: types, the exclusive attempt and its intent,  *)
(* and the document an answer is saved into.                               *)
(***************************************************************************)
EXTENDS BrokerSync, TLAPS

Labels == Attempt \cup Cancelling \cup Locals

(* TypeOK, by the parts that different actions disturb. *)

CallTypes ==
    /\ pc \in [Callers -> Labels]
    /\ pid \in [Callers -> Pids \cup {None}]
    /\ seen \in [Callers -> Snapshot \cup {None}]
    /\ full \in [Callers -> BOOLEAN]
    /\ intent \in [Callers -> Intent \cup {None}]
    /\ tries \in [Callers -> 0..2]
    /\ complete \in [Callers -> BOOLEAN]

DocTypes ==
    /\ doc \in Document
    /\ copy \in [Callers -> Document \cup {None}]
    /\ fresh \in [Callers -> BOOLEAN]

DiskTypes ==
    /\ main \in Intent \cup {None}
    /\ requests \in SUBSET Intent

RestTypes ==
    /\ lease \in Callers \cup {None}
    /\ alive \in SUBSET Pids
    /\ edits \in 0..MaxEdits
    /\ crashes \in 0..MaxCrashes
    /\ queued \in [Bindings -> {"none", "waiting", "taken"}]
    /\ started \in [Bindings -> BOOLEAN]

\* A call has the snapshot, the job and the copy its place in the code uses.
CallsOK ==
    \A c \in Callers :
        /\ pc[c] \in {"called", "busy"} \cup Attempt => seen[c] # None
        /\ pc[c] \in Running \cup Cancelling \cup {"picked", "obsolete"}
               => intent[c] # None
        /\ pc[c] \in {"save", "record"} => copy[c] # None

TypeInv == CallTypes /\ DocTypes /\ DiskTypes /\ RestTypes /\ CallsOK

-----------------------------------------------------------------------------
(* The records the actions build.                                          *)

LEMMA JobFields ==
    ASSUME NEW job \in Intent
    PROVE  /\ job.id \in Ids
           /\ job.fullRequests \subseteq Ids
           /\ job.binding \in Bindings
           /\ job.full \in BOOLEAN
           /\ job.request \in BOOLEAN
BY DEF Intent

LEMMA BackoffType ==
    ASSUME NEW job \in Intent
    PROVE  /\ Backoff(job) \in Intent
           /\ Backoff(job).id = job.id
           /\ Backoff(job).binding = job.binding
           /\ Backoff(job).fullRequests = job.fullRequests
           /\ Backoff(job).request = job.request
BY DEF Backoff, Intent

LEMMA ElapsedType ==
    ASSUME NEW job \in Intent
    PROVE  LET late == [job EXCEPT !.elapsed = TRUE]
           IN  /\ late \in Intent
               /\ late.id = job.id
               /\ late.binding = job.binding
               /\ late.ownerPid = job.ownerPid
               /\ late.fullRequests = job.fullRequests
               /\ late.request = job.request
BY DEF Intent

LEMMA FullRequestType ==
    ASSUME NEW i \in Ids, NEW b \in Bindings
    PROVE  /\ FullRequest(i, b) \in Intent
           /\ FullRequest(i, b).id = i
           /\ FullRequest(i, b).binding = b
           /\ FullRequest(i, b).fullRequests = {}
BY DEF FullRequest, Intent

LEMMA BeginType ==
    ASSUME DiskTypes, NEW i \in Ids, NEW b \in Bindings, NEW asked \in BOOLEAN,
           NEW p \in Pids \cup {None}
    PROVE  BeginIntent(i, b, asked, p) \in Intent
<1>1. PriorFull(b) \in BOOLEAN
  BY DEF PriorFull, DiskTypes, Intent
<1>2. {r.id : r \in RequestsFor(b)} \subseteq Ids
  BY DEF RequestsFor, DiskTypes, Intent
<1> QED
  BY <1>1, <1>2 DEF BeginIntent, Intent

-----------------------------------------------------------------------------
(* Type correctness.                                                       *)

LEMMA IdleTypes == ASSUME CallTypes, NEW c \in Callers, Idle(c) PROVE CallTypes'
BY DEF CallTypes, Idle, Labels, Locals

LEMMA GotoTypes ==
    ASSUME CallTypes, NEW c \in Callers, NEW l \in Labels, Goto(c, l),
           UNCHANGED <<pid, seen, full, intent, tries, complete>>
    PROVE  CallTypes'
BY DEF CallTypes, Goto

LEMMA CallTypesStep == ASSUME TypeInv, Next PROVE CallTypes'
<1> USE DEF TypeInv
<1>0. Attempt \subseteq Labels /\ Cancelling \subseteq Labels /\ Locals \subseteq Labels
  BY DEF Labels
<1>a. Scheduler \in Callers /\ Users \subseteq Callers
  BY DEF Callers
<1>1. ASSUME NEW c \in Users, NEW asked \in BOOLEAN, UserCall(c, asked) PROVE CallTypes'
  <2>1. [binding |-> doc.binding, enabled |-> doc.enabled] \in Snapshot
    BY DEF DocTypes, Document, Snapshot
  <2>2. alive \subseteq Pids
    BY DEF RestTypes
  <2> QED
    BY <1>1, <1>0, <1>a, <2>1, <2>2 DEF UserCall, CallTypes, Goto, Locals
<1>2. ASSUME NEW i \in Ids, SchedulerPick(i) PROVE CallTypes'
  <2>1. Jobs \subseteq Intent /\ alive \subseteq Pids
    BY DEF DiskTypes, RestTypes, Jobs
  <2> QED
    BY <1>2, <1>0, <1>a, <2>1 DEF SchedulerPick, CallTypes, Goto, Locals
<1>3. CASE SchedulerLoad
  <2>1. [binding |-> doc.binding, enabled |-> doc.enabled] \in Snapshot
    BY DEF DocTypes, Document, Snapshot
  <2>2. intent[Scheduler].full \in BOOLEAN
    BY <1>3, <1>a, JobFields DEF SchedulerLoad, CallTypes, CallsOK
  <2>3. CASE Obsolete(intent[Scheduler].binding)
    BY <1>3, <1>a, <2>3, GotoTypes DEF SchedulerLoad, Locals, Labels
  <2>4. CASE ~Obsolete(intent[Scheduler].binding)
    BY <1>3, <1>0, <1>a, <2>1, <2>2, <2>4 DEF SchedulerLoad, CallTypes, Goto, Locals
  <2> QED
    BY <2>3, <2>4
<1>4. CASE SchedulerLoadFails \/ CancelBusy \/ CancelForget
  BY <1>4, <1>a, IdleTypes DEF SchedulerLoadFails, CancelBusy, CancelForget
<1>5. CASE CancelLease \/ Revalidate \/ Cancel
  BY <1>5, <1>a, IdleTypes, GotoTypes
     DEF CancelLease, Revalidate, Cancel, Labels, Cancelling
<1>6. ASSUME NEW c \in Callers,
             \/ AcquireLease(c) \/ Fetch(c) \/ FetchFails(c) \/ LoadLatest(c)
             \/ FailedLoad(c) \/ RecordFailure(c) \/ Acknowledge(c) \/ ForgetRequests(c)
      PROVE  CallTypes'
  BY <1>6, GotoTypes
     DEF AcquireLease, Fetch, FetchFails, LoadLatest, FailedLoad, RecordFailure,
         Acknowledge, ForgetRequests, Labels, Attempt
<1>7. ASSUME NEW c \in Callers,
             LeaseBusy(c) \/ QueueFull(c) \/ BusyAtBound(c) \/ Release(c)
      PROVE  CallTypes'
  BY <1>7, IdleTypes, GotoTypes
     DEF LeaseBusy, QueueFull, BusyAtBound, Release, Labels, Locals
<1>8. ASSUME NEW c \in Callers, Begin(c) PROVE CallTypes'
  <2>1. PICK i \in FreeIds : 
          LET job == BeginIntent(i, seen[c].binding, full[c], pid[c]) IN
          intent' = [intent EXCEPT ![c] = job] /\ full' = [full EXCEPT ![c] = job.full]
    BY <1>8 DEF Begin
  <2>2. BeginIntent(i, seen[c].binding, full[c], pid[c]) \in Intent
    <3>1. seen[c] \in Snapshot
      BY <1>8 DEF CallTypes, CallsOK, Begin, Attempt
    <3>2. seen[c].binding \in Bindings /\ full[c] \in BOOLEAN /\ pid[c] \in Pids \cup {None}
      BY <3>1 DEF CallTypes, Snapshot
    <3> QED
      BY <3>2, BeginType DEF FreeIds
  <2> QED
    BY <1>8, <1>0, <2>1, <2>2, JobFields DEF Begin, CallTypes, Goto, Attempt
<1>9. ASSUME NEW c \in Callers, NEW whole \in BOOLEAN, NEW empty \in BOOLEAN,
             Save(c, whole, empty)
      PROVE  CallTypes'
  BY <1>9, <1>0 DEF Save, CallTypes, Goto, Attempt
<1>10. ASSUME NEW c \in Callers, SaveFails(c) PROVE CallTypes'
  BY <1>10, <1>0 DEF SaveFails, MayReapply, CallTypes, Goto, Attempt
<1>11. ASSUME NEW p \in Pids, Crash(p) PROVE CallTypes'
  <2>1. "idle" \in Labels
    BY DEF Labels, Locals
  <2>2. /\ pc' \in [Callers -> Labels]
        /\ pid' \in [Callers -> Pids \cup {None}]
        /\ seen' \in [Callers -> Snapshot \cup {None}]
        /\ full' \in [Callers -> BOOLEAN]
    BY <1>11, <2>1 DEF Crash, CallTypes
  <2>3. /\ intent' \in [Callers -> Intent \cup {None}]
        /\ complete' \in [Callers -> BOOLEAN]
    BY <1>11 DEF Crash, CallTypes
  <2>4. tries' \in [Callers -> 0..2]
    BY <1>11 DEF Crash, CallTypes
  <2> QED
    BY <2>2, <2>3, <2>4 DEF CallTypes
<1>12. UNCHANGED callVars => CallTypes'
  BY DEF callVars, CallTypes
<1> QED
  BY <1>1, <1>2, <1>3, <1>4, <1>5, <1>6, <1>7, <1>8, <1>9, <1>10, <1>11, <1>12
     DEF Next, SchedulerStep, Step, Environment, Elapse, Rebind, SwitchEnabled,
         SaveElsewhere, EditConnection, Spawn

LEMMA DocTypesStep == ASSUME TypeInv, Next PROVE DocTypes'
<1> USE DEF TypeInv
<1>1. ASSUME NEW c \in Callers, LoadLatest(c) \/ FailedLoad(c) \/ SaveFails(c)
      PROVE  DocTypes'
  BY <1>1 DEF LoadLatest, FailedLoad, SaveFails, DocTypes
<1>2. ASSUME NEW c \in Callers, NEW whole \in BOOLEAN, NEW empty \in BOOLEAN,
             Save(c, whole, empty)
      PROVE  DocTypes'
  <2>1. copy[c] \in Document /\ seen[c] \in Snapshot
    BY <1>2 DEF Save, CallsOK, CallTypes, DocTypes, Attempt
  <2>2. [copy[c] EXCEPT !.last_sync = "ok",
                        !.data = IF empty THEN None ELSE seen[c].binding] \in Document
    BY <2>1 DEF Document, Snapshot
  <2> QED
    BY <1>2, <2>2 DEF Save, Store, DocTypes
<1>3. ASSUME NEW c \in Callers, RecordFailure(c) PROVE DocTypes'
  <2>1. [copy[c] EXCEPT !.last_sync = "failed"] \in Document
    BY <1>3 DEF RecordFailure, CallsOK, DocTypes, Document
  <2> QED
    BY <1>3, <2>1 DEF RecordFailure, Store, DocTypes
<1>4. ASSUME NEW b \in Bindings, Rebind(b) PROVE DocTypes'
  BY <1>4 DEF Rebind, EditConnection, DocTypes, Document
<1>5. CASE SwitchEnabled
  BY <1>5 DEF SwitchEnabled, EditConnection, DocTypes, Document
<1>6. CASE SaveElsewhere
  BY <1>6 DEF SaveElsewhere, DocTypes
<1>7. ASSUME NEW p \in Pids, Crash(p) PROVE DocTypes'
  BY <1>7 DEF Crash, DocTypes
<1>8. UNCHANGED docVars => DocTypes'
  BY DEF docVars, DocTypes
<1> QED
  BY <1>1, <1>2, <1>3, <1>4, <1>5, <1>6, <1>7, <1>8
     DEF Next, UserCall, SchedulerPick, SchedulerStep, SchedulerLoad,
         SchedulerLoadFails, CancelLease, CancelBusy, Revalidate, Cancel,
         CancelForget, Step, AcquireLease, LeaseBusy, QueueFull, BusyAtBound,
         Begin, Fetch, FetchFails, Acknowledge, ForgetRequests, Release,
         Environment, Elapse, Spawn

LEMMA DiskTypesStep == ASSUME TypeInv, Next PROVE DiskTypes'
<1> USE DEF TypeInv
<1>1. CASE Cancel \/ CancelForget
  BY <1>1 DEF Cancel, CancelForget, Without, DiskTypes, diskVars
<1>2. ASSUME NEW c \in Callers, QueueFull(c) PROVE DiskTypes'
  <2>1. seen[c] \in Snapshot
    BY <1>2 DEF QueueFull, CallsOK, CallTypes
  <2> QED
    BY <1>2, <2>1, FullRequestType DEF QueueFull, FreeIds, DiskTypes, Snapshot
<1>3. ASSUME NEW c \in Callers, Begin(c) PROVE DiskTypes'
  <2>1. seen[c] \in Snapshot
    BY <1>3 DEF Begin, CallsOK, CallTypes, Attempt
  <2>2. seen[c].binding \in Bindings /\ full[c] \in BOOLEAN /\ pid[c] \in Pids \cup {None}
    BY <2>1 DEF CallTypes, Snapshot
  <2> QED
    BY <1>3, <2>2, BeginType DEF Begin, FreeIds, DiskTypes
<1>4. ASSUME NEW c \in Callers, Acknowledge(c) \/ ForgetRequests(c) \/ Release(c)
      PROVE  DiskTypes'
  <2>1. intent[c] \in Intent
    BY <1>4 DEF Acknowledge, ForgetRequests, Release, CallsOK, CallTypes, Running, Attempt
  <2> QED
    BY <1>4, <2>1, BackoffType
       DEF Acknowledge, ForgetRequests, Release, Without, DiskTypes, diskVars
<1>5. ASSUME NEW i \in Ids, Elapse(i) PROVE DiskTypes'
  BY <1>5, ElapsedType DEF Elapse, DiskTypes
<1>6. UNCHANGED diskVars => DiskTypes'
  BY DEF diskVars, DiskTypes
<1> QED
  BY <1>1, <1>2, <1>3, <1>4, <1>5, <1>6
     DEF Next, UserCall, SchedulerPick, SchedulerStep, SchedulerLoad,
         SchedulerLoadFails, CancelLease, CancelBusy, Revalidate, Step,
         AcquireLease, LeaseBusy, BusyAtBound, Fetch, FetchFails, LoadLatest, Save,
         SaveFails, FailedLoad, RecordFailure, Environment, Rebind, SwitchEnabled,
         EditConnection, SaveElsewhere, Crash, Spawn
LEMMA RestTypesStep == ASSUME TypeInv, Next PROVE RestTypes'
<1> USE DEF TypeInv
<1>a. Scheduler \in Callers
  BY DEF Callers
<1>1. CASE CancelLease \/ Revalidate
  BY <1>1, <1>a DEF CancelLease, Revalidate, RestTypes, ghostVars
<1>2. CASE Cancel
  BY <1>2 DEF Cancel, RestTypes, ghostVars
<1>3. CASE CancelForget
  BY <1>3 DEF CancelForget, RestTypes
<1>4. ASSUME NEW c \in Callers, AcquireLease(c) \/ QueueFull(c) PROVE RestTypes'
  BY <1>4 DEF AcquireLease, QueueFull, RestTypes, ghostVars
<1>5. ASSUME NEW c \in Callers, Begin(c) PROVE RestTypes'
  <2>1. \A x \in Bindings : started[x] \in BOOLEAN
    BY DEF RestTypes
  <2>2. started' \in [Bindings -> BOOLEAN]
    BY <1>5, <2>1 DEF Begin
  <2>3. PICK full1 : queued' = IF full1 /\ queued[seen[c].binding] = "waiting"
                               THEN [queued EXCEPT ![seen[c].binding] = "taken"]
                               ELSE queued
    BY <1>5 DEF Begin
  <2> QED
    BY <1>5, <2>2, <2>3 DEF Begin, RestTypes
<1>6. ASSUME NEW c \in Callers, NEW whole \in BOOLEAN, NEW empty \in BOOLEAN,
             Save(c, whole, empty)
      PROVE  RestTypes'
  BY <1>6 DEF Save, RestTypes
<1>7. ASSUME NEW c \in Callers, Release(c) PROVE RestTypes'
  BY <1>7 DEF Release, Untake, RestTypes
<1>8. ASSUME (\E b \in Bindings : Rebind(b)) \/ SwitchEnabled PROVE RestTypes'
  BY <1>8, BoundAssumption DEF Rebind, SwitchEnabled, EditConnection, RestTypes, ghostVars
<1>9. ASSUME NEW p \in Pids, Crash(p) PROVE RestTypes'
  BY <1>9, BoundAssumption DEF Crash, Untake, RestTypes
<1>10. ASSUME NEW p \in Pids, Spawn(p) PROVE RestTypes'
  BY <1>10 DEF Spawn, RestTypes, ghostVars
<1>11. UNCHANGED <<lease, alive, edits, crashes, ghostVars>> => RestTypes'
  BY DEF RestTypes, ghostVars
<1> QED
  BY <1>1, <1>2, <1>3, <1>4, <1>5, <1>6, <1>7, <1>8, <1>9, <1>10, <1>11
     DEF Next, UserCall, SchedulerPick, SchedulerStep, SchedulerLoad,
         SchedulerLoadFails, CancelBusy, Step, LeaseBusy, BusyAtBound, Fetch,
         FetchFails, LoadLatest, SaveFails, FailedLoad, RecordFailure, Acknowledge,
         ForgetRequests, Environment, Elapse, SaveElsewhere

\* A step that leaves a call's place, snapshot, job and copy alone, or moves
\* it to a place that uses no more than it has, keeps CallsOK.
LEMMA CallsOKFrame ==
    ASSUME CallsOK, UNCHANGED <<pc, seen, intent>>, UNCHANGED copy PROVE CallsOK'
BY DEF CallsOK

LEMMA CallsOKIdle ==
    ASSUME CallTypes, DocTypes, CallsOK, NEW c \in Callers, Idle(c), UNCHANGED copy
    PROVE  CallsOK'
BY DEF CallsOK, CallTypes, Idle, Attempt, Running, Cancelling

LEMMA CallsOKGoto ==
    ASSUME CallTypes, DocTypes, CallsOK, NEW c \in Callers, NEW l \in Labels, Goto(c, l),
           l \in {"called", "busy"} \cup Attempt => seen[c] # None,
           l \in Running \cup Cancelling \cup {"picked", "obsolete"} => intent[c] # None,
           l \in {"save", "record"} => copy'[c] # None,
           \A x \in Callers \ {c} : copy'[x] = copy[x],
           UNCHANGED <<seen, intent>>
    PROVE  CallsOK'
BY DEF CallsOK, CallTypes, Goto

LEMMA CallsOKStep == ASSUME TypeInv, Next PROVE CallsOK'
<1> USE DEF TypeInv
<1>a. Scheduler \in Callers /\ Users \subseteq Callers
  BY DEF Callers
<1>b. Attempt \subseteq Labels /\ Cancelling \subseteq Labels /\ Locals \subseteq Labels
  BY DEF Labels
<1>c. [binding |-> doc.binding, enabled |-> doc.enabled] # None /\ doc # None
  BY NoneAssumption DEF DocTypes, Document, Snapshot
<1>1. ASSUME NEW c \in Users, NEW asked \in BOOLEAN, UserCall(c, asked) PROVE CallsOK'
  BY <1>1, <1>a, <1>c
     DEF UserCall, CallsOK, CallTypes, Goto, docVars, Attempt, Running, Cancelling
<1>2. ASSUME NEW i \in Ids, SchedulerPick(i) PROVE CallsOK'
  <2>1. \A job \in Jobs : job # None
    BY NoneAssumption DEF DiskTypes, Jobs
  <2> QED
    BY <1>2, <1>a, <2>1
       DEF SchedulerPick, CallsOK, CallTypes, Goto, docVars, Attempt, Running, Cancelling
<1>3. CASE SchedulerLoad
  <2>1. CASE Obsolete(intent[Scheduler].binding)
    BY <1>3, <1>a, <1>b, <2>1, CallsOKGoto
       DEF SchedulerLoad, docVars, CallsOK, Attempt, Running, Cancelling, Locals
  <2>2. CASE ~Obsolete(intent[Scheduler].binding)
    BY <1>3, <1>a, <1>c, <2>2
       DEF SchedulerLoad, CallsOK, CallTypes, Goto, docVars, Attempt, Running, Cancelling
  <2> QED
    BY <2>1, <2>2
<1>4. CASE SchedulerLoadFails \/ CancelBusy \/ CancelForget
  BY <1>4, <1>a, CallsOKIdle DEF SchedulerLoadFails, CancelBusy, CancelForget, docVars
<1>5. CASE CancelLease \/ Revalidate \/ Cancel
  <2>1. intent[Scheduler] # None
    BY <1>5, <1>a DEF CancelLease, Revalidate, Cancel, CallsOK, Cancelling
  <2> QED
    BY <1>5, <1>a, <1>b, <2>1, CallsOKIdle, CallsOKGoto
       DEF CancelLease, Revalidate, Cancel, docVars, Attempt, Cancelling, Running
<1>6. ASSUME NEW c \in Callers, AcquireLease(c) PROVE CallsOK'
  BY <1>6, <1>b, CallsOKGoto DEF AcquireLease, docVars, CallsOK, Attempt, Running, Cancelling
<1>7. ASSUME NEW c \in Callers, LeaseBusy(c) PROVE CallsOK'
  <2>1. CASE full[c]
    BY <1>7, <1>b, <2>1, CallsOKGoto
       DEF LeaseBusy, docVars, CallsOK, Attempt, Running, Cancelling, Locals
  <2>2. CASE ~full[c]
    BY <1>7, <2>2, CallsOKIdle DEF LeaseBusy, docVars
  <2> QED
    BY <2>1, <2>2
<1>8. ASSUME NEW c \in Callers, QueueFull(c) \/ BusyAtBound(c) \/ Release(c)
      PROVE  CallsOK'
  BY <1>8, CallsOKIdle DEF QueueFull, BusyAtBound, Release, docVars
<1>9. ASSUME NEW c \in Callers, Begin(c) PROVE CallsOK'
  <2>1. PICK i \in FreeIds :
          intent' = [intent EXCEPT ![c] =
                       BeginIntent(i, seen[c].binding, full[c], pid[c])]
    BY <1>9 DEF Begin
  <2>2. BeginIntent(i, seen[c].binding, full[c], pid[c]) # None
    <3>1. seen[c] \in Snapshot
      BY <1>9 DEF CallTypes, CallsOK, Begin, Attempt
    <3>2. seen[c].binding \in Bindings /\ full[c] \in BOOLEAN /\ pid[c] \in Pids \cup {None}
      BY <3>1 DEF CallTypes, Snapshot
    <3> QED
      BY <3>2, BeginType, NoneAssumption DEF FreeIds
  <2> QED
    BY <1>9, <2>1, <2>2
       DEF Begin, CallsOK, CallTypes, Goto, docVars, Attempt, Running, Cancelling
<1>10. ASSUME NEW c \in Callers,
              \/ Fetch(c) \/ FetchFails(c) \/ Acknowledge(c) \/ ForgetRequests(c)
       PROVE  CallsOK'
  BY <1>10, <1>b, CallsOKGoto
     DEF Fetch, FetchFails, Acknowledge, ForgetRequests, docVars, CallsOK, Attempt,
         Running, Cancelling
<1>11. ASSUME NEW c \in Callers, LoadLatest(c) \/ FailedLoad(c) PROVE CallsOK'
  <2>1. /\ seen[c] # None /\ intent[c] # None
        /\ UNCHANGED <<seen, intent>>
        /\ \A x \in Callers \ {c} : copy'[x] = copy[x]
    BY <1>11 DEF LoadLatest, FailedLoad, CallsOK, DocTypes, Attempt, Running
  <2>2. \/ Goto(c, "failed") \/ Goto(c, "notify")
        \/ (Goto(c, "save") \/ Goto(c, "record")) /\ copy'[c] = doc
    BY <1>11 DEF LoadLatest, FailedLoad, DocTypes
  <2> QED
    BY <1>b, <1>c, <2>1, <2>2, CallsOKGoto DEF Attempt, Running
<1>12. ASSUME NEW c \in Callers,
              \/ \E whole, empty \in BOOLEAN : Save(c, whole, empty)
              \/ SaveFails(c) \/ RecordFailure(c)
       PROVE  CallsOK'
  <2>1. /\ seen[c] # None /\ intent[c] # None
        /\ UNCHANGED <<seen, intent>>
        /\ \A x \in Callers \ {c} : copy'[x] = copy[x]
    BY <1>12 DEF Save, SaveFails, RecordFailure, Store, CallsOK, DocTypes, Attempt, Running
  <2>2. Goto(c, "ack") \/ Goto(c, "load") \/ Goto(c, "failed") \/ Goto(c, "notify")
    BY <1>12 DEF Save, SaveFails, RecordFailure
  <2> QED
    BY <1>b, <2>1, <2>2, CallsOKGoto DEF Attempt, Running
<1>13. ASSUME NEW p \in Pids, Crash(p) PROVE CallsOK'
  <2> SUFFICES ASSUME NEW c \in Callers
               PROVE  \/ pc'[c] = "idle"
                      \/ /\ pc'[c] = pc[c] /\ seen'[c] = seen[c]
                         /\ intent'[c] = intent[c] /\ copy'[c] = copy[c]
    BY DEF CallsOK, Attempt, Running, Cancelling
  <2> QED
    BY <1>13 DEF Crash
<1>14. UNCHANGED <<pc, seen, intent, copy>> => CallsOK'
  BY DEF CallsOK
<1> QED
  BY <1>1, <1>2, <1>3, <1>4, <1>5, <1>6, <1>7, <1>8, <1>9, <1>10, <1>11, <1>12,
     <1>13, <1>14
     DEF Next, SchedulerStep, Step, Environment, Elapse, Rebind, SwitchEnabled,
         EditConnection, SaveElsewhere, Spawn, callVars, docVars

LEMMA InitTypes == Init => TypeInv
<1> SUFFICES ASSUME Init PROVE TypeInv
  OBVIOUS
<1>1. CallTypes
  BY DEF Init, CallTypes, Labels, Locals
<1>2. DocTypes
  BY DEF Init, DocTypes, Document
<1>3. DiskTypes /\ RestTypes
  BY BoundAssumption DEF Init, DiskTypes, RestTypes
<1>4. CallsOK
  BY DEF Init, CallsOK, Attempt, Running, Cancelling
<1> QED
  BY <1>1, <1>2, <1>3, <1>4 DEF TypeInv

LEMMA TypeInvariant == Spec => []TypeInv
<1>1. ASSUME TypeInv, UNCHANGED vars PROVE TypeInv'
  BY <1>1 DEF TypeInv, CallTypes, DocTypes, DiskTypes, RestTypes, CallsOK, vars,
              docVars, diskVars, callVars, ghostVars
<1>2. TypeInv /\ [Next]_vars => TypeInv'
  BY <1>1, CallTypesStep, DocTypesStep, DiskTypesStep, RestTypesStep, CallsOKStep
     DEF TypeInv
<1> QED
  BY <1>2, InitTypes, PTL DEF Spec

\* The variables keep their types, whatever the constants: in particular no attempt
\* reapplies an answer more than three times.
THEOREM TypeCorrect == Spec => []TypeOK
<1>1. TypeInv => TypeOK
  BY DEF TypeInv, CallTypes, DocTypes, DiskTypes, RestTypes, TypeOK, Labels
<1> QED
  BY <1>1, TypeInvariant, PTL

-----------------------------------------------------------------------------
(* The lease and the intent of the attempt that holds it.                  *)

Holding == Attempt \cup Cancelling

\* The places at which an attempt relies on its intent being on disk.
Owning == {"fetch", "load", "save", "failed", "record", "ack"}

\* The lease names the only call that is between taking and releasing it.
LeaseInv == \A c \in Callers : pc[c] \in Holding <=> lease = c

LEMMA LeaseInvFrame ==
    ASSUME LeaseInv, CallTypes, NEW c \in Callers,
           NEW l, Goto(c, l), l \in Holding <=> pc[c] \in Holding, UNCHANGED lease
    PROVE  LeaseInv'
BY DEF LeaseInv, CallTypes, Goto

LEMMA LeaseInvRelease ==
    ASSUME LeaseInv, CallTypes, NEW c \in Callers, pc[c] \in Holding,
           Idle(c), lease' = None
    PROVE  LeaseInv'
BY NoneAssumption DEF LeaseInv, CallTypes, Idle, Holding, Attempt, Cancelling

LEMMA LeaseInvIdle ==
    ASSUME LeaseInv, CallTypes, NEW c \in Callers, pc[c] \notin Holding,
           Idle(c), UNCHANGED lease
    PROVE  LeaseInv'
BY DEF LeaseInv, CallTypes, Idle, Holding, Attempt, Cancelling

LEMMA LeaseStep == ASSUME TypeInv, LeaseInv, Next PROVE LeaseInv'
<1> USE DEF TypeInv
<1>a. Scheduler \in Callers /\ Users \subseteq Callers /\ None \notin Callers
  BY NoneAssumption DEF Callers
<1>1. CASE SchedulerLoadFails \/ CancelBusy
  BY <1>1, <1>a, LeaseInvIdle
     DEF SchedulerLoadFails, CancelBusy, Holding, Attempt, Cancelling
<1>2. CASE CancelLease
  BY <1>2, <1>a DEF CancelLease, LeaseFree, LeaseInv, CallTypes, Goto, Holding,
                    Attempt, Cancelling
<1>3. CASE Revalidate \/ Cancel \/ CancelForget
  BY <1>3, <1>a, LeaseInvFrame, LeaseInvRelease
     DEF Revalidate, Cancel, CancelForget, Holding, Attempt, Cancelling
<1>4. CASE SchedulerLoad
  BY <1>4, <1>a, LeaseInvFrame DEF SchedulerLoad, Holding, Attempt, Cancelling
<1>5. ASSUME NEW c \in Callers, AcquireLease(c) PROVE LeaseInv'
  BY <1>5, <1>a DEF AcquireLease, LeaseFree, LeaseInv, CallTypes, Goto, Holding,
                    Attempt, Cancelling
<1>6. ASSUME NEW c \in Callers, LeaseBusy(c) \/ QueueFull(c) \/ BusyAtBound(c)
      PROVE  LeaseInv'
  BY <1>6, LeaseInvFrame, LeaseInvIdle
     DEF LeaseBusy, QueueFull, BusyAtBound, Holding, Attempt, Cancelling
<1>7. ASSUME NEW c \in Callers,
             \/ Begin(c) \/ Fetch(c) \/ FetchFails(c) \/ LoadLatest(c) \/ SaveFails(c)
             \/ \E whole, empty \in BOOLEAN : Save(c, whole, empty)
             \/ FailedLoad(c) \/ RecordFailure(c) \/ Acknowledge(c) \/ ForgetRequests(c)
      PROVE  LeaseInv'
  <2>1. /\ pc[c] \in Attempt /\ UNCHANGED lease
        /\ \E l \in Attempt : Goto(c, l)
    BY <1>7 DEF Begin, Fetch, FetchFails, LoadLatest, SaveFails, Save, FailedLoad,
                RecordFailure, Acknowledge, ForgetRequests, Attempt
  <2> QED
    BY <2>1, LeaseInvFrame DEF Holding
<1>8. ASSUME NEW c \in Callers, Release(c) PROVE LeaseInv'
  BY <1>8, LeaseInvRelease DEF Release, Holding, Attempt
<1>9. ASSUME NEW p \in Pids, Crash(p) PROVE LeaseInv'
  <2> SUFFICES ASSUME NEW c \in Callers PROVE pc'[c] \in Holding <=> lease' = c
    BY DEF LeaseInv
  <2>1. CASE pid[c] = p
    BY <1>9, <1>a, <2>1 DEF Crash, LeaseInv, CallTypes, Holding, Attempt, Cancelling
  <2>2. CASE pid[c] # p
    BY <1>9, <1>a, <2>2 DEF Crash, LeaseInv, CallTypes
  <2> QED
    BY <2>1, <2>2
<1>10. ASSUME NEW c \in Users, NEW asked \in BOOLEAN, UserCall(c, asked) PROVE LeaseInv'
  BY <1>10, <1>a, LeaseInvFrame DEF UserCall, Holding, Attempt, Cancelling
<1>11. ASSUME NEW i \in Ids, SchedulerPick(i) PROVE LeaseInv'
  BY <1>11, <1>a, LeaseInvFrame DEF SchedulerPick, Holding, Attempt, Cancelling
<1>12. UNCHANGED <<pc, lease>> => LeaseInv'
  BY DEF LeaseInv
<1> QED
  BY <1>1, <1>2, <1>3, <1>4, <1>5, <1>6, <1>7, <1>8, <1>9, <1>10, <1>11, <1>12
     DEF Next, SchedulerStep, Step, Environment, Elapse, Rebind, SwitchEnabled,
         EditConnection, SaveElsewhere, Spawn, callVars

\* Two calls are never between lease and release at once.
LEMMA OneHolder ==
    ASSUME LeaseInv, NEW c \in Callers, NEW x \in Callers,
           pc[c] \in Holding, pc[x] \in Holding
    PROVE  x = c
BY DEF LeaseInv

LEMMA OwningHolds ==
    /\ Owning \subseteq Attempt
    /\ Attempt \subseteq Holding /\ Cancelling \subseteq Holding
    /\ OwnIntent <=> \A c \in Callers :
          pc[c] \in Owning => /\ main # None
                             /\ main.id = intent[c].id
                             /\ main.ownerPid = pid[c]
BY DEF Owning, Attempt, Holding, OwnIntent

\* Only c moves, and not to a place that relies on the intent file.
OnlyLeaves(c) ==
    /\ pc'[c] \notin Owning
    /\ \A x \in Callers \ {c} :
          pc'[x] = pc[x] /\ pid'[x] = pid[x] /\ intent'[x] = intent[x]

\* The intent file belongs to the holder of the lease: it may replace it ...
LEMMA OwnHolder ==
    ASSUME OwnIntent, LeaseInv, NEW c \in Callers, pc[c] \in Holding, OnlyLeaves(c)
    PROVE  OwnIntent'
BY OneHolder, OwningHolds DEF OwnIntent, OnlyLeaves, Owning

\* ... and everybody else leaves it alone.
LEMMA OwnOthers ==
    ASSUME OwnIntent, NEW c \in Callers, OnlyLeaves(c), UNCHANGED main
    PROVE  OwnIntent'
BY DEF OwnIntent, OnlyLeaves, Owning

LEMMA IdleLeaves == ASSUME CallTypes, NEW c \in Callers, Idle(c) PROVE OnlyLeaves(c)
BY DEF CallTypes, Idle, OnlyLeaves, Owning

LEMMA GotoLeaves ==
    ASSUME CallTypes, NEW c \in Callers, NEW l, l \notin Owning, Goto(c, l),
           \A x \in Callers \ {c} : pid'[x] = pid[x] /\ intent'[x] = intent[x]
    PROVE  OnlyLeaves(c)
BY DEF CallTypes, Goto, OnlyLeaves

LEMMA OwnIntentStep == ASSUME TypeInv, LeaseInv, OwnIntent, Next PROVE OwnIntent'
<1> USE DEF TypeInv
<1>a. Scheduler \in Callers /\ Users \subseteq Callers
  BY DEF Callers
<1>1. CASE SchedulerLoadFails \/ CancelBusy
  BY <1>1, <1>a, IdleLeaves, OwnOthers DEF SchedulerLoadFails, CancelBusy, diskVars
<1>2. CASE SchedulerLoad
  BY <1>2, <1>a, GotoLeaves, OwnOthers
     DEF SchedulerLoad, CallTypes, diskVars, Owning
<1>3. CASE CancelLease
  BY <1>3, <1>a, GotoLeaves, OwnOthers DEF CancelLease, diskVars, Owning
<1>4. CASE Revalidate \/ Cancel \/ CancelForget
  <2>1. pc[Scheduler] \in Holding
    BY <1>4 DEF Revalidate, Cancel, CancelForget, Holding, Cancelling
  <2>2. OnlyLeaves(Scheduler)
    BY <1>4, <1>a, IdleLeaves, GotoLeaves
       DEF Revalidate, Cancel, CancelForget, Owning
  <2> QED
    BY <1>a, <2>1, <2>2, OwnHolder
<1>5. ASSUME NEW c \in Callers,
             LeaseBusy(c) \/ QueueFull(c) \/ BusyAtBound(c) \/ AcquireLease(c)
      PROVE  OwnIntent'
  BY <1>5, IdleLeaves, GotoLeaves, OwnOthers
     DEF LeaseBusy, QueueFull, BusyAtBound, AcquireLease, diskVars, Owning
<1>6. ASSUME NEW c \in Callers, Begin(c) PROVE OwnIntent'
  <2>1. PICK i \in FreeIds :
          LET job == BeginIntent(i, seen[c].binding, full[c], pid[c])
          IN  main' = job /\ intent' = [intent EXCEPT ![c] = job]
    BY <1>6 DEF Begin
  <2> DEFINE job == BeginIntent(i, seen[c].binding, full[c], pid[c])
  <2>2. job # None /\ job.ownerPid = pid[c]
    <3>1. seen[c] \in Snapshot
      BY <1>6 DEF CallTypes, CallsOK, Begin, Attempt
    <3>2. seen[c].binding \in Bindings /\ full[c] \in BOOLEAN /\ pid[c] \in Pids \cup {None}
      BY <3>1 DEF CallTypes, Snapshot
    <3> QED
      BY <3>2, BeginType, NoneAssumption DEF FreeIds, BeginIntent
  <2>3. main' = job /\ intent'[c] = job /\ pid'[c] = pid[c] /\ pc'[c] = "fetch"
    BY <1>6, <2>1 DEF Begin, CallTypes, Goto
  <2>4. \A x \in Callers \ {c} : pc'[x] = pc[x]
    BY <1>6 DEF Begin, CallTypes, Goto
  <2>5. \A x \in Callers \ {c} : pc[x] \notin Owning
    BY <1>6, OneHolder, OwningHolds DEF Begin, Holding, Attempt
  <2> HIDE DEF job
  <2> QED
    BY <2>2, <2>3, <2>4, <2>5 DEF OwnIntent, Owning
<1>7. ASSUME NEW c \in Callers,
             \/ Fetch(c) \/ FetchFails(c) \/ LoadLatest(c) \/ SaveFails(c)
             \/ \E whole, empty \in BOOLEAN : Save(c, whole, empty)
             \/ FailedLoad(c) \/ RecordFailure(c)
      PROVE  OwnIntent'
  <2>1. pc[c] \in Owning /\ UNCHANGED <<main, pid, intent>> /\ \E l : Goto(c, l)
    BY <1>7 DEF Fetch, FetchFails, LoadLatest, SaveFails, Save, FailedLoad,
                RecordFailure, diskVars, Owning
  <2> QED
    BY <2>1 DEF OwnIntent, Owning, CallTypes, Goto
<1>8. ASSUME NEW c \in Callers, Acknowledge(c) \/ ForgetRequests(c) \/ Release(c)
      PROVE  OwnIntent'
  <2>1. pc[c] \in Holding
    BY <1>8 DEF Acknowledge, ForgetRequests, Release, Holding, Attempt
  <2>2. OnlyLeaves(c)
    BY <1>8, IdleLeaves, GotoLeaves DEF Acknowledge, ForgetRequests, Release, Owning
  <2> QED
    BY <2>1, <2>2, OwnHolder
<1>9. ASSUME NEW c \in Users, NEW asked \in BOOLEAN, UserCall(c, asked) PROVE OwnIntent'
  BY <1>9, <1>a, GotoLeaves, OwnOthers DEF UserCall, CallTypes, diskVars, Owning
<1>10. ASSUME NEW i \in Ids, SchedulerPick(i) PROVE OwnIntent'
  BY <1>10, <1>a, GotoLeaves, OwnOthers DEF SchedulerPick, CallTypes, diskVars, Owning
<1>11. ASSUME NEW i \in Ids, Elapse(i) PROVE OwnIntent'
  <2>1. main # None => main' # None /\ main'.id = main.id /\ main'.ownerPid = main.ownerPid
    BY <1>11, ElapsedType, NoneAssumption DEF Elapse, DiskTypes
  <2> QED
    BY <1>11, <2>1 DEF Elapse, OwnIntent, callVars
<1>12. ASSUME NEW p \in Pids, Crash(p) PROVE OwnIntent'
  <2>1. \A c \in Callers : \/ pc'[c] = "idle"
                          \/ /\ pc'[c] = pc[c] /\ pid'[c] = pid[c]
                             /\ intent'[c] = intent[c]
    BY <1>12 DEF Crash
  <2> QED
    BY <1>12, <2>1 DEF Crash, OwnIntent, diskVars
<1>13. UNCHANGED <<pc, pid, intent, main>> => OwnIntent'
  BY DEF OwnIntent
<1> QED
  BY <1>1, <1>2, <1>3, <1>4, <1>5, <1>6, <1>7, <1>8, <1>9, <1>10, <1>11, <1>12, <1>13
     DEF Next, SchedulerStep, Step, Environment, Rebind, SwitchEnabled,
         EditConnection, SaveElsewhere, Spawn, callVars, diskVars

LEMMA LeaseInvariant == Spec => []LeaseInv
<1>1. Init => LeaseInv
  BY NoneAssumption DEF Init, LeaseInv, Holding, Attempt, Cancelling
<1>2. TypeInv /\ LeaseInv /\ [Next]_vars => LeaseInv'
  BY LeaseStep DEF LeaseInv, vars, callVars
<1> QED
  BY <1>1, <1>2, TypeInvariant, PTL DEF Spec

\* An attempt finds its own intent on disk from the time it wrote it until it
\* acknowledges it, for every number of calls, processes, crashes and restarts.
\* The invariant is inductive together with the lease's: whoever changes the
\* intent file holds the lease, so nobody else is at a place that relies on it.
THEOREM AttemptOwnsIntent == Spec => []OwnIntent
<1>1. Init => OwnIntent
  BY DEF Init, OwnIntent
<1>2. TypeInv /\ LeaseInv /\ OwnIntent /\ [Next]_vars => OwnIntent'
  BY OwnIntentStep DEF OwnIntent, vars, callVars, diskVars
<1> QED
  BY <1>1, <1>2, TypeInvariant, LeaseInvariant, PTL DEF Spec

-----------------------------------------------------------------------------
(* The document an answer is saved into.                                   *)

\* A copy that still carries the stored revision is the stored document, and a
\* call that is about to save found its connection selected in its copy.
CopyInv ==
    \A c \in Callers :
        /\ fresh[c] => copy[c] = doc
        /\ pc[c] = "save" => copy[c].enabled /\ copy[c].binding = seen[c].binding

LEMMA CopyStep == ASSUME TypeInv, CopyInv, Next PROVE CopyInv'
<1> USE DEF TypeInv
<1>a. Scheduler \in Callers /\ Users \subseteq Callers
  BY DEF Callers
<1>1. ASSUME NEW c \in Callers, LoadLatest(c) \/ FailedLoad(c) PROVE CopyInv'
  BY <1>1 DEF LoadLatest, FailedLoad, StillSelected, CopyInv, CallTypes, DocTypes, Goto
<1>2. ASSUME NEW c \in Callers, SaveFails(c) PROVE CopyInv'
  BY <1>2 DEF SaveFails, CopyInv, CallTypes, DocTypes, Goto
<1>3. ASSUME NEW c \in Callers, RecordFailure(c) PROVE CopyInv'
  BY <1>3 DEF RecordFailure, Store, CopyInv, CallTypes, DocTypes, Goto
<1>4. ASSUME NEW c \in Callers, NEW whole \in BOOLEAN, NEW empty \in BOOLEAN,
             Save(c, whole, empty)
      PROVE  CopyInv'
  BY <1>4 DEF Save, Store, CopyInv, CallTypes, DocTypes, Goto
<1>5. CASE (\E b \in Bindings : Rebind(b)) \/ SwitchEnabled \/ SaveElsewhere
  BY <1>5 DEF Rebind, SwitchEnabled, SaveElsewhere, EditConnection, CopyInv, callVars
<1>6. ASSUME NEW p \in Pids, Crash(p) PROVE CopyInv'
  <2>1. \A c \in Callers : \/ pc'[c] = "idle" /\ ~fresh'[c]
                          \/ /\ pc'[c] = pc[c] /\ seen'[c] = seen[c]
                             /\ fresh'[c] = fresh[c] /\ copy'[c] = copy[c]
    BY <1>6 DEF Crash
  <2> QED
    BY <1>6, <2>1 DEF Crash, CopyInv
<1>7. ASSUME UNCHANGED docVars, NEW c \in Callers, pc'[c] # "save",
             \A x \in Callers \ {c} : pc'[x] = pc[x] /\ seen'[x] = seen[x]
      PROVE  CopyInv'
  BY <1>7 DEF CopyInv, docVars
<1>8. ASSUME UNCHANGED <<docVars, pc, seen>> PROVE CopyInv'
  BY <1>8 DEF CopyInv, docVars
<1>9. CASE SchedulerStep
  <2>1. UNCHANGED docVars
    BY <1>9 DEF SchedulerStep, SchedulerLoad, SchedulerLoadFails, CancelLease,
                CancelBusy, Revalidate, Cancel, CancelForget
  <2>2. /\ pc'[Scheduler] # "save"
        /\ \A x \in Callers \ {Scheduler} : pc'[x] = pc[x] /\ seen'[x] = seen[x]
    BY <1>9, <1>a DEF SchedulerStep, SchedulerLoad, SchedulerLoadFails, CancelLease,
                CancelBusy, Revalidate, Cancel, CancelForget, Goto, Idle, CallTypes
  <2> QED
    BY <1>7, <1>a, <2>1, <2>2
<1>10. ASSUME NEW c \in Callers,
              \/ AcquireLease(c) \/ LeaseBusy(c) \/ QueueFull(c) \/ BusyAtBound(c)
              \/ Begin(c) \/ Fetch(c) \/ FetchFails(c)
              \/ Acknowledge(c) \/ ForgetRequests(c) \/ Release(c)
       PROVE  CopyInv'
  <2>1. UNCHANGED docVars
    BY <1>10 DEF AcquireLease, LeaseBusy, QueueFull, BusyAtBound, Begin, Fetch,
                 FetchFails, Acknowledge, ForgetRequests, Release
  <2>2. /\ pc'[c] # "save"
        /\ \A x \in Callers \ {c} : pc'[x] = pc[x] /\ seen'[x] = seen[x]
    BY <1>10 DEF AcquireLease, LeaseBusy, QueueFull, BusyAtBound, Begin, Fetch,
                 FetchFails, Acknowledge, ForgetRequests, Release, Goto, Idle, CallTypes
  <2> QED
    BY <1>7, <2>1, <2>2
<1>11. ASSUME NEW c \in Users, NEW asked \in BOOLEAN, UserCall(c, asked) PROVE CopyInv'
  BY <1>7, <1>11, <1>a DEF UserCall, Goto, CallTypes
<1>12. ASSUME NEW i \in Ids, SchedulerPick(i) PROVE CopyInv'
  BY <1>7, <1>12, <1>a DEF SchedulerPick, Goto, CallTypes
<1> QED
  BY <1>1, <1>2, <1>3, <1>4, <1>5, <1>6, <1>8, <1>9, <1>10, <1>11, <1>12
     DEF Next, Step, Environment, Elapse, Spawn, callVars

LEMMA CopyInvariant == Spec => []CopyInv
<1>1. Init => CopyInv
  BY DEF Init, CopyInv
<1>2. TypeInv /\ CopyInv /\ [Next]_vars => CopyInv'
  BY CopyStep DEF CopyInv, vars, docVars, callVars
<1> QED
  BY <1>1, <1>2, TypeInvariant, PTL DEF Spec

LEMMA DataStep == ASSUME TypeInv, CopyInv, DataBelongs, Next PROVE DataBelongs'
<1> USE DEF TypeInv
<1>1. ASSUME NEW c \in Callers, NEW whole \in BOOLEAN, NEW empty \in BOOLEAN,
             Save(c, whole, empty)
      PROVE  DataBelongs'
  <2>1. copy[c] = doc /\ doc.binding = seen[c].binding
    BY <1>1 DEF Save, CopyInv
  <2> QED
    BY <1>1, <2>1 DEF Save, Store, DataBelongs, DocTypes, Document
<1>2. ASSUME NEW c \in Callers, RecordFailure(c) PROVE DataBelongs'
  BY <1>2 DEF RecordFailure, Store, CopyInv, DataBelongs, DocTypes, Document
<1>3. ASSUME NEW b \in Bindings, Rebind(b) PROVE DataBelongs'
  BY <1>3 DEF Rebind, EditConnection, CanRebind, DataBelongs, DocTypes, Document
<1>4. CASE SwitchEnabled
  BY <1>4 DEF SwitchEnabled, EditConnection, DataBelongs, DocTypes, Document
<1>5. UNCHANGED doc => DataBelongs'
  BY DEF DataBelongs
<1> QED
  BY <1>1, <1>2, <1>3, <1>4, <1>5
     DEF Next, UserCall, SchedulerPick, SchedulerStep, SchedulerLoad,
         SchedulerLoadFails, CancelLease, CancelBusy, Revalidate, Cancel,
         CancelForget, Step, AcquireLease, LeaseBusy, QueueFull, BusyAtBound,
         Begin, Fetch, FetchFails, LoadLatest, SaveFails, FailedLoad, Acknowledge,
         ForgetRequests, Release, Environment, Elapse, SaveElsewhere, Crash, Spawn,
         docVars

\* Whatever is imported on the channel was imported for the account the
\* connection is bound to now, for any number of calls, edits and crashes.
THEOREM HoldingsOfBoundAccount == Spec => []DataBelongs
<1>1. Init => DataBelongs
  BY DEF Init, DataBelongs, Document
<1>2. TypeInv /\ CopyInv /\ DataBelongs /\ [Next]_vars => DataBelongs'
  BY DataStep DEF DataBelongs, vars, docVars
<1> QED
  BY <1>1, <1>2, TypeInvariant, CopyInvariant, PTL DEF Spec

\* Every save of an answer goes into the selected, enabled connection it was
\* fetched for and keeps every edit of it saved in the meantime.
THEOREM SavesIntoSelected == Spec => SaveIntoSelected
<1> DEFINE Selected == \A c \in Callers :
        pc[c] = "save" /\ pc'[c] = "ack" =>
             /\ doc.enabled /\ doc.binding = seen[c].binding
             /\ doc'.enabled /\ doc'.binding = doc.binding
<1>1. TypeInv /\ CopyInv /\ [Next]_vars => [Selected]_vars
  <2> SUFFICES ASSUME TypeInv, CopyInv, Next, NEW c \in Callers,
                      pc[c] = "save", pc'[c] = "ack"
               PROVE  /\ doc.enabled /\ doc.binding = seen[c].binding
                      /\ doc'.enabled /\ doc'.binding = doc.binding
    OBVIOUS
  <2>a. Scheduler \in Callers /\ Users \subseteq Callers /\ pc \in [Callers -> Labels]
    BY DEF Callers, TypeInv, CallTypes
  <2>1. PICK whole \in BOOLEAN, empty \in BOOLEAN : Save(c, whole, empty)
    <3>1. ASSUME NEW x \in Callers, Step(x)
          PROVE  \E whole, empty \in BOOLEAN : Save(c, whole, empty)
      <4>1. x = c
        BY <2>a, <3>1 DEF Step, AcquireLease, LeaseBusy, QueueFull, BusyAtBound, Begin,
              Fetch, FetchFails, LoadLatest, Save, SaveFails, FailedLoad, RecordFailure,
              Acknowledge, ForgetRequests, Release, Goto, Idle
      <4> QED
        BY <2>a, <3>1, <4>1 DEF Step, AcquireLease, LeaseBusy, QueueFull, BusyAtBound,
              Begin, Fetch, FetchFails, LoadLatest, SaveFails, FailedLoad, RecordFailure,
              Acknowledge, ForgetRequests, Release, Goto, Idle
    <3>2. CASE SchedulerStep
      BY <2>a, <3>2 DEF SchedulerStep, SchedulerLoad, SchedulerLoadFails, CancelLease,
            CancelBusy, Revalidate, Cancel, CancelForget, Goto, Idle
    <3>3. ASSUME NEW x \in Users, NEW asked \in BOOLEAN, UserCall(x, asked) PROVE FALSE
      BY <2>a, <3>3 DEF UserCall, Goto
    <3>4. ASSUME NEW i \in Ids, SchedulerPick(i) PROVE FALSE
      BY <2>a, <3>4 DEF SchedulerPick, Goto
    <3>5. ASSUME NEW p \in Pids, Crash(p) PROVE FALSE
      BY <2>a, <3>5 DEF Crash
    <3>6. UNCHANGED pc => FALSE
      OBVIOUS
    <3> QED
      BY <3>1, <3>2, <3>3, <3>4, <3>5, <3>6
         DEF Next, Environment, Elapse, Rebind, SwitchEnabled, SaveElsewhere,
             EditConnection, Spawn, callVars
  <2>2. copy[c] = doc /\ doc.enabled /\ doc.binding = seen[c].binding
    BY <2>1 DEF Save, CopyInv
  <2> QED
    BY <2>1, <2>2 DEF Save, Store, TypeInv, DocTypes, Document
<1> QED
  BY <1>1, TypeInvariant, CopyInvariant, PTL DEF Spec, SaveIntoSelected

-----------------------------------------------------------------------------
(* Full requests and full retries are kept.                                *)

\* An id belongs to one piece of work: whatever names a request names its binding,
\* and a job that still has its file has the binding and the mode of the file.
IdsInv ==
    /\ main # None => /\ ~main.request
                      /\ \A r \in requests : r.id \in main.fullRequests => r.binding = main.binding
    /\ \A r \in requests : r.request /\ r.fullRequests = {}
    /\ \A r, s \in requests : r.id = s.id => r.binding = s.binding
    /\ \A c \in Callers : intent[c] # None =>
          /\ \A r \in requests :
                \/ r.id \in intent[c].fullRequests
                \/ intent[c].request /\ r.id = intent[c].id
                => r.binding = intent[c].binding
          /\ OwnsMain(intent[c]) =>
                main.binding = intent[c].binding /\ main.full = intent[c].full

\* A request that waits while an attempt runs is none of those it captured, and a
\* completed attempt has left nothing taken or started.
WorkOK(c) ==
    /\ complete[c] => pc[c] \in {"ack", "forget", "notify"}
    /\ pc[c] = "forget" => complete[c]
    /\ pc[c] \in Running =>
          /\ intent[c].binding = seen[c].binding
          /\ queued[seen[c].binding] = "waiting" =>
                \E r \in requests : /\ r.binding = seen[c].binding
                                    /\ r.id \notin intent[c].fullRequests
          /\ complete[c] => /\ queued[seen[c].binding] # "taken"
                            /\ ~started[seen[c].binding]

WorkInv == \A c \in Callers : WorkOK(c)

KeptInv == IdsInv /\ WorkInv /\ FullRequestKept /\ FullRetryKept

\* Only c moves.
OnlyMoves(c) ==
    \A x \in Callers \ {c} : /\ pc'[x] = pc[x] /\ seen'[x] = seen[x]
                             /\ intent'[x] = intent[x] /\ complete'[x] = complete[x]

LEMMA IdleMoves ==
    ASSUME CallTypes, NEW c \in Callers, Idle(c)
    PROVE  OnlyMoves(c) /\ pc'[c] = "idle" /\ intent'[c] = None /\ ~complete'[c]
BY DEF CallTypes, Idle, OnlyMoves

LEMMA GotoMoves ==
    ASSUME CallTypes, NEW c \in Callers, NEW l, Goto(c, l),
           \A x \in Callers \ {c} : /\ seen'[x] = seen[x] /\ intent'[x] = intent[x]
                                    /\ complete'[x] = complete[x]
    PROVE  OnlyMoves(c) /\ pc'[c] = l
BY DEF CallTypes, Goto, OnlyMoves

\* A step of c that touches neither the files nor what was promised.
Quiet(c) ==
    /\ UNCHANGED <<main, requests, queued, started>>
    /\ OnlyMoves(c)
    /\ intent'[c] = intent[c] \/ intent'[c] = None
    /\ pc[c] \notin {"ack", "forget", "notify"} /\ pc'[c] # "forget"
    /\ complete'[c] => complete[c]
    /\ pc'[c] \in Running => pc[c] \in Running /\ seen'[c] = seen[c] /\ intent'[c] = intent[c]

LEMMA QuietKeeps == ASSUME KeptInv, NEW c \in Callers, Quiet(c) PROVE KeptInv'
<1>1. IdsInv'
  BY DEF KeptInv, IdsInv, Quiet, OnlyMoves, OwnsMain
<1>2. ASSUME NEW x \in Callers PROVE WorkOK(x)'
  BY DEF KeptInv, WorkInv, WorkOK, Quiet, OnlyMoves
<1>3. FullRequestKept' /\ FullRetryKept'
  BY DEF KeptInv, Quiet, FullRequestKept, FullRetryKept
<1> QED
  BY <1>1, <1>2, <1>3 DEF KeptInv, WorkInv

\* A step of the call that holds the lease: no other attempt runs.
LEMMA SoloWork ==
    ASSUME WorkInv, LeaseInv, NEW c \in Callers, pc[c] \in Holding, OnlyMoves(c), WorkOK(c)'
    PROVE  WorkInv'
<1> SUFFICES ASSUME NEW x \in Callers \ {c} PROVE WorkOK(x)'
  BY DEF WorkInv
<1>1. pc[x] \notin Holding
  BY OneHolder
<1> QED
  BY <1>1 DEF WorkInv, WorkOK, OnlyMoves, Holding, Running, Attempt

LEMMA IdleWork == ASSUME NEW c \in Callers, pc'[c] = "idle", ~complete'[c] PROVE WorkOK(c)'
BY DEF WorkOK, Running, Attempt

\* Requests disappear and jobs end: nothing is named that was not named before.
LEMMA IdsFewer ==
    ASSUME IdsInv, requests' \subseteq requests, main' = main \/ main' = None,
           \A x \in Callers : intent'[x] = intent[x] \/ intent'[x] = None
    PROVE  IdsInv'
BY DEF IdsInv, OwnsMain

\* The request whose file is removed, or that an acknowledgement names, is of the
\* job's binding.
LEMMA RemovedIsOf ==
    ASSUME IdsInv, NEW c \in Callers, intent[c] # None, NEW ids,
           \/ ids = intent[c].fullRequests
           \/ intent[c].request /\ ids = {intent[c].id}
    PROVE  \A r \in requests : r.binding # intent[c].binding => r \in Without(ids)
BY DEF IdsInv, Without

LEMMA QuietCalls ==
    ASSUME TypeInv, KeptInv, NEW c \in Callers,
           \/ AcquireLease(c) \/ LeaseBusy(c) \/ BusyAtBound(c)
           \/ Fetch(c) \/ FetchFails(c) \/ LoadLatest(c) \/ SaveFails(c)
           \/ FailedLoad(c) \/ RecordFailure(c)
    PROVE  KeptInv'
<1> USE DEF TypeInv
<1>1. CASE AcquireLease(c)
  BY <1>1, GotoMoves, QuietKeeps DEF AcquireLease, Quiet, diskVars, ghostVars, Running, Attempt
<1>2. CASE LeaseBusy(c)
  BY <1>2, GotoMoves, IdleMoves, QuietKeeps DEF LeaseBusy, Quiet, diskVars, ghostVars, Running, Attempt
<1>3. CASE BusyAtBound(c)
  BY <1>3, IdleMoves, QuietKeeps DEF BusyAtBound, Quiet, diskVars, ghostVars, Running, Attempt
<1>4. CASE \/ Fetch(c) \/ FetchFails(c) \/ LoadLatest(c) \/ SaveFails(c)
           \/ FailedLoad(c) \/ RecordFailure(c)
  <2>1. /\ UNCHANGED <<diskVars, seen, intent, complete, ghostVars>>
        /\ pc[c] \in Running \ {"ack", "forget", "notify"}
        /\ \E l \in Running \ {"forget"} : Goto(c, l)
    BY <1>4 DEF Fetch, FetchFails, LoadLatest, SaveFails, FailedLoad, RecordFailure, Running,
                Attempt
  <2> QED
    BY <2>1, GotoMoves, QuietKeeps DEF Quiet, diskVars, ghostVars
<1> QED
  BY <1>1, <1>2, <1>3, <1>4

LEMMA QuietScheduler ==
    ASSUME TypeInv, KeptInv,
           \/ SchedulerLoad \/ SchedulerLoadFails \/ CancelLease \/ CancelBusy \/ Revalidate
    PROVE  KeptInv'
<1> USE DEF TypeInv
<1>a. Scheduler \in Callers
  BY DEF Callers
<1>1. CASE SchedulerLoad
  BY <1>1, <1>a, GotoMoves, QuietKeeps
     DEF SchedulerLoad, Quiet, diskVars, ghostVars, Running, Attempt, CallTypes
<1>2. CASE SchedulerLoadFails \/ CancelBusy
  BY <1>2, <1>a, IdleMoves, QuietKeeps
     DEF SchedulerLoadFails, CancelBusy, Quiet, diskVars, ghostVars, Running, Attempt
<1>3. CASE CancelLease
  BY <1>3, <1>a, GotoMoves, QuietKeeps DEF CancelLease, Quiet, diskVars, ghostVars, Running, Attempt
<1>4. CASE Revalidate
  BY <1>4, <1>a, GotoMoves, IdleMoves, QuietKeeps
     DEF Revalidate, Quiet, diskVars, ghostVars, Running, Attempt
<1> QED
  BY <1>1, <1>2, <1>3, <1>4

LEMMA PickKeeps ==
    ASSUME TypeInv, KeptInv, NEW i \in Ids, SchedulerPick(i) PROVE KeptInv'
<1> USE DEF TypeInv
<1>a. Scheduler \in Callers
  BY DEF Callers
<1>1. PICK job \in Jobs : intent' = [intent EXCEPT ![Scheduler] = job]
  BY <1>a DEF SchedulerPick
<1>2. /\ intent'[Scheduler] = job /\ pc'[Scheduler] = "picked"
      /\ \A x \in Callers \ {Scheduler} :
            pc'[x] = pc[x] /\ intent'[x] = intent[x]
      /\ UNCHANGED <<main, requests, queued, started, seen, complete>>
  BY <1>1, <1>a DEF SchedulerPick, CallTypes, Goto, diskVars, ghostVars
<1>3. /\ \A r \in requests :
            r.id \in job.fullRequests \/ (job.request /\ r.id = job.id) => r.binding = job.binding
      /\ OwnsMain(job) => main = job
  BY DEF Jobs, KeptInv, IdsInv, OwnsMain
<1>4. IdsInv'
  BY <1>2, <1>3 DEF KeptInv, IdsInv, OwnsMain
<1>5. WorkInv'
  BY <1>2, <1>a DEF KeptInv, WorkInv, WorkOK, Running, Attempt, SchedulerPick
<1> QED
  BY <1>2, <1>4, <1>5 DEF KeptInv, FullRequestKept, FullRetryKept

LEMMA CancelKeeps == ASSUME TypeInv, LeaseInv, KeptInv, Cancel PROVE KeptInv'
<1> USE DEF TypeInv
<1> DEFINE job == intent[Scheduler]
<1>a. Scheduler \in Callers /\ pc[Scheduler] \in Holding
  BY DEF Callers, Cancel, Holding, Cancelling
<1>b. job \in Intent /\ job.binding \in Bindings /\ job # None
  BY <1>a, JobFields, NoneAssumption DEF CallsOK, CallTypes, Cancel, Cancelling
<1>1. /\ OnlyMoves(Scheduler) /\ pc'[Scheduler] \in {"idle", "cancelForget"}
      /\ intent'[Scheduler] = intent[Scheduler] \/ intent'[Scheduler] = None
      /\ complete'[Scheduler] => complete[Scheduler]
  BY <1>a, IdleMoves, GotoMoves DEF Cancel
<1>2. WorkInv'
  <2>1. WorkOK(Scheduler)'
    BY <1>1, <1>a DEF KeptInv, WorkInv, WorkOK, Cancel, Running, Attempt
  <2> QED
    BY <1>1, <1>a, <2>1, SoloWork DEF KeptInv
<1>3. CASE job.request
  <2>1. requests' = Without({job.id}) /\ queued' = [queued EXCEPT ![job.binding] = "none"]
        /\ UNCHANGED <<main, started>>
    BY <1>3 DEF Cancel, OwnsMain
  <2>2. IdsInv'
    BY <1>1, <2>1, IdsFewer DEF KeptInv, OnlyMoves, Without
  <2>3. FullRequestKept'
    BY <1>3, <1>a, <1>b, <2>1, RemovedIsOf DEF KeptInv, FullRequestKept, RestTypes
  <2> QED
    BY <1>2, <2>1, <2>2, <2>3 DEF KeptInv, FullRetryKept
<1>4. CASE OwnsMain(job)
  <2>1. main' = None /\ started' = [started EXCEPT ![job.binding] = FALSE]
        /\ UNCHANGED <<requests, queued>>
    BY <1>4 DEF Cancel, OwnsMain
  <2>2. IdsInv'
    BY <1>1, <2>1, IdsFewer DEF KeptInv, OnlyMoves
  <2>3. FullRetryKept'
    BY <1>4, <1>a, <1>b, <2>1 DEF KeptInv, IdsInv, FullRetryKept, RestTypes
  <2> QED
    BY <1>2, <2>1, <2>2, <2>3 DEF KeptInv, FullRequestKept
<1>5. CASE ~job.request /\ ~OwnsMain(job)
  <2>1. UNCHANGED <<main, requests, queued, started>>
    BY <1>5 DEF Cancel, diskVars, ghostVars
  <2>2. IdsInv'
    BY <1>1, <2>1, IdsFewer DEF KeptInv, OnlyMoves
  <2> QED
    BY <1>2, <2>1, <2>2 DEF KeptInv, FullRequestKept, FullRetryKept
<1> QED
  BY <1>3, <1>4, <1>5

LEMMA CancelForgetKeeps == ASSUME TypeInv, LeaseInv, KeptInv, CancelForget PROVE KeptInv'
<1> USE DEF TypeInv
<1> DEFINE job == intent[Scheduler]
<1>a. Scheduler \in Callers /\ pc[Scheduler] \in Holding
  BY DEF Callers, CancelForget, Holding, Cancelling
<1>b. job \in Intent /\ job.binding \in Bindings /\ job # None
  BY <1>a, JobFields, NoneAssumption DEF CallsOK, CallTypes, CancelForget, Cancelling
<1>1. OnlyMoves(Scheduler) /\ pc'[Scheduler] = "idle" /\ intent'[Scheduler] = None
      /\ ~complete'[Scheduler]
  BY <1>a, IdleMoves DEF CancelForget
<1>2. WorkInv'
  BY <1>1, <1>a, IdleWork, SoloWork DEF KeptInv
<1>3. IdsInv'
  BY <1>1, IdsFewer DEF KeptInv, OnlyMoves, CancelForget, Without
<1>4. FullRequestKept'
  <2>1. CASE job.fullRequests = {}
    BY <2>1 DEF CancelForget, Without, KeptInv, FullRequestKept
  <2>2. CASE job.fullRequests # {}
    BY <2>2, <1>a, <1>b, RemovedIsOf DEF CancelForget, KeptInv, FullRequestKept, RestTypes
  <2> QED
    BY <2>1, <2>2
<1> QED
  BY <1>2, <1>3, <1>4 DEF KeptInv, FullRetryKept, CancelForget

LEMMA QueueKeeps ==
    ASSUME TypeInv, KeptInv, NEW c \in Callers, QueueFull(c) PROVE KeptInv'
<1> USE DEF TypeInv
<1> DEFINE b == seen[c].binding
<1>a. b \in Bindings
  BY DEF CallsOK, CallTypes, QueueFull, Snapshot
<1>1. PICK i \in FreeIds : requests' = requests \cup {FullRequest(i, b)}
  BY DEF QueueFull
<1>2. /\ FullRequest(i, b).id = i /\ FullRequest(i, b).binding = b
      /\ FullRequest(i, b).request /\ FullRequest(i, b).fullRequests = {}
  BY DEF FullRequest
<1>3. /\ main # None => i # main.id /\ i \notin main.fullRequests
      /\ \A r \in requests : r.id # i
      /\ \A x \in Callers : intent[x] # None => i # intent[x].id /\ i \notin intent[x].fullRequests
  BY <1>1 DEF FreeIds
<1>4. OnlyMoves(c) /\ pc'[c] = "idle" /\ intent'[c] = None /\ ~complete'[c]
  BY IdleMoves DEF QueueFull
<1>5. main' = main /\ started' = started /\ queued' = [queued EXCEPT ![b] = "waiting"]
  BY DEF QueueFull
<1>6. IdsInv'
  BY <1>1, <1>2, <1>3, <1>4, <1>5 DEF KeptInv, IdsInv, OwnsMain, OnlyMoves
<1>7. ASSUME NEW x \in Callers \ {c} PROVE WorkOK(x)'
  <2>1. WorkOK(x) /\ pc'[x] = pc[x] /\ seen'[x] = seen[x] /\ intent'[x] = intent[x]
        /\ complete'[x] = complete[x]
    BY <1>4 DEF KeptInv, WorkInv, OnlyMoves
  <2>2. CASE pc[x] \in Running /\ seen[x].binding = b
    <3>1. intent[x] # None
      BY <2>2 DEF CallsOK
    <3>2. FullRequest(i, b) \in requests' /\ FullRequest(i, b).id \notin intent[x].fullRequests
      BY <1>1, <1>2, <1>3, <3>1
    <3>3. queued'[b] = "waiting"
      BY <1>5, <1>a DEF RestTypes
    <3> QED
      BY <1>2, <1>5, <2>1, <2>2, <3>2, <3>3 DEF WorkOK
  <2>3. CASE pc[x] \in Running /\ seen[x].binding # b
    <3>1. queued'[seen[x].binding] = queued[seen[x].binding]
      BY <1>5, <2>3 DEF RestTypes, CallsOK, CallTypes, Snapshot, Running, Attempt
    <3> QED
      BY <1>1, <1>5, <2>1, <2>3, <3>1 DEF WorkOK
  <2>4. CASE pc[x] \notin Running
    BY <2>1, <2>4 DEF WorkOK
  <2> QED
    BY <2>2, <2>3, <2>4
<1>8. WorkInv'
  BY <1>4, <1>7, IdleWork DEF WorkInv
<1>9. FullRequestKept'
  BY <1>1, <1>2, <1>5 DEF KeptInv, FullRequestKept, RestTypes
<1> QED
  BY <1>5, <1>6, <1>8, <1>9 DEF KeptInv, FullRetryKept

LEMMA BeginKeeps ==
    ASSUME TypeInv, LeaseInv, KeptInv, NEW c \in Callers, Begin(c) PROVE KeptInv'
<1> USE DEF TypeInv
<1> DEFINE b == seen[c].binding
<1>a. b \in Bindings /\ full[c] \in BOOLEAN /\ pid[c] \in Pids \cup {None} /\ pc[c] \in Holding
  BY DEF CallsOK, CallTypes, Begin, Snapshot, Attempt, Holding
<1>1. PICK i \in FreeIds :
        LET job == BeginIntent(i, b, full[c], pid[c]) IN
        /\ main' = job
        /\ intent' = [intent EXCEPT ![c] = job]
        /\ queued' = IF job.full /\ queued[b] = "waiting"
                     THEN [queued EXCEPT ![b] = "taken"] ELSE queued
        /\ started' = [x \in Bindings |-> x = b /\ (started[b] \/ job.full)]
  BY DEF Begin
<1> DEFINE job == BeginIntent(i, b, full[c], pid[c])
<1>2. /\ job.id = i /\ job.binding = b /\ job.request = FALSE
      /\ job.fullRequests = {r.id : r \in RequestsFor(b)}
      /\ job.full = (full[c] \/ PriorFull(b) \/ RequestsFor(b) # {})
  BY DEF BeginIntent
<1>3. job \in Intent /\ job # None
  BY <1>a, BeginType, NoneAssumption DEF FreeIds
<1> HIDE DEF job
<1>4. /\ main' = job /\ intent'[c] = job
      /\ \A x \in Callers \ {c} : intent'[x] = intent[x]
      /\ UNCHANGED <<requests, seen, complete>>
      /\ pc'[c] = "fetch" /\ \A x \in Callers \ {c} : pc'[x] = pc[x]
  BY <1>1 DEF Begin, CallTypes, Goto, job
<1>5. IdsInv'
  <2>1. \A r \in requests : r.id \in job.fullRequests => r.binding = b
    BY <1>2 DEF RequestsFor, KeptInv, IdsInv
  <2>2. \A x \in Callers \ {c} : intent[x] # None => intent[x].id # i
    BY <1>1 DEF FreeIds
  <2> QED
    BY <1>2, <1>4, <2>1, <2>2 DEF KeptInv, IdsInv, OwnsMain
<1>6. /\ queued' = IF job.full /\ queued[b] = "waiting"
                   THEN [queued EXCEPT ![b] = "taken"] ELSE queued
      /\ started' = [x \in Bindings |-> x = b /\ (started[b] \/ job.full)]
  BY <1>1 DEF job
<1>7. queued[b] = "waiting" => job.full
  BY <1>2, <1>a DEF KeptInv, FullRequestKept, RequestsFor
<1>8. WorkOK(c)'
  <2>1. ~complete[c]
    BY DEF KeptInv, WorkInv, WorkOK, Begin
  <2>2. queued'[b] # "waiting"
    BY <1>6, <1>7, <1>a DEF RestTypes
  <2> QED
    BY <1>2, <1>4, <2>1, <2>2 DEF WorkOK, Running, Attempt
<1>9. WorkInv'
  BY <1>4, <1>8, <1>a, SoloWork DEF KeptInv, OnlyMoves
<1>10. FullRequestKept'
  BY <1>4, <1>6 DEF KeptInv, FullRequestKept, RestTypes
<1>11. FullRetryKept'
  <2>1. started[b] => job.full
    BY <1>2, <1>a DEF KeptInv, FullRetryKept, PriorFull
  <2> QED
    BY <1>2, <1>3, <1>4, <1>6, <2>1 DEF FullRetryKept
<1> QED
  BY <1>5, <1>9, <1>10, <1>11 DEF KeptInv

LEMMA SaveKeeps ==
    ASSUME TypeInv, LeaseInv, KeptInv, NEW c \in Callers, NEW whole \in BOOLEAN,
           NEW empty \in BOOLEAN, Save(c, whole, empty)
    PROVE  KeptInv'
<1> USE DEF TypeInv
<1> DEFINE b == seen[c].binding
<1>a. b \in Bindings /\ pc[c] \in Holding /\ pc[c] \in Running
  BY DEF CallsOK, CallTypes, Save, Snapshot, Attempt, Holding, Running
<1>1. /\ UNCHANGED <<main, requests, seen, intent>>
      /\ queued' = IF whole /\ queued[b] = "taken" THEN [queued EXCEPT ![b] = "none"] ELSE queued
      /\ started' = [started EXCEPT ![b] = @ /\ ~whole]
      /\ complete' = [complete EXCEPT ![c] = whole]
  BY DEF Save, diskVars
<1>2. OnlyMoves(c) /\ pc'[c] = "ack" /\ complete'[c] = whole
  BY <1>1, GotoMoves DEF Save, CallTypes
<1>3. WorkOK(c)'
  <2>1. /\ queued'[b] = "waiting" => queued[b] = "waiting"
        /\ whole => queued'[b] # "taken" /\ ~started'[b]
    BY <1>1, <1>a DEF RestTypes
  <2> QED
    BY <1>1, <1>2, <1>a, <2>1 DEF KeptInv, WorkInv, WorkOK
<1>4. WorkInv'
  BY <1>2, <1>3, <1>a, SoloWork DEF KeptInv
<1>5. IdsInv'
  BY <1>1 DEF KeptInv, IdsInv, OwnsMain
<1>6. FullRequestKept' /\ FullRetryKept'
  BY <1>1 DEF KeptInv, FullRequestKept, FullRetryKept, RestTypes
<1> QED
  BY <1>4, <1>5, <1>6 DEF KeptInv

\* The intent file after the attempt of c, its job's files removed or not.
Done(c) ==
    /\ OwnsMain(intent[c])
    /\ IF complete[c] THEN main' = None ELSE main' = Backoff(intent[c])

LEMMA DoneKeeps ==
    ASSUME TypeInv, KeptInv, NEW c \in Callers, pc[c] \in Running, Done(c) \/ main' = main,
           requests' \subseteq requests, UNCHANGED started,
           \A x \in Callers : intent'[x] = intent[x] \/ intent'[x] = None
    PROVE  IdsInv' /\ FullRetryKept'
<1>1. CASE main' = main \/ main' = None
  <2>1. IdsInv'
    BY <1>1, IdsFewer DEF KeptInv
  <2>2. CASE main' = main
    BY <2>1, <2>2 DEF KeptInv, FullRetryKept
  <2>3. CASE main' # main
    <3>1. OwnsMain(intent[c]) /\ complete[c] /\ intent[c] \in Intent /\ intent[c] # None
      BY <1>1, <2>3, BackoffType, NoneAssumption DEF Done, TypeInv, CallsOK, CallTypes
    <3>2. main.binding = seen[c].binding /\ ~started[seen[c].binding]
      BY <3>1 DEF KeptInv, IdsInv, WorkInv, WorkOK
    <3>3. \A x \in Bindings : ~started[x]
      BY <3>2 DEF KeptInv, FullRetryKept
    <3> QED
      BY <2>1, <3>3 DEF FullRetryKept
  <2> QED
    BY <2>2, <2>3
<1>2. CASE OwnsMain(intent[c]) /\ main' = Backoff(intent[c])
  <2>1. intent[c] \in Intent /\ intent[c] # None
    BY NoneAssumption DEF TypeInv, CallsOK, CallTypes
  <2>2. /\ main' # None /\ main'.id = main.id /\ main'.binding = main.binding
        /\ main'.full = main.full /\ main'.fullRequests = intent[c].fullRequests
        /\ ~main'.request /\ main.binding = intent[c].binding
    <3> DEFINE job == intent[c]
    <3>1. /\ Backoff(job) \in Intent /\ Backoff(job).id = job.id
          /\ Backoff(job).binding = job.binding /\ Backoff(job).request = job.request
          /\ Backoff(job).fullRequests = job.fullRequests
      BY <2>1, BackoffType
    <3>2. Backoff(job).full = job.full
      BY <2>1 DEF Backoff, Intent
    <3>3. ~job.request /\ main # None /\ main.id = job.id
      BY <1>2 DEF OwnsMain
    <3>4. main.binding = job.binding /\ main.full = job.full
      BY <1>2, <2>1 DEF KeptInv, IdsInv
    <3>5. Backoff(job) # None
      BY <3>1, NoneAssumption
    <3> HIDE DEF job
    <3> QED
      BY <1>2, <3>1, <3>2, <3>3, <3>4, <3>5 DEF job
  <2>3. IdsInv'
    BY <1>2, <2>1, <2>2 DEF KeptInv, IdsInv, OwnsMain
  <2>4. FullRetryKept'
    BY <1>2, <2>2 DEF KeptInv, FullRetryKept, OwnsMain
  <2> QED
    BY <2>3, <2>4
<1> QED
  BY <1>1, <1>2 DEF Done

\* The requests a completed attempt captured are removed.
LEMMA CapturedGo ==
    ASSUME TypeInv, KeptInv, NEW c \in Callers, pc[c] \in Running, complete[c],
           requests' = Without(intent[c].fullRequests),
           \A x \in Bindings : queued'[x] = "none" <=> queued[x] = "none"
    PROVE  FullRequestKept'
<1> SUFFICES ASSUME NEW x \in Bindings, queued[x] # "none"
             PROVE  \E r \in requests' : r.binding = x
  BY DEF FullRequestKept
<1>1. intent[c] # None /\ intent[c].binding = seen[c].binding
  BY DEF TypeInv, CallsOK, KeptInv, WorkInv, WorkOK
<1>2. CASE x = seen[c].binding
  <2>1. queued[x] = "waiting"
    BY <1>2 DEF TypeInv, RestTypes, KeptInv, WorkInv, WorkOK
  <2> QED
    BY <1>2, <2>1 DEF KeptInv, WorkInv, WorkOK, Without
<1>3. CASE x # seen[c].binding
  BY <1>1, <1>3, RemovedIsOf DEF KeptInv, FullRequestKept
<1> QED
  BY <1>2, <1>3

LEMMA EndKeeps ==
    ASSUME TypeInv, LeaseInv, KeptInv, NEW c \in Callers,
           Acknowledge(c) \/ ForgetRequests(c) \/ Release(c)
    PROVE  KeptInv'
<1> USE DEF TypeInv
<1>a. pc[c] \in Running /\ pc[c] \in Holding
  BY DEF Acknowledge, ForgetRequests, Release, Running, Attempt, Holding
<1>1. CASE Acknowledge(c)
  <2>1. /\ Done(c) \/ main' = main
        /\ UNCHANGED <<requests, queued, started, intent, seen, complete>>
        /\ Goto(c, "notify") \/ (Goto(c, "forget") /\ complete[c])
    BY <1>1 DEF Acknowledge, Done, ghostVars
  <2>2. OnlyMoves(c) /\ (pc'[c] = "notify" \/ (pc'[c] = "forget" /\ complete[c]))
    BY <2>1, GotoMoves
  <2>3. WorkOK(c)'
    BY <1>a, <2>1, <2>2 DEF KeptInv, WorkInv, WorkOK
  <2>4. WorkInv'
    BY <1>a, <2>2, <2>3, SoloWork DEF KeptInv
  <2>5. IdsInv' /\ FullRetryKept'
    BY <1>a, <2>1, DoneKeeps
  <2> QED
    BY <2>1, <2>4, <2>5 DEF KeptInv, FullRequestKept
<1>2. CASE ForgetRequests(c)
  <2>1. /\ requests' = Without(intent[c].fullRequests) /\ complete[c]
        /\ UNCHANGED <<main, queued, started, intent, seen, complete>>
    BY <1>2 DEF ForgetRequests, ghostVars, KeptInv, WorkInv, WorkOK
  <2>2. OnlyMoves(c) /\ pc'[c] = "notify"
    BY <1>2, GotoMoves DEF ForgetRequests
  <2>3. WorkOK(c)'
    BY <1>a, <2>1, <2>2 DEF KeptInv, WorkInv, WorkOK, Without
  <2>4. WorkInv'
    BY <1>a, <2>2, <2>3, SoloWork DEF KeptInv
  <2>5. IdsInv' /\ FullRetryKept'
    BY <1>a, <2>1, DoneKeeps DEF Without
  <2>6. FullRequestKept'
    BY <1>a, <2>1, CapturedGo
  <2> QED
    BY <2>4, <2>5, <2>6 DEF KeptInv
<1>3. CASE Release(c)
  <2>1. /\ OnlyMoves(c) /\ pc'[c] = "idle" /\ intent'[c] = None /\ ~complete'[c]
        /\ UNCHANGED started /\ Untake
    BY <1>3, IdleMoves DEF Release
  <2>2. WorkInv'
    BY <1>a, <2>1, IdleWork, SoloWork DEF KeptInv
  <2>3. /\ Done(c) \/ main' = main
        /\ requests' = requests \/ (complete[c] /\ requests' = Without(intent[c].fullRequests))
    BY <1>3 DEF Release, Done, diskVars
  <2>4. IdsInv' /\ FullRetryKept'
    BY <1>a, <2>1, <2>3, DoneKeeps DEF Without, OnlyMoves
  <2>5. \A x \in Bindings : queued'[x] = "none" <=> queued[x] = "none"
    BY <2>1 DEF Untake, RestTypes
  <2>6. FullRequestKept'
    BY <1>a, <2>3, <2>5, CapturedGo DEF KeptInv, FullRequestKept
  <2> QED
    BY <2>2, <2>4, <2>6 DEF KeptInv
<1> QED
  BY <1>1, <1>2, <1>3

LEMMA ElapseKeeps == ASSUME TypeInv, KeptInv, NEW i \in Ids, Elapse(i) PROVE KeptInv'
<1> USE DEF TypeInv
<1>1. UNCHANGED <<queued, started, pc, seen, intent, complete>>
  BY DEF Elapse, callVars, ghostVars
<1>2. CASE main # None /\ main' = [main EXCEPT !.elapsed = TRUE] /\ requests' = requests
  <2>1. /\ main' # None /\ main'.id = main.id /\ main'.binding = main.binding
        /\ main'.fullRequests = main.fullRequests /\ main'.request = main.request
        /\ main'.full = main.full
    BY <1>2, ElapsedType, NoneAssumption DEF DiskTypes, Intent
  <2>2. IdsInv'
    BY <1>1, <1>2, <2>1 DEF KeptInv, IdsInv, OwnsMain
  <2> QED
    BY <1>1, <1>2, <2>1, <2>2 DEF KeptInv, WorkInv, WorkOK, FullRequestKept, FullRetryKept
<1>3. ASSUME NEW r \in requests, main' = main,
             requests' = (requests \ {r}) \cup {[r EXCEPT !.elapsed = TRUE]}
      PROVE  KeptInv'
  <2> DEFINE late == [r EXCEPT !.elapsed = TRUE]
  <2>1. /\ late.id = r.id /\ late.binding = r.binding
        /\ late.fullRequests = r.fullRequests /\ late.request = r.request
    BY ElapsedType DEF DiskTypes
  <2> HIDE DEF late
  <2>2. requests' = (requests \ {r}) \cup {late}
    BY <1>3 DEF late
  <2>3. IdsInv'
    BY <1>1, <1>3, <2>1, <2>2 DEF KeptInv, IdsInv, OwnsMain
  <2>4. ASSUME NEW x \in Callers PROVE WorkOK(x)'
    BY <1>1, <2>1, <2>2 DEF KeptInv, WorkInv, WorkOK
  <2>5. FullRequestKept' /\ FullRetryKept'
    BY <1>1, <1>3, <2>1, <2>2 DEF KeptInv, FullRequestKept, FullRetryKept
  <2> QED
    BY <2>3, <2>4, <2>5 DEF KeptInv, WorkInv
<1> QED
  BY <1>2, <1>3 DEF Elapse

LEMMA CrashKeeps ==
    ASSUME TypeInv, LeaseInv, KeptInv, NEW p \in Pids, Crash(p) PROVE KeptInv'
<1> USE DEF TypeInv
<1>1. /\ UNCHANGED <<main, requests, started>>
      /\ \A x \in Callers :
            \/ pid[x] = p /\ pc'[x] = "idle" /\ intent'[x] = None /\ ~complete'[x]
            \/ /\ pid[x] # p /\ pc'[x] = pc[x] /\ seen'[x] = seen[x] /\ intent'[x] = intent[x]
               /\ complete'[x] = complete[x]
  BY DEF Crash, diskVars
<1>2. \/ queued' = queued
      \/ lease # None /\ pid[lease] = p /\ Untake
  BY DEF Crash
<1>3. ASSUME NEW x \in Callers PROVE WorkOK(x)'
  <2>1. CASE pid[x] = p
    BY <1>1, <2>1 DEF WorkOK, Running, Attempt
  <2>2. CASE pid[x] # p
    <3>1. pc[x] \in Running => queued' = queued
      BY <1>2, <2>2 DEF LeaseInv, Holding, Running
    <3> QED
      BY <1>1, <2>2, <3>1 DEF KeptInv, WorkInv, WorkOK
  <2> QED
    BY <2>1, <2>2
<1>4. IdsInv'
  BY <1>1, IdsFewer DEF KeptInv
<1>5. \A x \in Bindings : queued'[x] = "none" <=> queued[x] = "none"
  BY <1>2 DEF Untake, RestTypes
<1> QED
  BY <1>1, <1>3, <1>4, <1>5 DEF KeptInv, WorkInv, FullRequestKept, FullRetryKept

LEMMA KeptStep == ASSUME TypeInv, LeaseInv, KeptInv, [Next]_vars PROVE KeptInv'
<1>a. Scheduler \in Callers /\ Users \subseteq Callers
  BY DEF Callers
<1>1. ASSUME NEW c \in Callers, Step(c) PROVE KeptInv'
  BY <1>1, QuietCalls, QueueKeeps, BeginKeeps, SaveKeeps, EndKeeps DEF Step
<1>2. CASE SchedulerStep
  BY <1>2, QuietScheduler, CancelKeeps, CancelForgetKeeps DEF SchedulerStep
<1>3. ASSUME NEW c \in Users, NEW asked \in BOOLEAN, UserCall(c, asked) PROVE KeptInv'
  BY <1>3, <1>a, GotoMoves, QuietKeeps
     DEF UserCall, Quiet, diskVars, ghostVars, Running, Attempt, TypeInv, CallTypes
<1>4. ASSUME UNCHANGED <<main, requests, queued, started, pc, seen, intent, complete>>
      PROVE  KeptInv'
  BY <1>4 DEF KeptInv, IdsInv, OwnsMain, WorkInv, WorkOK, FullRequestKept, FullRetryKept
<1>5. CASE Environment
  BY <1>4, <1>5, ElapseKeeps, CrashKeeps
     DEF Environment, Rebind, SwitchEnabled, SaveElsewhere, EditConnection, Spawn, diskVars,
         callVars, ghostVars
<1>6. CASE UNCHANGED vars
  BY <1>4, <1>6 DEF vars, diskVars, callVars, ghostVars
<1> QED
  BY <1>1, <1>2, <1>3, <1>5, <1>6, PickKeeps DEF Next

LEMMA KeptInvariant == Spec => []KeptInv
<1>1. Init => KeptInv
  BY DEF Init, KeptInv, IdsInv, WorkInv, WorkOK, Running, Attempt, FullRequestKept, FullRetryKept
<1>2. TypeInv /\ LeaseInv /\ KeptInv /\ [Next]_vars => KeptInv'
  BY KeptStep
<1> QED
  BY <1>1, <1>2, TypeInvariant, LeaseInvariant, PTL DEF Spec

\* A Full request that arrived during another sync stays on disk until a full
\* attempt that began after it has saved everything, or its work is cancelled.
\* The argument: an attempt removes the requests it captured, and one that waits
\* beside it was not among them; a cancellation removes those of one binding.
THEOREM FullRequestsStay == Spec => []FullRequestKept
<1>1. KeptInv => FullRequestKept
  BY DEF KeptInv
<1> QED
  BY <1>1, KeptInvariant, PTL

\* The retry intent says full until a full attempt has saved everything or one of
\* another binding takes its place, for every number of attempts and crashes.
THEOREM FullRetriesStay == Spec => []FullRetryKept
<1>1. KeptInv => FullRetryKept
  BY DEF KeptInv
<1> QED
  BY <1>1, KeptInvariant, PTL
=============================================================================
