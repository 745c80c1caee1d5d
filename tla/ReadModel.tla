------------------------------ MODULE ReadModel ------------------------------
(***************************************************************************)
(* The saved read model of one user (src/src/state): a refresher that      *)
(* recalculates it from the investor document and the daily snapshots, the *)
(* batches of a sync that put the refresh off, the worker that looks after *)
(* it every minute, and the pages that show it only while its fingerprint  *)
(* is that of the document they have read.                                 *)
(*                                                                         *)
(* All of it runs on the event loop of one process: a step is what happens *)
(* between two awaits.  Users do not meet, except that the worker takes    *)
(* them one after the other.  Tools and syncs that wait for a refresh are  *)
(* jobs; requests of pages are pages.                                      *)
(***************************************************************************)
EXTENDS Integers, Sequences, FiniteSets

CONSTANTS
  Jobs,        \* syncs and tools: each one batch, or one refresh waited for
  Pages,       \* requests of pages
  None,
  Attempts,    \* calculations before a refresh gives up
  MaxSaves,    \* bound on saves of the document
  MaxSnaps,    \* bound on daily snapshots written
  MaxFaults    \* bound on crashes and failed calculations

(* What a fingerprint covers: the content of the document that counts, and    *)
(* the daily snapshots.                                                       *)
Parts == {"document", "snapshots"}
Finger == [Parts -> Nat]

(* The document, a refresh asked for, and the refresh at work. *)
Document == [rev : Nat, content : Nat]
Asked == [by : Jobs \cup {"event", "worker"}, force : BOOLEAN, of : Nat, since : Finger]
Task == [by : Jobs \cup {"event", "worker"}, force : BOOLEAN, of : Nat, since : Finger,
         at : {"load", "print", "reload", "publish", "wire"}, attempt : 1 .. Attempts,
         read : Nat, print : Finger]

ASSUME ReadModelAssumption ==
  /\ Attempts \in Nat \ {0}
  /\ MaxSaves \in Nat /\ MaxSnaps \in Nat /\ MaxFaults \in Nat
  /\ None \notin Finger /\ None \notin [no : Nat, depth : Nat, dirty : BOOLEAN]
  /\ None \notin Task
  /\ None \notin Jobs /\ None \notin Pages
  /\ IsFiniteSet(Jobs)
  /\ "event" \notin Jobs /\ "worker" \notin Jobs

VARIABLES
  doc,       \* the stored document: its revision, and its content that counts
  snaps,     \* the daily snapshots on disk
  shown,     \* fingerprint of the read model on disk
  unheard,   \* saves committed and not yet announced
  batch,     \* the batch in progress: number, depth, whether a save marked it
  batches,   \* number of batches begun
  queue,     \* refreshes asked for, behind the one at work
  task,      \* the refresh at work
  job,       \* where each job is, and what its last refresh has come to
  page,      \* where each request is: revision wanted, document read, model got
  cached,    \* the document cached for reading
  loading,   \* the page whose load of the document others may share
  missed,    \* whether a failure, a crash or a cleared mark lost a refresh
  faults

vars == <<doc, snaps, shown, unheard, batch, batches, queue, task, job, page,
          cached, loading, missed, faults>>
reading == <<page, cached, loading>>

-----------------------------------------------------------------------------
Fingerprint(content) == [p \in Parts |-> IF p = "document" THEN content ELSE snaps]
Source == Fingerprint(doc.content)

(* The stored model counts only under the fingerprint of the source.         *)
\* Mutant: any stored model is good enough.
AnyStored(print) == shown # None
Stored(print) == shown = print

(* A refresh asked for: by a job, with what it saw, or by nobody who waits.  *)
Nothing == [p \in Parts |-> 0]
Unattended(who) == [by |-> who, force |-> FALSE, of |-> 0, since |-> Nothing]
Request(j) == [by |-> j, force |-> FALSE, of |-> 0, since |-> Source]

(* The number of the batch that the call refers to; 0 for none. *)
BatchNow == IF batch = None THEN 0 ELSE batch.no

-----------------------------------------------------------------------------
(* Saves.  The announcement follows the commit after an await.                *)

Save(counts) ==
  /\ doc.rev < MaxSaves
  /\ doc' = [rev |-> doc.rev + 1, content |-> doc.content + (IF counts THEN 1 ELSE 0)]
  /\ unheard' = unheard + 1
  /\ UNCHANGED <<snaps, shown, batch, batches, queue, task, job, reading, missed, faults>>

\* Mutant: a save during a batch is forgotten.
NotMarked(b) == b
Marked(b) == [b EXCEPT !.dirty = TRUE]

PortfolioStateSaved ==
  /\ unheard > 0
  /\ unheard' = unheard - 1
  /\ IF batch # None
     THEN batch' = Marked(batch) /\ UNCHANGED queue
     ELSE queue' = Append(queue, Unattended("event")) /\ UNCHANGED batch
  /\ UNCHANGED <<doc, snaps, shown, batches, task, job, reading, missed, faults>>

-----------------------------------------------------------------------------
(* Jobs: batches, snapshots, and refreshes waited for.                        *)

At(j, where) == job' = [job EXCEPT ![j].at = where]
Waits(j, where) == job' = [job EXCEPT ![j] = [at |-> where, status |-> "pending"]]

EnterBatch(j) ==
  /\ job[j].at = "idle"
  /\ IF batch = None
     THEN /\ batch' = [no |-> batches + 1, depth |-> 1, dirty |-> FALSE]
          /\ batches' = batches + 1
     ELSE batch' = [batch EXCEPT !.depth = @ + 1] /\ UNCHANGED batches
  /\ At(j, "in")
  /\ UNCHANGED <<doc, snaps, shown, unheard, queue, task, reading, missed, faults>>

(* A snapshot is written and the refresh forced; a job of its own ends then.  *)
CaptureSnapshot(j) ==
  /\ job[j].at \in {"idle", "in"}
  /\ snaps < MaxSnaps
  /\ snaps' = snaps + 1
  /\ queue' = Append(queue, [Request(j) EXCEPT !.force = TRUE, !.of = BatchNow,
                                                !.since["snapshots"] = @ + 1])
  /\ Waits(j, IF job[j].at = "in" THEN "forced" ELSE "asked")
  /\ UNCHANGED <<doc, shown, unheard, batch, batches, task, reading, missed, faults>>

RefreshAfterSync(j) ==
  /\ job[j].at \in {"idle", "in"}
  /\ IF batch # None
     THEN /\ batch' = Marked(batch)
          /\ job' = [job EXCEPT ![j].at = IF @ = "idle" THEN "done" ELSE @]
          /\ UNCHANGED queue
     ELSE /\ queue' = Append(queue, Request(j))
          /\ Waits(j, "asked")
          /\ UNCHANGED batch
  /\ UNCHANGED <<doc, snaps, shown, unheard, batches, task, reading, missed, faults>>

\* Mutant: the batch stays after its last job.
NeverLast(b) == FALSE
LastOut(b) == b.depth = 1

LeaveBatch(j) ==
  /\ job[j].at = "in"
  /\ IF ~LastOut(batch)
     THEN /\ batch' = [batch EXCEPT !.depth = @ - 1]
          /\ At(j, "done")
          /\ UNCHANGED queue
     ELSE /\ batch' = None
          /\ IF batch.dirty
             THEN queue' = Append(queue, Request(j)) /\ Waits(j, "ending")
             ELSE UNCHANGED queue /\ At(j, "done")
  /\ UNCHANGED <<doc, snaps, shown, unheard, batches, task, reading, missed, faults>>

(* The worker's turn for this user; it waits for its refresh. *)
WorkerBusy == \/ task # None /\ task.by = "worker"
              \/ \E n \in 1 .. Len(queue) : queue[n].by = "worker"
Tick ==
  /\ ~WorkerBusy
  /\ batch = None
  /\ queue' = Append(queue, Unattended("worker"))
  /\ UNCHANGED <<doc, snaps, shown, unheard, batch, batches, task, job, reading, missed, faults>>

-----------------------------------------------------------------------------
(* The refresher: one refresh after the other.  The document is read twice,  *)
(* and each time the fingerprint is taken after the read has come back.       *)

Begin ==
  /\ task = None
  /\ queue # <<>>
  /\ task' = [by |-> Head(queue).by, force |-> Head(queue).force, of |-> Head(queue).of,
              since |-> Head(queue).since, at |-> "load", attempt |-> 1, read |-> 0,
              print |-> Nothing]
  /\ queue' = Tail(queue)
  /\ UNCHANGED <<doc, snaps, shown, unheard, batch, batches, job, reading, missed, faults>>

(* Its reads find a cached document of this revision or bring one. *)
Read(next) ==
  /\ task' = [task EXCEPT !.read = doc.content, !.at = next]
  /\ cached' = doc
  /\ UNCHANGED <<doc, snaps, shown, unheard, batch, batches, queue, job, page, loading,
                 missed, faults>>

Load == task # None /\ task.at = "load" /\ Read("print")
Reload == task # None /\ task.at = "reload" /\ Read("publish")

(* The answer: whoever waits goes on; a forced refresh clears its batch's mark. *)
Clears(ok) == ok /\ task.of # 0 /\ BatchNow = task.of
After(where) == IF where = "forced" THEN "in" ELSE "done"

Answer(ok) ==
  /\ task' = None
  /\ job' = [j \in Jobs |-> IF j = task.by
               THEN [at |-> After(job[j].at), status |-> IF ok THEN "ready" ELSE "failed"]
               ELSE job[j]]
  /\ batch' = IF Clears(ok) THEN [batch EXCEPT !.dirty = FALSE] ELSE batch
  /\ missed' = (missed \/ ~ok \/ (Clears(ok) /\ batch.dirty /\ shown # Source))
  /\ UNCHANGED <<doc, snaps, unheard, batches, queue, reading>>

(* Nothing to do, or calculate: the calculation itself changes no state. *)
Calculate ==
  /\ task # None
  /\ task.at = "print"
  /\ IF ~task.force /\ Stored(Fingerprint(task.read))
     THEN Answer(TRUE)
     ELSE /\ task' = [task EXCEPT !.print = Fingerprint(task.read), !.at = "reload"]
          /\ UNCHANGED <<doc, snaps, unheard, batch, batches, queue, job, reading, missed>>
  /\ UNCHANGED <<shown, faults>>

Publish ==
  /\ task # None
  /\ task.at = "publish"
  /\ Fingerprint(task.read) = task.print
  /\ shown' = task.print
  /\ task' = [task EXCEPT !.at = "wire"]
  /\ UNCHANGED <<doc, snaps, unheard, batch, batches, queue, job, reading, missed, faults>>

Again ==
  /\ task # None
  /\ task.at = "publish"
  /\ Fingerprint(task.read) # task.print
  /\ IF task.attempt < Attempts
     THEN /\ task' = [task EXCEPT !.attempt = @ + 1, !.at = "load", !.print = Nothing]
          /\ UNCHANGED <<doc, snaps, unheard, batch, batches, queue, job, reading, missed>>
     ELSE Answer(FALSE)
  /\ UNCHANGED <<shown, faults>>

(* The compressed copy of the dashboard is prepared by a thread. *)
WireReady ==
  /\ task # None
  /\ task.at = "wire"
  /\ Answer(TRUE)
  /\ UNCHANGED <<shown, faults>>

(* A read, a calculation or the thread fails. *)
Fail ==
  /\ task # None
  /\ faults < MaxFaults
  /\ faults' = faults + 1
  /\ Answer(FALSE)
  /\ UNCHANGED shown

-----------------------------------------------------------------------------
(* Pages.  Each asks for the current revision first; then the cached          *)
(* document of this revision will do, or the load of another page if what it  *)
(* brings is recent enough.                                                   *)

Idle == [at |-> "idle", want |-> 0, asked |-> 0, on |-> None, read |-> None, got |-> None]
Gone == [Idle EXCEPT !.at = "served"]

Ask(q) ==
  /\ page[q].at = "idle"
  /\ page' = [page EXCEPT ![q] = [@ EXCEPT !.at = "known", !.want = doc.rev, !.asked = doc.content]]
  /\ UNCHANGED <<doc, snaps, shown, unheard, batch, batches, queue, task, job, cached, loading,
                 missed, faults>>

(* A page shows the model if its fingerprint is that of the document read. *)
Served(q, read) ==
  IF Stored(Fingerprint(read.content))
  THEN [Gone EXCEPT !.asked = page[q].asked, !.got = shown]
  ELSE Gone
Loading(q) == [page[q] EXCEPT !.at = "load", !.on = None]

Known(q) ==
  /\ page[q].at = "known"
  /\ \/ /\ cached # None
        /\ cached.rev = page[q].want
        /\ page' = [page EXCEPT ![q] = Served(q, cached)]
        /\ UNCHANGED loading
     \/ /\ cached # None => cached.rev # page[q].want
        /\ loading # None
        /\ page' = [page EXCEPT ![q] = [@ EXCEPT !.at = "waiting", !.on = loading]]
        /\ UNCHANGED loading
     \/ /\ cached # None => cached.rev # page[q].want
        /\ loading = None
        /\ page' = [page EXCEPT ![q] = Loading(q)]
        /\ loading' = q
  /\ UNCHANGED <<doc, snaps, shown, unheard, batch, batches, queue, task, job, cached,
                 missed, faults>>

LoadRead(q) ==
  /\ page[q].at = "load"
  /\ page' = [page EXCEPT ![q] = [@ EXCEPT !.at = "loaded", !.read = doc]]
  /\ UNCHANGED <<doc, snaps, shown, unheard, batch, batches, queue, task, job, cached, loading,
                 missed, faults>>

\* Mutant: whoever waits for a load takes what it brings.
AnyRead(q, read) == TRUE
RecentEnough(q, read) == read.rev >= page[q].want

(* A load comes back, to its page and to those waiting; for whom it is too   *)
(* old, they load for themselves, the last of them to be shared from then.    *)
LoadDone(q) ==
  LET read    == page[q].read
      waiting == {p \in Pages : page[p].at = "waiting" /\ page[p].on = q}
      late    == {p \in waiting : ~RecentEnough(p, read)}
  IN  /\ page[q].at = "loaded"
      /\ cached' = read
      /\ page' = [p \in Pages |-> IF p \in late THEN Loading(p)
                                  ELSE IF p = q \/ p \in waiting THEN Served(p, read)
                                  ELSE page[p]]
      /\ IF late # {} THEN loading' \in late
         ELSE loading' = IF loading = q THEN None ELSE loading
      /\ UNCHANGED <<doc, snaps, shown, unheard, batch, batches, queue, task, job,
                     missed, faults>>

-----------------------------------------------------------------------------
(* The process dies: what is on disk and in the database stays.              *)

Crash ==
  /\ faults < MaxFaults
  /\ faults' = faults + 1
  /\ unheard' = 0
  /\ batch' = None
  /\ queue' = <<>>
  /\ task' = None
  /\ job' = [j \in Jobs |-> IF job[j].at = "idle" THEN job[j] ELSE [job[j] EXCEPT !.at = "done"]]
  /\ page' = [q \in Pages |-> IF page[q].at \in {"idle", "served"} THEN page[q] ELSE Gone]
  /\ cached' = None
  /\ loading' = None
  /\ missed' = TRUE
  /\ UNCHANGED <<doc, snaps, shown, batches>>

Init ==
  /\ doc = [rev |-> 0, content |-> 0]
  /\ snaps = 0
  /\ shown = None
  /\ unheard = 0
  /\ batch = None
  /\ batches = 0
  /\ queue = <<Unattended("worker")>>
  /\ task = None
  /\ job = [j \in Jobs |-> [at |-> "idle", status |-> "pending"]]
  /\ page = [q \in Pages |-> Idle]
  /\ cached = None
  /\ loading = None
  /\ missed = FALSE
  /\ faults = 0

Refresher == Begin \/ Load \/ Calculate \/ Reload \/ Publish \/ Again \/ WireReady

Next ==
  \/ \E counts \in BOOLEAN : Save(counts)
  \/ PortfolioStateSaved
  \/ \E j \in Jobs : EnterBatch(j) \/ CaptureSnapshot(j) \/ RefreshAfterSync(j) \/ LeaveBatch(j)
  \/ Tick
  \/ Refresher
  \/ Fail
  \/ \E q \in Pages : Ask(q) \/ Known(q) \/ LoadRead(q) \/ LoadDone(q)
  \/ Crash

Spec == Init /\ [][Next]_vars

(* The timer of the worker fires, calculations end, jobs leave their batch.  *)
FairSpec ==
  /\ Spec
  /\ WF_vars(Tick) /\ WF_vars(Refresher) /\ WF_vars(PortfolioStateSaved)
  /\ \A j \in Jobs : WF_vars(LeaveBatch(j))

-----------------------------------------------------------------------------
(***************************************************************************)
(* Types: a batch has somebody in it and is over with its last job         *)
(* (projection-events.ts:16), a refresh tries a bounded number of times.   *)
(***************************************************************************)
TypeOK ==
  /\ doc \in Document
  /\ snaps \in Nat
  /\ shown \in Finger \cup {None}
  /\ unheard \in Nat
  /\ batch \in [no : Nat, depth : Nat \ {0}, dirty : BOOLEAN] \cup {None}
  /\ batches \in Nat
  /\ queue \in Seq(Asked)
  /\ task \in Task \cup {None}
  /\ job \in [Jobs -> [at : {"idle", "in", "forced", "asked", "ending", "done"},
                       status : {"pending", "ready", "failed"}]]
  /\ page \in [Pages -> [at : {"idle", "known", "waiting", "load", "loaded", "served"},
                         want : Nat, asked : Nat, on : Pages \cup {None},
                         read : Document \cup {None}, got : Finger \cup {None}]]
  /\ cached \in Document \cup {None}
  /\ loading \in Pages \cup {None}
  /\ missed \in BOOLEAN
  /\ faults \in Nat

(***************************************************************************)
(* The read model is a view that lags: it shows only what document and     *)
(* snapshots were, never goes back, and catches up once they rest, whatever *)
(* failed, crashed or was forgotten before ("background refresh will       *)
(* retry", portfolio-projections.ts:59).                                   *)
(***************************************************************************)
View == INSTANCE LaggingView WITH source <- Source, view <- shown
ViewCatchesUp == View!FairSpec
ViewLags == View!Spec

(***************************************************************************)
(* A page never shows a model older than the document was when it asked    *)
(* ("Fresh revision check on every read", read-model-state.ts:13), with    *)
(* any sharing of cached documents and loads between pages.                *)
(***************************************************************************)
PagesFresh == \A q \in Pages : page[q].got # None => page[q].got["document"] >= page[q].asked

(***************************************************************************)
(* "sync completion additionally waits for it" (projection-events.ts:26):  *)
(* who is told that the calculation is ready finds in the model all that   *)
(* was saved when it asked, never the outcome of an earlier refresh.       *)
(***************************************************************************)
ReadyCovers ==
  [][\A j \in Jobs : task # None /\ task.by = j /\ task' = None /\ job'[j].status = "ready"
       => shown # None /\ View!Covers(shown, task.since)]_vars

(***************************************************************************)
(* "State writes enqueue a refresh" (projection-events.ts:26): unless a    *)
(* refresh failed, the process died, or the mark of a batch was cleared    *)
(* for a save made while the forced refresh was at work (line 38), a model *)
(* that is behind has a refresh asked for, without waiting for the worker. *)
(***************************************************************************)
RefreshDue ==
  \/ unheard > 0
  \/ queue # <<>>
  \/ task # None
  \/ batch # None /\ batch.dirty
SavesCovered == shown # Source => (RefreshDue \/ missed)
=============================================================================
