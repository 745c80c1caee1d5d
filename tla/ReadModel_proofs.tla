-------------------------- MODULE ReadModel_proofs --------------------------
(* Proofs about ReadModel: types, the view that lags, pages that are fresh,  *)
(* and saves that a refresh is due for.                                      *)
EXTENDS ReadModel, FiniteSetTheorems, TLAPS

(* What an action of one kind leaves alone. *)
OutsideReading == <<doc, snaps, shown, unheard, batch, batches, queue, task, job, missed, faults>>

-----------------------------------------------------------------------------
(* Fingerprints.                                                             *)

LEMMA FingerType == ASSUME TypeOK, NEW content \in Nat
                    PROVE  /\ Fingerprint(content) \in Finger
                           /\ Fingerprint(content)["document"] = content
                           /\ Fingerprint(content)["snapshots"] = snaps
BY DEF Fingerprint, Finger, Parts, TypeOK

LEMMA SourceType == ASSUME TypeOK PROVE Source \in Finger
BY FingerType DEF Source, TypeOK, Document

LEMMA NothingType == Nothing \in Finger
BY DEF Nothing, Finger

LEMMA RequestType ==
    ASSUME TypeOK
    PROVE  /\ \A j \in Jobs : Request(j) \in Asked
           /\ Unattended("event") \in Asked /\ Unattended("worker") \in Asked
BY SourceType, NothingType DEF Request, Unattended, Asked

LEMMA CoversParts ==
    ASSUME NEW new, NEW old
    PROVE  View!Covers(new, old) <=> /\ old["document"] <= new["document"]
                                     /\ old["snapshots"] <= new["snapshots"]
BY DEF View!Covers, Parts

-----------------------------------------------------------------------------
(* The depth of a batch is the number of jobs in it, so a job that is in     *)
(* finds its batch, and the last one out ends it.                            *)

Inside == {j \in Jobs : job[j].at \in {"in", "forced"}}
DepthCounts == IF batch = None THEN Inside = {} ELSE batch.depth = Cardinality(Inside)

LEMMA InsideFinite == /\ IsFiniteSet(Inside)
                      /\ Cardinality(Inside) \in Nat
                      /\ Inside = {} <=> Cardinality(Inside) = 0
<1>1. Inside \subseteq Jobs
  BY DEF Inside
<1> QED
  BY <1>1, FS_Subset, FS_CardinalityType, FS_EmptySet, ReadModelAssumption

LEMMA InType ==
    ASSUME TypeOK, DepthCounts, NEW j \in Jobs, job[j].at \in {"in", "forced"}
    PROVE  batch # None
BY DEF DepthCounts, Inside

-----------------------------------------------------------------------------
(* Types.                                                                    *)

LEMMA AnswerType ==
    ASSUME TypeOK, task # None, NEW ok \in BOOLEAN, Answer(ok), shown' \in Finger \cup {None},
           faults' \in Nat
    PROVE  TypeOK'
<1>1. job' \in [Jobs -> [at : {"idle", "in", "forced", "asked", "ending", "done"},
                         status : {"pending", "ready", "failed"}]]
  BY DEF Answer, After, TypeOK
<1>2. batch' \in [no : Nat, depth : Nat \ {0}, dirty : BOOLEAN] \cup {None}
  <2>1. CASE Clears(ok)
    <3>1. batch # None
      <4>1. task.of # 0 /\ BatchNow = task.of
        BY <2>1 DEF Clears
      <4> QED
        BY <4>1 DEF BatchNow
    <3> QED
      BY <2>1, <3>1 DEF Answer, TypeOK
  <2>2. CASE ~Clears(ok)
    BY <2>2 DEF Answer, TypeOK
  <2> QED
    BY <2>1, <2>2
<1>3. missed' \in BOOLEAN
  <2>1. missed' = (missed \/ ~ok \/ (Clears(ok) /\ batch.dirty /\ shown # Source))
    BY DEF Answer
  <2> QED
    BY <2>1 DEF TypeOK
<1>4. task' = None /\ UNCHANGED <<doc, snaps, unheard, batches, queue, page, cached, loading>>
  BY DEF Answer, reading
<1> QED
  BY <1>1, <1>2, <1>3, <1>4 DEF TypeOK

LEMMA SaveType ==
    ASSUME TypeOK, NEW counts \in BOOLEAN, Save(counts) PROVE TypeOK'
BY DEF Save, TypeOK, Document, reading

LEMMA SavedType ==
    ASSUME TypeOK, PortfolioStateSaved PROVE TypeOK'
<1>1. CASE batch # None
  <2>1. batch' \in [no : Nat, depth : Nat \ {0}, dirty : BOOLEAN]
    BY <1>1 DEF PortfolioStateSaved, Marked, TypeOK
  <2> QED
    BY <1>1, <2>1 DEF PortfolioStateSaved, TypeOK, reading
<1>2. CASE batch = None
  <2>1. queue' \in Seq(Asked)
    BY <1>2, RequestType DEF PortfolioStateSaved, TypeOK
  <2> QED
    BY <1>2, <2>1 DEF PortfolioStateSaved, TypeOK, reading
<1> QED
  BY <1>1, <1>2

LEMMA JobType ==
    ASSUME TypeOK, NEW j \in Jobs,
           NEW where \in {"idle", "in", "forced", "asked", "ending", "done"},
           At(j, where) \/ Waits(j, where)
    PROVE  job' \in [Jobs -> [at : {"idle", "in", "forced", "asked", "ending", "done"},
                              status : {"pending", "ready", "failed"}]]
BY DEF At, Waits, TypeOK

LEMMA EnterType ==
    ASSUME TypeOK, NEW j \in Jobs, EnterBatch(j) PROVE TypeOK'
<1>1. job' \in [Jobs -> [at : {"idle", "in", "forced", "asked", "ending", "done"},
                         status : {"pending", "ready", "failed"}]]
  BY JobType DEF EnterBatch
<1>2. batch' \in [no : Nat, depth : Nat \ {0}, dirty : BOOLEAN] /\ batches' \in Nat
  <2>1. CASE batch = None
    <3>1. batch' = [no |-> batches + 1, depth |-> 1, dirty |-> FALSE] /\ batches' = batches + 1
      BY <2>1 DEF EnterBatch
    <3> QED
      BY <3>1 DEF TypeOK
  <2>2. CASE batch # None
    <3>1. batch' = [batch EXCEPT !.depth = @ + 1] /\ batches' = batches
      BY <2>2 DEF EnterBatch
    <3> QED
      BY <2>2, <3>1 DEF TypeOK
  <2> QED
    BY <2>1, <2>2
<1> QED
  BY <1>1, <1>2 DEF EnterBatch, TypeOK, reading

LEMMA CaptureType ==
    ASSUME TypeOK, NEW j \in Jobs, CaptureSnapshot(j) PROVE TypeOK'
<1>1. job' \in [Jobs -> [at : {"idle", "in", "forced", "asked", "ending", "done"},
                         status : {"pending", "ready", "failed"}]]
  BY JobType DEF CaptureSnapshot
<1>2. [Request(j) EXCEPT !.force = TRUE, !.of = BatchNow, !.since["snapshots"] = @ + 1] \in Asked
  <2>1. Request(j) \in Asked /\ Request(j).since \in Finger
    BY RequestType DEF Asked
  <2>2. BatchNow \in Nat
    BY DEF BatchNow, TypeOK
  <2>3. [Request(j).since EXCEPT !["snapshots"] = @ + 1] \in Finger
    BY <2>1 DEF Finger, Parts
  <2> QED
    BY <2>1, <2>2, <2>3 DEF Asked
<1>3. queue' \in Seq(Asked)
  BY <1>2 DEF CaptureSnapshot, TypeOK
<1> QED
  BY <1>1, <1>3 DEF CaptureSnapshot, TypeOK, reading

LEMMA AfterSyncType ==
    ASSUME TypeOK, NEW j \in Jobs, RefreshAfterSync(j) PROVE TypeOK'
<1>1. CASE batch # None
  <2>1. batch' \in [no : Nat, depth : Nat \ {0}, dirty : BOOLEAN]
    BY <1>1 DEF RefreshAfterSync, Marked, TypeOK
  <2>2. job' \in [Jobs -> [at : {"idle", "in", "forced", "asked", "ending", "done"},
                           status : {"pending", "ready", "failed"}]]
    BY <1>1 DEF RefreshAfterSync, TypeOK
  <2> QED
    BY <1>1, <2>1, <2>2 DEF RefreshAfterSync, TypeOK, reading
<1>2. CASE batch = None
  <2>1. queue' \in Seq(Asked)
    BY <1>2, RequestType DEF RefreshAfterSync, TypeOK
  <2>2. job' \in [Jobs -> [at : {"idle", "in", "forced", "asked", "ending", "done"},
                           status : {"pending", "ready", "failed"}]]
    BY <1>2, JobType DEF RefreshAfterSync
  <2> QED
    BY <1>2, <2>1, <2>2 DEF RefreshAfterSync, TypeOK, reading
<1> QED
  BY <1>1, <1>2

LEMMA LeaveType ==
    ASSUME TypeOK, DepthCounts, NEW j \in Jobs, LeaveBatch(j) PROVE TypeOK'
<1>1. batch # None /\ batch \in [no : Nat, depth : Nat \ {0}, dirty : BOOLEAN]
  BY InType DEF LeaveBatch, TypeOK
<1>2. job' \in [Jobs -> [at : {"idle", "in", "forced", "asked", "ending", "done"},
                         status : {"pending", "ready", "failed"}]]
  BY JobType DEF LeaveBatch
<1>3. batch' \in [no : Nat, depth : Nat \ {0}, dirty : BOOLEAN] \cup {None}
  BY <1>1 DEF LeaveBatch, LastOut
<1>4. queue' \in Seq(Asked)
  BY RequestType DEF LeaveBatch, TypeOK
<1> QED
  BY <1>2, <1>3, <1>4 DEF LeaveBatch, TypeOK, reading

LEMMA TickType ==
    ASSUME TypeOK, Tick PROVE TypeOK'
<1>1. queue' \in Seq(Asked)
  BY RequestType DEF Tick, TypeOK
<1> QED
  BY <1>1 DEF Tick, TypeOK, reading

LEMMA BeginType ==
    ASSUME TypeOK, Begin PROVE TypeOK'
<1>1. Head(queue) \in Asked /\ Tail(queue) \in Seq(Asked)
  BY DEF Begin, TypeOK
<1>2. task' \in Task
  BY <1>1, NothingType, ReadModelAssumption DEF Begin, Asked, Task
<1> QED
  BY <1>1, <1>2 DEF Begin, TypeOK, reading

LEMMA ReadType ==
    ASSUME TypeOK, task # None, NEW next \in {"print", "publish"}, Read(next) PROVE TypeOK'
<1>1. task' \in Task
  BY DEF Read, TypeOK, Task, Document
<1> QED
  BY <1>1 DEF Read, TypeOK

LEMMA CalculateType ==
    ASSUME TypeOK, Calculate PROVE TypeOK'
<1>1. CASE ~task.force /\ Stored(Fingerprint(task.read))
  BY <1>1, AnswerType DEF Calculate, TypeOK
<1>2. CASE ~(~task.force /\ Stored(Fingerprint(task.read)))
  <2>1. Fingerprint(task.read) \in Finger
    BY FingerType DEF Calculate, TypeOK, Task
  <2>2. task' \in Task
    BY <1>2, <2>1 DEF Calculate, TypeOK, Task
  <2> QED
    BY <1>2, <2>2 DEF Calculate, TypeOK, reading
<1> QED
  BY <1>1, <1>2

LEMMA PublishType ==
    ASSUME TypeOK, Publish PROVE TypeOK'
<1>1. task \in Task /\ task' \in Task /\ shown' \in Finger
  BY DEF Publish, TypeOK, Task
<1> QED
  BY <1>1 DEF Publish, TypeOK, reading

LEMMA AgainType ==
    ASSUME TypeOK, Again PROVE TypeOK'
<1>1. CASE task.attempt < Attempts
  <2>1. task \in Task
    BY DEF Again, TypeOK
  <2>2. task.attempt + 1 \in 1 .. Attempts
    BY <1>1, <2>1, ReadModelAssumption DEF Task
  <2>3. task' = [task EXCEPT !.attempt = @ + 1, !.at = "load", !.print = Nothing]
    BY <1>1 DEF Again
  <2>4. task' \in Task
    BY <2>1, <2>2, <2>3, NothingType DEF Task
  <2> QED
    BY <1>1, <2>4 DEF Again, TypeOK, reading
<1>2. CASE ~(task.attempt < Attempts)
  BY <1>2, AnswerType DEF Again, TypeOK
<1> QED
  BY <1>1, <1>2

LEMMA AskType ==
    ASSUME TypeOK, NEW q \in Pages, Ask(q) PROVE TypeOK'
BY DEF Ask, TypeOK, Document

PageType == [at : {"idle", "known", "waiting", "load", "loaded", "served"},
             want : Nat, asked : Nat, on : Pages \cup {None},
             read : Document \cup {None}, got : Finger \cup {None}]

LEMMA ServedType ==
    ASSUME TypeOK, NEW q \in Pages, NEW read
    PROVE  Served(q, read) \in PageType
<1>1. page[q].asked \in Nat
  BY DEF TypeOK
<1>2. shown \in Finger \cup {None}
  BY DEF TypeOK
<1> QED
  BY <1>1, <1>2 DEF Served, Gone, Idle, PageType

LEMMA LoadingType ==
    ASSUME TypeOK, NEW q \in Pages
    PROVE  Loading(q) \in PageType
BY DEF Loading, PageType, TypeOK

LEMMA KnownType ==
    ASSUME TypeOK, NEW q \in Pages, Known(q) PROVE TypeOK'
<1>1. page' \in [Pages -> PageType]
  <2>1. \A x \in PageType : [page EXCEPT ![q] = x] \in [Pages -> PageType]
    BY DEF TypeOK, PageType
  <2>2. loading # None => [page[q] EXCEPT !.at = "waiting", !.on = loading] \in PageType
    BY DEF TypeOK, PageType
  <2> QED
    BY <2>1, <2>2, ServedType, LoadingType DEF Known
<1>2. loading' \in Pages \cup {None}
  BY DEF Known, TypeOK
<1> QED
  BY <1>1, <1>2 DEF Known, TypeOK, PageType

LEMMA LoadReadType ==
    ASSUME TypeOK, NEW q \in Pages, LoadRead(q) PROVE TypeOK'
BY DEF LoadRead, TypeOK

LEMMA LoadDoneType ==
    ASSUME TypeOK, NEW q \in Pages, LoadDone(q) PROVE TypeOK'
<1>1. page' \in [Pages -> PageType]
  <2>1. \A p \in Pages : page[p] \in PageType
    BY DEF TypeOK, PageType
  <2> QED
    BY <2>1, ServedType, LoadingType DEF LoadDone
<1>2. loading' \in Pages \cup {None}
  BY DEF LoadDone, TypeOK
<1>3. cached' \in Document \cup {None}
  BY DEF LoadDone, TypeOK
<1> QED
  BY <1>1, <1>2, <1>3 DEF LoadDone, TypeOK, PageType

LEMMA CrashType ==
    ASSUME TypeOK, Crash PROVE TypeOK'
<1>1. job' \in [Jobs -> [at : {"idle", "in", "forced", "asked", "ending", "done"},
                         status : {"pending", "ready", "failed"}]]
  BY DEF Crash, TypeOK
<1>2. page' \in [Pages -> PageType]
  <2>1. Gone \in PageType
    BY DEF Gone, Idle, PageType
  <2>2. \A q \in Pages : page[q] \in PageType
    BY DEF TypeOK, PageType
  <2> QED
    BY <2>1, <2>2 DEF Crash
<1>3. queue' \in Seq(Asked)
  BY DEF Crash
<1> QED
  BY <1>1, <1>2, <1>3 DEF Crash, TypeOK, PageType

LEMMA TypeStep ==
    ASSUME TypeOK, DepthCounts, [Next]_vars PROVE TypeOK'
<1>1. ASSUME NEW j \in Jobs,
             EnterBatch(j) \/ CaptureSnapshot(j) \/ RefreshAfterSync(j) \/ LeaveBatch(j)
      PROVE  TypeOK'
  BY <1>1, EnterType, CaptureType, AfterSyncType, LeaveType
<1>2. ASSUME Load \/ Reload PROVE TypeOK'
  BY <1>2, ReadType DEF Load, Reload
<1>3. ASSUME WireReady \/ Fail PROVE TypeOK'
  <2>1. task # None /\ shown' \in Finger \cup {None} /\ faults' \in Nat
    <3>1. shown \in Finger \cup {None} /\ faults \in Nat
      BY DEF TypeOK
    <3>2. task # None /\ shown' = shown /\ (faults' = faults \/ faults' = faults + 1)
      BY <1>3 DEF WireReady, Fail
    <3> QED
      BY <3>1, <3>2
  <2>2. Answer(TRUE) \/ Answer(FALSE)
    BY <1>3 DEF WireReady, Fail
  <2> QED
    BY <2>1, <2>2, AnswerType
<1>4. ASSUME Refresher PROVE TypeOK'
  BY <1>2, <1>3, <1>4, BeginType, CalculateType, PublishType, AgainType DEF Refresher
<1>5. ASSUME NEW q \in Pages, Ask(q) \/ Known(q) \/ LoadRead(q) \/ LoadDone(q) PROVE TypeOK'
  BY <1>5, AskType, KnownType, LoadReadType, LoadDoneType
<1>6. CASE UNCHANGED vars
  BY <1>6 DEF vars, TypeOK
<1> QED
  BY <1>1, <1>3, <1>4, <1>5, <1>6, SaveType, SavedType, TickType, CrashType DEF Next

-----------------------------------------------------------------------------
(* Steps that leave refreshes, batches and jobs alone.                       *)

Grows == doc.content <= doc'.content /\ snaps <= snaps'
Quiet == UNCHANGED <<snaps, shown, batch, batches, queue, task, job, missed>>

LEMMA QuietStep ==
    ASSUME \/ \E counts \in BOOLEAN : Save(counts)
           \/ \E q \in Pages : Ask(q) \/ Known(q) \/ LoadRead(q) \/ LoadDone(q)
           \/ UNCHANGED vars
    PROVE  Quiet
BY DEF Save, Ask, Known, LoadRead, LoadDone, vars, Quiet

LEMMA SourceGrows ==
    ASSUME TypeOK, [Next]_vars PROVE Grows
<1> USE DEF Grows, TypeOK, Document
<1>1. ASSUME NEW counts \in BOOLEAN, Save(counts) PROVE Grows
  BY <1>1 DEF Save
<1>2. ASSUME NEW j \in Jobs, CaptureSnapshot(j) PROVE Grows
  BY <1>2 DEF CaptureSnapshot
<1>3. ASSUME UNCHANGED <<doc, snaps>> PROVE Grows
  BY <1>3
<1> QED
  BY <1>1, <1>2, <1>3
     DEF Next, PortfolioStateSaved, EnterBatch, RefreshAfterSync, LeaveBatch, Tick, Refresher,
         Begin, Load, Calculate, Reload, Publish, Again, WireReady, Read, Answer, Fail,
         Ask, Known, LoadRead, LoadDone, Crash, vars

-----------------------------------------------------------------------------
(* Who is in the queue waits, once, and saw no more than there is.           *)

Wait == {"forced", "asked", "ending"}
EntryOf(jobs, source, r) ==
  /\ r.by \in Jobs => jobs[r.by].at \in Wait
  /\ source["document"] >= r.since["document"]
  /\ source["snapshots"] >= r.since["snapshots"]
Entry(r) == EntryOf(job, Source, r)
QueueInv ==
  /\ task # None => Entry(task)
  /\ \A n \in 1 .. Len(queue) :
       /\ Entry(queue[n])
       /\ queue[n].by \in Jobs =>
            /\ task # None => task.by # queue[n].by
            /\ \A m \in 1 .. Len(queue) : m # n => queue[m].by # queue[n].by

LEMMA SourceParts ==
    /\ TypeOK => Source["document"] = doc.content /\ Source["snapshots"] = snaps
    /\ TypeOK' => Source'["document"] = doc'.content /\ Source'["snapshots"] = snaps'
BY DEF Source, TypeOK, Document, Fingerprint, Parts

LEMMA EntryKept ==
    ASSUME TypeOK, TypeOK', Grows, NEW r, r.since \in Finger, EntryOf(job, Source, r),
           r.by \in Jobs => job'[r.by].at \in Wait
    PROVE  EntryOf(job', Source', r)
<1>1. /\ Source["document"] = doc.content /\ Source["snapshots"] = snaps
      /\ Source'["document"] = doc'.content /\ Source'["snapshots"] = snaps'
  BY SourceParts
<1>2. /\ r.since["document"] \in Nat /\ r.since["snapshots"] \in Nat
      /\ doc.content \in Nat /\ doc'.content \in Nat /\ snaps \in Nat /\ snaps' \in Nat
  BY DEF Finger, Parts, TypeOK, Document
<1> QED
  BY <1>1, <1>2 DEF EntryOf, Grows

(* A request comes in at the end, from a job that did not wait before. *)
LEMMA AppendStep ==
    ASSUME TypeOK, TypeOK', Grows, QueueInv, NEW r \in Asked, queue' = Append(queue, r),
           UNCHANGED task, EntryOf(job', Source', r), r.by \in Jobs => job[r.by].at \notin Wait,
           \A j \in Jobs : job[j].at \in Wait => job'[j].at \in Wait
    PROVE  QueueInv'
<1>1. /\ Len(queue') = Len(queue) + 1 /\ Len(queue) \in Nat
      /\ \A n \in 1 .. Len(queue) : queue'[n] = queue[n] /\ queue[n] \in Asked
      /\ queue'[Len(queue) + 1] = r
  BY DEF TypeOK
<1>2. \A n \in 1 .. Len(queue) : EntryOf(job', Source', queue'[n])
  <2> SUFFICES ASSUME NEW n \in 1 .. Len(queue) PROVE EntryOf(job', Source', queue'[n])
    OBVIOUS
  <2>1. EntryOf(job, Source, queue[n]) /\ queue[n].since \in Finger
    BY <1>1 DEF QueueInv, Asked, Entry
  <2>2. queue[n].by \in Jobs => job'[queue[n].by].at \in Wait
    BY <2>1 DEF EntryOf
  <2> QED
    BY <1>1, <2>1, <2>2, EntryKept
<1>3. task' # None => EntryOf(job', Source', task')
  <2>1. task # None => task \in Task /\ EntryOf(job, Source, task)
    BY DEF TypeOK, QueueInv, Entry
  <2>2. task # None => task.since \in Finger /\ (task.by \in Jobs => job'[task.by].at \in Wait)
    BY <2>1 DEF EntryOf, Task
  <2> QED
    BY <2>1, <2>2, EntryKept
<1>4. r.by \in Jobs => /\ task # None => task.by # r.by
                       /\ \A n \in 1 .. Len(queue) : queue[n].by # r.by
  BY DEF QueueInv, Entry, EntryOf
<1>5. \A n \in 1 .. Len(queue') : n \in 1 .. Len(queue) \/ n = Len(queue) + 1
  BY <1>1
<1>6. \A n \in 1 .. Len(queue') : EntryOf(job', Source', queue'[n])
  BY <1>1, <1>2, <1>5
<1>7. \A n \in 1 .. Len(queue') : queue'[n].by \in Jobs =>
        /\ task' # None => task'.by # queue'[n].by
        /\ \A m \in 1 .. Len(queue') : m # n => queue'[m].by # queue'[n].by
  BY <1>1, <1>4, <1>5 DEF QueueInv
<1> QED
  BY <1>3, <1>6, <1>7 DEF QueueInv, Entry

(* Nothing comes in, and whoever is still waited for waits on. *)
LEMMA SameQueue ==
    ASSUME TypeOK, TypeOK', Grows, QueueInv, UNCHANGED queue,
           task' # None => task # None /\ task'.by = task.by /\ task'.since = task.since,
           \A j \in Jobs : job[j].at \in Wait =>
             job'[j].at \in Wait \/ (task' = None /\ task # None /\ task.by = j)
    PROVE  QueueInv'
<1>1. \A n \in 1 .. Len(queue) : EntryOf(job', Source', queue[n])
  <2> SUFFICES ASSUME NEW n \in 1 .. Len(queue) PROVE EntryOf(job', Source', queue[n])
    OBVIOUS
  <2>1. EntryOf(job, Source, queue[n]) /\ queue[n] \in Asked
    BY DEF QueueInv, TypeOK, Entry
  <2>2. queue[n].by \in Jobs => job'[queue[n].by].at \in Wait
    BY <2>1 DEF EntryOf, QueueInv
  <2>3. queue[n].since \in Finger
    BY <2>1 DEF Asked
  <2> QED
    BY <2>1, <2>2, <2>3, EntryKept
<1>2. task' # None => EntryOf(job', Source', task')
  <2> SUFFICES ASSUME task' # None PROVE EntryOf(job', Source', task')
    OBVIOUS
  <2>1. task \in Task /\ EntryOf(job, Source, task) /\ task'.by = task.by /\ task'.since = task.since
    BY DEF TypeOK, QueueInv, Entry
  <2>2. task.since \in Finger /\ (task.by \in Jobs => job'[task.by].at \in Wait)
    BY <2>1 DEF EntryOf, Task
  <2>3. EntryOf(job', Source', task)
    BY <2>1, <2>2, EntryKept
  <2> QED
    BY <2>1, <2>3 DEF EntryOf
<1>3. \A n \in 1 .. Len(queue') : queue'[n].by \in Jobs =>
        /\ task' # None => task'.by # queue'[n].by
        /\ \A m \in 1 .. Len(queue') : m # n => queue'[m].by # queue'[n].by
  BY DEF QueueInv
<1> QED
  BY <1>1, <1>2, <1>3 DEF QueueInv, Entry


(* An answer is for the refresh at work; it goes to the job that waits for it. *)
Answers == \E ok \in BOOLEAN : task # None /\ Answer(ok) /\ UNCHANGED shown

LEMMA CalculateStep ==
    ASSUME Calculate
    PROVE  \/ /\ ~task.force /\ shown = Fingerprint(task.read)
              /\ Answer(TRUE)
           \/ /\ task' = [task EXCEPT !.print = Fingerprint(task.read), !.at = "reload"]
              /\ UNCHANGED <<doc, snaps, batch, queue, job, missed, unheard>>
BY DEF Calculate, Stored

LEMMA AgainStep ==
    ASSUME Again
    PROVE  \/ Answer(FALSE)
           \/ /\ task.attempt < Attempts
              /\ task' = [task EXCEPT !.attempt = @ + 1, !.at = "load", !.print = Nothing]
              /\ UNCHANGED <<doc, snaps, batch, queue, job, missed, unheard>>
BY DEF Again

LEMMA AnswerQueue ==
    ASSUME TypeOK, TypeOK', Grows, QueueInv, Answers PROVE QueueInv'
<1>1. task' = None /\ task # None /\ UNCHANGED queue
  BY DEF Answers, Answer
<1>2. \A j \in Jobs : j # task.by => job'[j] = job[j]
  BY DEF Answers, Answer
<1> QED
  BY <1>1, <1>2, SameQueue

LEMMA QueueStep ==
    ASSUME TypeOK, TypeOK', DepthCounts, Grows, QueueInv, [Next]_vars PROVE QueueInv'
<1>1. \A by \in {"event", "worker"} : EntryOf(job', Source', Unattended(by))
  <2>1. /\ Source'["document"] = doc'.content /\ Source'["snapshots"] = snaps'
        /\ doc'.content \in Nat /\ snaps' \in Nat
    BY SourceParts DEF TypeOK, Document
  <2> QED
    BY <2>1, ReadModelAssumption DEF EntryOf, Unattended, Nothing, Parts
<1>2. CASE Quiet
  BY <1>2, SameQueue DEF Quiet
<1>3. CASE PortfolioStateSaved
  <2>1. CASE batch # None
    BY <1>3, <2>1, SameQueue DEF PortfolioStateSaved
  <2>2. CASE batch = None
    <3>1. queue' = Append(queue, Unattended("event")) /\ UNCHANGED <<task, job>>
      BY <1>3, <2>2 DEF PortfolioStateSaved
    <3>2. Unattended("event") \in Asked /\ Unattended("event").by \notin Jobs
      BY RequestType, ReadModelAssumption DEF Unattended
    <3> QED
      BY <1>1, <3>1, <3>2, AppendStep
  <2> QED
    BY <2>1, <2>2
<1>4. CASE Tick
  <2>1. queue' = Append(queue, Unattended("worker")) /\ UNCHANGED <<task, job>>
    BY <1>4 DEF Tick
  <2>2. Unattended("worker") \in Asked /\ Unattended("worker").by \notin Jobs
    BY RequestType, ReadModelAssumption DEF Unattended
  <2> QED
    BY <1>1, <2>1, <2>2, AppendStep
<1>5. ASSUME NEW j \in Jobs, NEW r \in Asked, r.by = j, job[j].at \notin Wait,
             queue' = Append(queue, r), UNCHANGED task,
             NEW at \in Wait, Waits(j, at),
             r.since["document"] = Source'["document"], r.since["snapshots"] = Source'["snapshots"]
      PROVE  QueueInv'
  <2>1. job'[j].at = at /\ \A k \in Jobs : k # j => job'[k] = job[k]
    BY <1>5 DEF Waits, TypeOK
  <2>2. EntryOf(job', Source', r)
    <3>1. r.since["document"] \in Nat /\ r.since["snapshots"] \in Nat
      BY <1>5 DEF Asked, Finger, Parts
    <3> QED
      BY <1>5, <2>1, <3>1 DEF EntryOf
  <2> QED
    BY <1>5, <2>1, <2>2, AppendStep
<1>6. ASSUME NEW j \in Jobs, job[j].at \notin Wait, UNCHANGED <<queue, task>>,
             \A k \in Jobs : k # j => job'[k] = job[k]
      PROVE  QueueInv'
  BY <1>6, SameQueue
<1>7. ASSUME NEW j \in Jobs, EnterBatch(j) PROVE QueueInv'
  <2>1. /\ job[j].at \notin Wait /\ UNCHANGED <<queue, task>>
        /\ \A k \in Jobs : k # j => job'[k] = job[k]
    BY <1>7 DEF EnterBatch, At, Wait
  <2> QED
    BY <1>6, <2>1
<1>8. ASSUME NEW j \in Jobs, CaptureSnapshot(j) PROVE QueueInv'
  <2> DEFINE r == [Request(j) EXCEPT !.force = TRUE, !.of = BatchNow,
                                     !.since["snapshots"] = @ + 1]
  <2>1. /\ job[j].at \notin Wait /\ queue' = Append(queue, r) /\ UNCHANGED task
        /\ snaps' = snaps + 1 /\ doc' = doc
        /\ Waits(j, IF job[j].at = "in" THEN "forced" ELSE "asked")
    BY <1>8 DEF CaptureSnapshot, Wait
  <2>2. Request(j) \in Asked /\ Request(j).since = Source /\ Request(j).by = j /\ Source \in Finger
    BY RequestType, SourceType DEF Request
  <2>3. BatchNow \in Nat
    BY DEF BatchNow, TypeOK
  <2>4. /\ r \in Asked /\ r.by = j
        /\ r.since["document"] = Source["document"]
        /\ r.since["snapshots"] = Source["snapshots"] + 1
    <3>1. [Source EXCEPT !["snapshots"] = @ + 1] \in Finger
      BY <2>2 DEF Finger, Parts
    <3>2. r.since = [Source EXCEPT !["snapshots"] = @ + 1]
      BY <2>2 DEF Asked
    <3>3. r \in Asked /\ r.by = j
      BY <2>2, <2>3, <3>1 DEF Asked
    <3> QED
      BY <2>2, <3>2, <3>3 DEF Finger, Parts
  <2>5. r.since["document"] = Source'["document"] /\ r.since["snapshots"] = Source'["snapshots"]
    BY <2>1, <2>4, SourceParts
  <2> HIDE DEF r
  <2> QED
    BY <1>5, <2>1, <2>4, <2>5 DEF Wait
<1>9. ASSUME NEW j \in Jobs, RefreshAfterSync(j) PROVE QueueInv'
  <2>1. CASE batch # None
    <3>1. /\ job[j].at \notin Wait /\ UNCHANGED <<queue, task>>
          /\ \A k \in Jobs : k # j => job'[k] = job[k]
      <4>1. job' = [job EXCEPT ![j].at = IF @ = "idle" THEN "done" ELSE @]
        BY <1>9, <2>1 DEF RefreshAfterSync
      <4>2. \A k \in Jobs : k # j => job'[k] = job[k]
        BY <4>1 DEF TypeOK
      <4> QED
        BY <1>9, <2>1, <4>2 DEF RefreshAfterSync, Wait
    <3> QED
      BY <1>6, <3>1
  <2>2. CASE batch = None
    <3>1. /\ job[j].at \notin Wait /\ queue' = Append(queue, Request(j)) /\ UNCHANGED <<task, doc, snaps>>
          /\ Waits(j, "asked")
      BY <1>9, <2>2 DEF RefreshAfterSync, Wait
    <3>2. Request(j) \in Asked /\ Request(j).since = Source /\ Request(j).by = j
      BY RequestType DEF Request
    <3>3. Source' = Source
      BY <3>1 DEF Source, Fingerprint
    <3> QED
      BY <1>5, <3>1, <3>2, <3>3 DEF Wait
  <2> QED
    BY <2>1, <2>2
<1>10. ASSUME NEW j \in Jobs, LeaveBatch(j) PROVE QueueInv'
  <2>1. CASE queue' = queue
    <3>1. /\ job[j].at \notin Wait /\ UNCHANGED task
          /\ \A k \in Jobs : k # j => job'[k] = job[k]
      <4>1. At(j, "done") \/ Waits(j, "ending")
        BY <1>10 DEF LeaveBatch
      <4>2. \A k \in Jobs : k # j => job'[k] = job[k]
        BY <4>1 DEF TypeOK, At, Waits
      <4> QED
        BY <1>10, <4>2 DEF LeaveBatch, Wait
    <3> QED
      BY <1>6, <2>1, <3>1
  <2>2. CASE queue' # queue
    <3>1. /\ job[j].at \notin Wait /\ queue' = Append(queue, Request(j)) /\ UNCHANGED <<task, doc, snaps>>
          /\ Waits(j, "ending")
      BY <1>10, <2>2 DEF LeaveBatch, Wait
    <3>2. Request(j) \in Asked /\ Request(j).since = Source /\ Request(j).by = j
      BY RequestType DEF Request
    <3>3. Source' = Source
      BY <3>1 DEF Source, Fingerprint
    <3> QED
      BY <1>5, <3>1, <3>2, <3>3 DEF Wait
  <2> QED
    BY <2>1, <2>2
<1>11. CASE Begin
  <2>1. /\ queue # <<>> /\ queue' = Tail(queue) /\ UNCHANGED job /\ task = None
        /\ task' # None => task'.by = queue[1].by /\ task'.since = queue[1].since
    BY <1>11 DEF Begin
  <2>2. /\ Len(queue) \in Nat /\ Len(queue') = Len(queue) - 1 /\ 1 \in 1 .. Len(queue)
        /\ \A n \in 1 .. Len(queue') : queue'[n] = queue[n + 1] /\ n + 1 \in 1 .. Len(queue)
        /\ \A n \in 1 .. Len(queue) : queue[n] \in Asked
    BY <2>1 DEF TypeOK
  <2>3. \A n \in 1 .. Len(queue) : EntryOf(job', Source', queue[n])
    <3> SUFFICES ASSUME NEW n \in 1 .. Len(queue) PROVE EntryOf(job', Source', queue[n])
      OBVIOUS
    <3>1. EntryOf(job, Source, queue[n]) /\ queue[n].since \in Finger
      BY <2>2 DEF QueueInv, Entry, Asked
    <3>2. queue[n].by \in Jobs => job'[queue[n].by].at \in Wait
      BY <2>1, <3>1 DEF EntryOf
    <3> QED
      BY <3>1, <3>2, EntryKept
  <2>4. task' # None => EntryOf(job', Source', task')
    <3>1. EntryOf(job', Source', queue[1])
      BY <2>2, <2>3
    <3> QED
      BY <2>1, <3>1 DEF EntryOf
  <2>5. \A n \in 1 .. Len(queue') : EntryOf(job', Source', queue'[n])
    BY <2>2, <2>3
  <2>6. \A n \in 1 .. Len(queue') : queue'[n].by \in Jobs =>
          /\ task' # None => task'.by # queue'[n].by
          /\ \A m \in 1 .. Len(queue') : m # n => queue'[m].by # queue'[n].by
    BY <2>1, <2>2 DEF QueueInv
  <2> QED
    BY <2>4, <2>5, <2>6 DEF QueueInv, Entry
<1>12. ASSUME task # None, task'.by = task.by, task'.since = task.since, UNCHANGED <<queue, job>>
       PROVE  QueueInv'
  BY <1>12, SameQueue
<1>13. ASSUME task # None, NEW ok \in BOOLEAN, Answer(ok), UNCHANGED shown PROVE QueueInv'
  BY <1>13, AnswerQueue DEF Answers
<1>15. CASE Load \/ Reload \/ Publish
  <2>1. task \in Task /\ task # None /\ UNCHANGED <<queue, job>>
    BY <1>15 DEF Load, Reload, Read, Publish, TypeOK
  <2>2. task'.by = task.by /\ task'.since = task.since
    BY <1>15, <2>1 DEF Load, Reload, Read, Publish, Task
  <2> QED
    BY <1>12, <2>1, <2>2
<1>16. CASE Calculate
  <2>1. task \in Task /\ task # None /\ UNCHANGED shown
    BY <1>16 DEF Calculate, TypeOK
  <2> QED
    BY <1>12, <1>13, <1>16, <2>1, CalculateStep DEF Task
<1>17. CASE Again
  <2>1. task \in Task /\ task # None /\ UNCHANGED shown
    BY <1>17 DEF Again, TypeOK
  <2> QED
    BY <1>12, <1>13, <1>17, <2>1, AgainStep DEF Task
<1>18. CASE WireReady \/ Fail
  BY <1>13, <1>18 DEF WireReady, Fail
<1>14. CASE Crash
  BY <1>14 DEF Crash, QueueInv
<1> QED
  BY <1>2, <1>3, <1>4, <1>7, <1>8, <1>9, <1>10, <1>11, <1>14, <1>15, <1>16, <1>17, <1>18, QuietStep
     DEF Next, Refresher

-----------------------------------------------------------------------------
(* The depth of a batch, continued.                                          *)

LEMMA BatchIsThere ==
    ASSUME NEW b \in [no : Nat, depth : Nat, dirty : BOOLEAN] PROVE b # None
BY ReadModelAssumption

LEMMA SameInside ==
    ASSUME DepthCounts, Inside' = Inside,
           batch' = batch \/ (batch # None /\ batch' # None /\ batch'.depth = batch.depth)
    PROVE  DepthCounts'
BY DEF DepthCounts

LEMMA DepthStep ==
    ASSUME TypeOK, TypeOK', DepthCounts, QueueInv, [Next]_vars PROVE DepthCounts'
<1>1. ASSUME NEW j \in Jobs, EnterBatch(j) PROVE DepthCounts'
  <2>1. job'[j].at = "in" /\ job[j].at = "idle" /\ \A k \in Jobs : k # j => job'[k] = job[k]
    BY <1>1 DEF EnterBatch, At, TypeOK
  <2>2. Inside' = Inside \cup {j} /\ j \notin Inside
    BY <2>1 DEF Inside
  <2>3. Cardinality(Inside') = Cardinality(Inside) + 1
    BY <2>2, InsideFinite, FS_AddElement
  <2>4. CASE batch = None
    <3>1. Inside = {} /\ Cardinality(Inside) = 0
      BY <2>4, InsideFinite DEF DepthCounts
    <3>2. batch' = [no |-> batches + 1, depth |-> 1, dirty |-> FALSE]
      BY <1>1, <2>4 DEF EnterBatch
    <3>3. batch'.depth = 1 /\ batch' # None
      <4>1. batches + 1 \in Nat
        BY DEF TypeOK
      <4> QED
        BY <3>2, <4>1, BatchIsThere
    <3> QED
      BY <2>3, <3>1, <3>3 DEF DepthCounts
  <2>5. CASE batch # None
    <3>1. batch' = [batch EXCEPT !.depth = @ + 1] /\ batch \in [no : Nat, depth : Nat \ {0}, dirty : BOOLEAN]
      BY <1>1, <2>5 DEF EnterBatch, TypeOK
    <3>2. batch'.depth = Cardinality(Inside')
      BY <2>3, <2>5, <3>1 DEF DepthCounts
    <3>3. batch' # None
      BY <3>1, BatchIsThere
    <3> QED
      BY <3>2, <3>3 DEF DepthCounts
  <2> QED
    BY <2>4, <2>5
<1>2. ASSUME NEW j \in Jobs, LeaveBatch(j) PROVE DepthCounts'
  <2>1. At(j, "done") \/ Waits(j, "ending")
    BY <1>2 DEF LeaveBatch
  <2>2. Inside' = Inside \ {j} /\ j \in Inside
    BY <1>2, <2>1 DEF Inside, LeaveBatch, At, Waits, TypeOK
  <2>3. Cardinality(Inside') = Cardinality(Inside) - 1 /\ IsFiniteSet(Inside')
    BY <2>2, InsideFinite, FS_RemoveElement, FS_Subset
  <2>4. batch # None /\ batch.depth = Cardinality(Inside)
    BY <2>2 DEF DepthCounts
  <2>5. CASE LastOut(batch)
    <3>1. Inside' = {}
      BY <2>3, <2>4, <2>5, FS_EmptySet DEF LastOut
    <3>2. batch' = None
      BY <1>2, <2>5 DEF LeaveBatch
    <3> QED
      BY <3>1, <3>2 DEF DepthCounts
  <2>6. CASE ~LastOut(batch)
    <3>1. batch' = [batch EXCEPT !.depth = @ - 1] /\ batch \in [no : Nat, depth : Nat \ {0}, dirty : BOOLEAN]
      BY <1>2, <2>4, <2>6 DEF LeaveBatch, TypeOK
    <3>2. batch'.depth = Cardinality(Inside') /\ batch'.depth # 0
      BY <2>3, <2>4, <2>6, <3>1, InsideFinite DEF LastOut
    <3>3. batch' # None
      BY <3>1, BatchIsThere
    <3> QED
      BY <3>2, <3>3 DEF DepthCounts
  <2> QED
    BY <2>5, <2>6
<1>3. ASSUME NEW j \in Jobs, CaptureSnapshot(j) PROVE DepthCounts'
  <2>1. Waits(j, IF job[j].at = "in" THEN "forced" ELSE "asked") /\ job[j].at \in {"idle", "in"}
        /\ batch' = batch
    BY <1>3 DEF CaptureSnapshot
  <2>2. Inside' = Inside
    BY <2>1 DEF Inside, Waits, TypeOK
  <2> QED
    BY <2>1, <2>2, SameInside
<1>4. ASSUME NEW j \in Jobs, RefreshAfterSync(j) PROVE DepthCounts'
  <2>1. CASE batch # None
    <3>1. /\ job' = [job EXCEPT ![j].at = IF @ = "idle" THEN "done" ELSE @]
          /\ job[j].at \in {"idle", "in"} /\ batch' = [batch EXCEPT !.dirty = TRUE]
          /\ batch \in [no : Nat, depth : Nat \ {0}, dirty : BOOLEAN]
      BY <1>4, <2>1 DEF RefreshAfterSync, Marked, TypeOK
    <3>2. Inside' = Inside
      BY <3>1 DEF Inside, TypeOK
    <3>3. batch'.depth = batch.depth /\ batch' # None
      BY <3>1, BatchIsThere
    <3> QED
      BY <2>1, <3>2, <3>3, SameInside
  <2>2. CASE batch = None
    <3>1. Waits(j, "asked") /\ batch' = batch /\ job[j].at # "in" /\ job[j].at # "forced"
      BY <1>4, <2>2, InType DEF RefreshAfterSync
    <3>2. Inside' = Inside
      BY <3>1 DEF Inside, Waits, TypeOK
    <3> QED
      BY <3>1, <3>2, SameInside
  <2> QED
    BY <2>1, <2>2
<1>5. ASSUME task # None, NEW ok \in BOOLEAN, Answer(ok) PROVE DepthCounts'
  <2>1. task.by \in Jobs => job[task.by].at \in Wait
    BY <1>5 DEF QueueInv, Entry, EntryOf
  <2>2. Inside' = Inside
    <3> SUFFICES ASSUME NEW j \in Jobs
                 PROVE  job'[j].at \in {"in", "forced"} <=> job[j].at \in {"in", "forced"}
      BY DEF Inside
    <3> QED
      BY <1>5, <2>1 DEF Answer, After, Wait
  <2>3. CASE batch' = batch
    BY <2>2, <2>3, SameInside
  <2>4. CASE batch' # batch
    <3>1. Clears(ok) /\ batch' = [batch EXCEPT !.dirty = FALSE]
      BY <1>5, <2>4 DEF Answer
    <3>2. batch # None
      BY <3>1 DEF Clears, BatchNow
    <3>3. batch \in [no : Nat, depth : Nat \ {0}, dirty : BOOLEAN]
      BY <3>2 DEF TypeOK
    <3>4. batch'.depth = batch.depth /\ batch' # None
      BY <3>1, <3>3, BatchIsThere
    <3> QED
      BY <2>2, <3>2, <3>4, SameInside
  <2> QED
    BY <2>3, <2>4
<1>6. CASE PortfolioStateSaved
  <2>1. Inside' = Inside
    BY <1>6 DEF PortfolioStateSaved, Inside
  <2>2. CASE batch # None
    <3>1. batch' = [batch EXCEPT !.dirty = TRUE] /\ batch \in [no : Nat, depth : Nat \ {0}, dirty : BOOLEAN]
      BY <1>6, <2>2 DEF PortfolioStateSaved, Marked, TypeOK
    <3>2. batch'.depth = batch.depth /\ batch' # None
      BY <3>1, BatchIsThere
    <3> QED
      BY <2>1, <2>2, <3>2, SameInside
  <2>3. CASE batch = None
    BY <1>6, <2>1, <2>3, SameInside DEF PortfolioStateSaved
  <2> QED
    BY <2>2, <2>3
<1>7. ASSUME UNCHANGED <<job, batch>> PROVE DepthCounts'
  BY <1>7 DEF DepthCounts, Inside
<1>8. CASE Calculate
  BY <1>5, <1>7, <1>8, CalculateStep DEF Calculate
<1>9. CASE Again
  BY <1>5, <1>7, <1>9, AgainStep DEF Again
<1>10. CASE WireReady \/ Fail
  BY <1>5, <1>10 DEF WireReady, Fail
<1>11. CASE Crash
  <2>1. Inside' = {}
    BY <1>11 DEF Crash, Inside, TypeOK
  <2> QED
    BY <1>11, <2>1 DEF Crash, DepthCounts
<1>12. CASE Begin \/ Load \/ Reload \/ Publish \/ Tick
  BY <1>7, <1>12 DEF Begin, Load, Reload, Read, Publish, Tick
<1>13. CASE Quiet
  BY <1>7, <1>13 DEF Quiet
<1> QED
  BY <1>1, <1>2, <1>3, <1>4, <1>6, <1>8, <1>9, <1>10, <1>11, <1>12, <1>13, QuietStep
     DEF Next, Refresher

-----------------------------------------------------------------------------
(* The refresh at work saw, and will show, no less than what is shown and    *)
(* than what was asked for, and no more than there is.                       *)

Over(new, old) == old["document"] <= new["document"] /\ old["snapshots"] <= new["snapshots"]
ViewInv == shown # None => Over(Source, shown)
TaskInv ==
  task # None =>
    /\ task.at = "print" => /\ task.read <= doc.content
                            /\ task.since["document"] <= task.read
                            /\ shown # None => shown["document"] <= task.read
    /\ task.at \in {"reload", "publish"} => /\ Over(Source, task.print)
                                            /\ Over(task.print, task.since)
                                            /\ shown # None => Over(task.print, shown)
    /\ task.at = "wire" => shown # None /\ Over(shown, task.since)

LEMMA FingerParts ==
    ASSUME NEW f \in Finger PROVE f["document"] \in Nat /\ f["snapshots"] \in Nat
BY DEF Finger, Parts

LEMMA OverGrows ==
    ASSUME TypeOK, TypeOK', Grows, NEW f \in Finger, Over(Source, f) PROVE Over(Source', f)
<1>1. /\ Source["document"] = doc.content /\ Source["snapshots"] = snaps
      /\ Source'["document"] = doc'.content /\ Source'["snapshots"] = snaps'
  BY SourceParts
<1>2. doc.content \in Nat /\ doc'.content \in Nat /\ snaps \in Nat /\ snaps' \in Nat
  BY DEF TypeOK, Document
<1> QED
  BY <1>1, <1>2, FingerParts DEF Over, Grows

LEMMA SameTask ==
    ASSUME TypeOK, TypeOK', Grows, ViewInv, TaskInv, UNCHANGED shown,
           task' = task \/ (task' # None => task'.at = "load")
    PROVE  ViewInv' /\ TaskInv'
<1>1. ViewInv'
  <2>1. shown # None => shown \in Finger
    BY DEF TypeOK
  <2> QED
    BY <2>1, OverGrows DEF ViewInv
<1>2. TaskInv'
  <2>1. CASE task' # None => task'.at = "load"
    BY <2>1 DEF TaskInv
  <2>2. CASE task' = task /\ task # None
    <3>1. task \in Task /\ task.print \in Finger /\ task.read \in Nat
      BY <2>2 DEF TypeOK, Task
    <3>2. doc.content \in Nat /\ doc'.content \in Nat /\ doc.content <= doc'.content
      BY DEF TypeOK, Document, Grows
    <3>3. task.at \in {"reload", "publish"} => Over(Source', task.print)
      BY <2>2, <3>1, OverGrows DEF TaskInv
    <3>4. task.at = "print" => task.read <= doc'.content
      BY <2>2, <3>1, <3>2 DEF TaskInv
    <3> QED
      BY <2>2, <3>3, <3>4 DEF TaskInv
  <2> QED
    BY <2>1, <2>2
<1> QED
  BY <1>1, <1>2

LEMMA TaskStep ==
    ASSUME TypeOK, TypeOK', Grows, QueueInv, ViewInv, TaskInv, [Next]_vars
    PROVE  ViewInv' /\ TaskInv'
<1>0. /\ Source["document"] = doc.content /\ Source["snapshots"] = snaps
      /\ doc.content \in Nat /\ snaps \in Nat
  BY SourceParts DEF TypeOK, Document
<1>1. ASSUME task # None, NEW ok \in BOOLEAN, Answer(ok), UNCHANGED shown
      PROVE  ViewInv' /\ TaskInv'
  BY <1>1, SameTask DEF Answer
<1>2. ASSUME UNCHANGED <<task, shown>> PROVE ViewInv' /\ TaskInv'
  BY <1>2, SameTask
<1>3. CASE Begin
  <2>1. task' # None => task'.at = "load"
    BY <1>3 DEF Begin
  <2> QED
    BY <1>3, <2>1, SameTask DEF Begin
<1>4. CASE Load
  <2>1. /\ task # None /\ task \in Task /\ UNCHANGED <<shown, doc, snaps>>
        /\ task' = [task EXCEPT !.read = doc.content, !.at = "print"]
    BY <1>4 DEF Load, Read, TypeOK
  <2>2. task'.at = "print" /\ task'.read = doc.content /\ task'.since = task.since
    BY <2>1 DEF Task
  <2>3. task.since["document"] <= doc.content
    BY <1>0, <2>1, FingerParts DEF QueueInv, Entry, EntryOf, Task
  <2>4. ViewInv' /\ (shown # None => shown["document"] <= doc.content)
    <3>1. Source' = Source
      BY <2>1 DEF Source, Fingerprint
    <3> QED
      BY <1>0, <2>1, <3>1 DEF ViewInv, Over
  <2> QED
    BY <1>0, <2>1, <2>2, <2>3, <2>4 DEF TaskInv
<1>5. CASE Reload
  <2>1. /\ task # None /\ task \in Task /\ UNCHANGED <<shown, doc, snaps>> /\ task.at = "reload"
        /\ task' = [task EXCEPT !.read = doc.content, !.at = "publish"]
    BY <1>5 DEF Reload, Read, TypeOK
  <2>2. task'.at = "publish" /\ task'.print = task.print /\ task'.since = task.since
    BY <2>1 DEF Task
  <2>3. Source' = Source
    BY <2>1 DEF Source, Fingerprint
  <2> QED
    BY <2>1, <2>2, <2>3 DEF TaskInv, ViewInv
<1>6. CASE Publish
  <2>1. /\ task # None /\ task \in Task /\ task.at = "publish" /\ UNCHANGED <<doc, snaps>>
        /\ shown' = task.print /\ task' = [task EXCEPT !.at = "wire"]
    BY <1>6 DEF Publish, TypeOK
  <2>2. task'.at = "wire" /\ task'.since = task.since /\ task.print \in Finger
    BY <2>1 DEF Task
  <2>3. Source' = Source
    BY <2>1 DEF Source, Fingerprint
  <2>4. Over(Source, task.print) /\ Over(task.print, task.since) /\ task.print # None
    BY <2>1, <2>2, ReadModelAssumption DEF TaskInv
  <2> QED
    BY <2>1, <2>2, <2>3, <2>4 DEF TaskInv, ViewInv
<1>7. ASSUME Calculate, task' = [task EXCEPT !.print = Fingerprint(task.read), !.at = "reload"],
             UNCHANGED <<doc, snaps>>
      PROVE  ViewInv' /\ TaskInv'
  <2>1. task # None /\ task \in Task /\ task.at = "print" /\ UNCHANGED shown
    BY <1>7 DEF Calculate, TypeOK
  <2>2. /\ task'.at = "reload" /\ task'.since = task.since /\ task'.print = Fingerprint(task.read)
        /\ task.read \in Nat /\ task.since \in Finger
    BY <1>7, <2>1 DEF Task
  <2>3. Source' = Source
    BY <1>7 DEF Source, Fingerprint
  <2>4. /\ Fingerprint(task.read)["document"] = task.read
        /\ Fingerprint(task.read)["snapshots"] = snaps
    BY <2>2, FingerType
  <2>5. /\ task.read <= doc.content /\ task.since["document"] <= task.read
        /\ task.since["snapshots"] <= snaps
        /\ shown # None => shown["document"] <= task.read /\ shown["snapshots"] <= snaps
    BY <1>0, <2>1, <2>2, FingerParts DEF TaskInv, ViewInv, Over, QueueInv, Entry, EntryOf
  <2> QED
    BY <1>0, <2>1, <2>2, <2>3, <2>4, <2>5 DEF TaskInv, ViewInv, Over
<1>8. CASE Calculate
  BY <1>1, <1>7, <1>8, CalculateStep DEF Calculate
<1>9. CASE Again
  <2>1. task # None /\ task \in Task /\ UNCHANGED shown
    BY <1>9 DEF Again, TypeOK
  <2>2. ASSUME task' = [task EXCEPT !.attempt = @ + 1, !.at = "load", !.print = Nothing]
        PROVE  ViewInv' /\ TaskInv'
    <3>1. task'.at = "load"
      BY <2>1, <2>2 DEF Task
    <3> QED
      BY <2>1, <3>1, SameTask
  <2> QED
    BY <1>1, <1>9, <2>1, <2>2, AgainStep
<1>10. CASE WireReady \/ Fail
  BY <1>1, <1>10 DEF WireReady, Fail
<1>11. CASE Crash
  BY <1>11, SameTask DEF Crash
<1>12. CASE Quiet
  BY <1>2, <1>12 DEF Quiet
<1>13. ASSUME NEW j \in Jobs,
              EnterBatch(j) \/ CaptureSnapshot(j) \/ RefreshAfterSync(j) \/ LeaveBatch(j)
       PROVE  ViewInv' /\ TaskInv'
  BY <1>2, <1>13 DEF EnterBatch, CaptureSnapshot, RefreshAfterSync, LeaveBatch
<1>14. CASE PortfolioStateSaved \/ Tick
  BY <1>2, <1>14 DEF PortfolioStateSaved, Tick
<1> QED
  BY <1>3, <1>4, <1>5, <1>6, <1>8, <1>9, <1>10, <1>11, <1>12, <1>13, <1>14, QuietStep
     DEF Next, Refresher

-----------------------------------------------------------------------------
(* A model that is behind has a refresh due: the refresh at work counts only *)
(* while the document it has read is still the stored one.                   *)

Later == \/ unheard > 0
         \/ queue # <<>>
         \/ batch # None /\ batch.dirty
         \/ missed
CoverInv ==
  /\ task = None => (shown # Source => Later)
  /\ task # None =>
       /\ task.at \in {"print", "publish"} => (task.read # doc.content => Later)
       /\ task.at = "wire" => (shown # Source => Later)

LEMMA CoverDue == ASSUME CoverInv PROVE SavesCovered
BY DEF CoverInv, Later, SavesCovered, RefreshDue

LEMMA CoverLater == ASSUME Later' PROVE CoverInv'
BY DEF CoverInv

LEMMA CoverKept ==
    ASSUME CoverInv, UNCHANGED <<doc, snaps, shown, task>>, Later => Later'
    PROVE  CoverInv'
<1>1. Source' = Source
  BY DEF Source, Fingerprint
<1> QED
  BY <1>1 DEF CoverInv

LEMMA CoverAnswer ==
    ASSUME TypeOK, NEW ok \in BOOLEAN, Answer(ok), UNCHANGED shown,
           ok => (shown # Source => Later)
    PROVE  CoverInv'
<1>1. /\ task' = None /\ UNCHANGED <<doc, snaps, unheard, queue>>
      /\ missed' = (missed \/ ~ok \/ (Clears(ok) /\ batch.dirty /\ shown # Source))
      /\ ~Clears(ok) => batch' = batch
  BY DEF Answer
<1>2. Clears(ok) => batch # None
  BY DEF Clears, BatchNow
<1>3. Source' = Source
  BY <1>1 DEF Source, Fingerprint
<1>4. ok /\ shown # Source => Later'
  <2> SUFFICES ASSUME ok, shown # Source PROVE Later'
    OBVIOUS
  <2>1. Later
    OBVIOUS
  <2>2. CASE unheard > 0 \/ queue # <<>> \/ missed
    <3>1. missed => missed'
      BY <1>1
    <3> QED
      BY <1>1, <2>2, <3>1 DEF Later
  <2>3. CASE batch # None /\ batch.dirty
    <3>1. CASE Clears(ok)
      <4>1. missed' = TRUE
        BY <1>1, <2>3, <3>1
      <4> QED
        BY <4>1 DEF Later
    <3>2. CASE ~Clears(ok)
      BY <1>1, <2>3, <3>2 DEF Later
    <3> QED
      BY <3>1, <3>2
  <2> QED
    BY <2>1, <2>2, <2>3 DEF Later
<1>5. ~ok => Later'
  <2>1. ~ok => missed' = TRUE
    BY <1>1
  <2> QED
    BY <2>1 DEF Later
<1> QED
  BY <1>1, <1>3, <1>4, <1>5 DEF CoverInv

LEMMA MarkedDue ==
    ASSUME TypeOK, batch # None, batch' = Marked(batch) PROVE Later'
<1>1. batch \in [no : Nat, depth : Nat \ {0}, dirty : BOOLEAN]
  BY DEF TypeOK
<1>2. batch'.dirty = TRUE /\ batch' # None
  BY <1>1, BatchIsThere DEF Marked
<1> QED
  BY <1>2 DEF Later

LEMMA AppendDue ==
    ASSUME TypeOK, NEW r, r \in Asked, queue' = Append(queue, r) PROVE Later'
<1>1. Len(queue') = Len(queue) + 1 /\ Len(queue) \in Nat
  BY DEF TypeOK
<1>2. queue' # <<>>
  BY <1>1
<1> QED
  BY <1>2 DEF Later

LEMMA CoverJobs ==
    ASSUME TypeOK, CoverInv, NEW j \in Jobs,
           EnterBatch(j) \/ CaptureSnapshot(j) \/ RefreshAfterSync(j) \/ LeaveBatch(j)
    PROVE  CoverInv'
<1>1. CASE EnterBatch(j)
  <2>1. UNCHANGED <<doc, snaps, shown, task, unheard, queue, missed>>
    BY <1>1 DEF EnterBatch
  <2>2. batch # None /\ batch.dirty => batch' # None /\ batch'.dirty
    <3> SUFFICES ASSUME batch # None, batch.dirty PROVE batch' # None /\ batch'.dirty
      OBVIOUS
    <3>1. /\ batch' = [batch EXCEPT !.depth = @ + 1]
          /\ batch \in [no : Nat, depth : Nat \ {0}, dirty : BOOLEAN]
      BY <1>1 DEF EnterBatch, TypeOK
    <3> QED
      BY <3>1, BatchIsThere
  <2>3. Later => Later'
    BY <2>1, <2>2 DEF Later
  <2> QED
    BY <2>1, <2>3, CoverKept
<1>2. CASE CaptureSnapshot(j)
  <2>1. Len(queue') = Len(queue) + 1 /\ Len(queue) \in Nat
    BY <1>2 DEF CaptureSnapshot, TypeOK
  <2>2. queue' # <<>>
    BY <2>1
  <2> QED
    BY <2>2, CoverLater DEF Later
<1>3. CASE RefreshAfterSync(j)
  BY <1>3, RequestType, MarkedDue, AppendDue, CoverLater DEF RefreshAfterSync
<1>4. CASE LeaveBatch(j)
  <2>1. UNCHANGED <<doc, snaps, shown, task, unheard, missed>>
    BY <1>4 DEF LeaveBatch
  <2>2. CASE LastOut(batch) /\ batch.dirty
    BY <1>4, <2>2, RequestType, AppendDue, CoverLater DEF LeaveBatch
  <2>3. CASE LastOut(batch) /\ ~batch.dirty
    <3>1. queue' = queue
      BY <1>4, <2>3 DEF LeaveBatch
    <3>2. Later => Later'
      BY <2>1, <2>3, <3>1 DEF Later
    <3> QED
      BY <2>1, <3>2, CoverKept
  <2>4. CASE ~LastOut(batch)
    <3>1. queue' = queue /\ batch' = [batch EXCEPT !.depth = @ - 1]
      BY <1>4, <2>4 DEF LeaveBatch
    <3>2. batch # None /\ batch.dirty => batch' # None /\ batch'.dirty
      <4> SUFFICES ASSUME batch # None, batch.dirty PROVE batch' # None /\ batch'.dirty
        OBVIOUS
      <4>1. batch \in [no : Nat, depth : Nat \ {0}, dirty : BOOLEAN] /\ batch.depth # 1
        BY <2>4 DEF LastOut, TypeOK
      <4> QED
        BY <3>1, <4>1, BatchIsThere
    <3>3. Later => Later'
      BY <2>1, <3>1, <3>2 DEF Later
    <3> QED
      BY <2>1, <3>3, CoverKept
  <2> QED
    BY <2>2, <2>3, <2>4
<1> QED
  BY <1>1, <1>2, <1>3, <1>4

LEMMA TaskIsThere == ASSUME NEW t \in Task PROVE t # None
BY ReadModelAssumption

LEMMA AgainThere ==
    ASSUME TypeOK, task # None, task.attempt < Attempts,
           task' = [task EXCEPT !.attempt = @ + 1, !.at = "load", !.print = Nothing]
    PROVE  task' # None
<1>1. task \in Task
  BY DEF TypeOK
<1>2. task.attempt + 1 \in 1 .. Attempts
  BY <1>1, ReadModelAssumption DEF Task
<1>3. task' \in Task
  BY <1>1, <1>2, NothingType DEF Task
<1> QED
  BY <1>3, TaskIsThere

LEMMA CoverTask ==
    ASSUME TypeOK, TypeOK', CoverInv, Refresher PROVE CoverInv'
<1>1. CASE Begin
  <2>1. task'.at = "load"
    BY <1>1 DEF Begin
  <2>2. task' # None
    <3>1. Head(queue) \in Asked
      BY <1>1 DEF Begin, TypeOK
    <3>2. task' \in Task
      BY <1>1, <3>1, NothingType, ReadModelAssumption DEF Begin, Asked, Task
    <3> QED
      BY <3>2, TaskIsThere
  <2> QED
    BY <2>1, <2>2 DEF CoverInv
<1>2. CASE Load
  <2>1. /\ task # None /\ task \in Task /\ doc' = doc
        /\ task' = [task EXCEPT !.read = doc.content, !.at = "print"]
    BY <1>2 DEF Load, Read, TypeOK
  <2>2. task'.at = "print" /\ task'.read = doc'.content /\ task' # None
    <3>1. task' \in Task
      BY <2>1 DEF Task, TypeOK, Document
    <3> QED
      BY <2>1, <3>1, TaskIsThere DEF Task
  <2> QED
    BY <2>1, <2>2 DEF CoverInv
<1>3. CASE Reload
  <2>1. /\ task # None /\ task \in Task /\ doc' = doc
        /\ task' = [task EXCEPT !.read = doc.content, !.at = "publish"]
    BY <1>3 DEF Reload, Read, TypeOK
  <2>2. task'.at = "publish" /\ task'.read = doc'.content /\ task' # None
    <3>1. task' \in Task
      BY <2>1 DEF Task, TypeOK, Document
    <3> QED
      BY <2>1, <3>1, TaskIsThere DEF Task
  <2> QED
    BY <2>1, <2>2 DEF CoverInv
<1>4. CASE Calculate
  <2>1. task # None /\ task.at = "print" /\ task \in Task /\ UNCHANGED shown
    BY <1>4 DEF Calculate, TypeOK
  <2>2. CASE shown = Fingerprint(task.read) /\ Answer(TRUE)
    <3>1. shown # Source => task.read # doc.content
      BY <2>2 DEF Source
    <3> QED
      BY <2>1, <2>2, <3>1, CoverAnswer DEF CoverInv
  <2>3. CASE task' = [task EXCEPT !.print = Fingerprint(task.read), !.at = "reload"]
    <3>1. task'.at = "reload"
      BY <2>1, <2>3 DEF Task
    <3>2. task' # None
      <4>1. task' \in Task
        BY <2>1, <2>3, FingerType DEF Task
      <4> QED
        BY <4>1, TaskIsThere
    <3> QED
      BY <3>1, <3>2 DEF CoverInv
  <2> QED
    BY <1>4, <2>2, <2>3, CalculateStep
<1>5. CASE Publish
  <2>1. /\ task # None /\ task \in Task /\ task.at = "publish" /\ UNCHANGED <<doc, snaps>>
        /\ shown' = task.print /\ task' = [task EXCEPT !.at = "wire"]
        /\ Fingerprint(task.read) = task.print
        /\ UNCHANGED <<unheard, queue, batch, missed>>
    BY <1>5 DEF Publish, TypeOK
  <2>2. task'.at = "wire"
    BY <2>1 DEF Task
  <2>3. Source' = Source
    BY <2>1 DEF Source, Fingerprint
  <2>4. shown' # Source' => Later
    BY <2>1, <2>3 DEF Source, CoverInv
  <2>5. Later => Later'
    BY <2>1 DEF Later
  <2> QED
    BY <2>2, <2>4, <2>5 DEF CoverInv
<1>6. CASE Again
  <2>1. task # None /\ task \in Task /\ UNCHANGED shown
    BY <1>6 DEF Again, TypeOK
  <2>2. CASE Answer(FALSE)
    BY <2>1, <2>2, CoverAnswer
  <2>3. CASE /\ task.attempt < Attempts
             /\ task' = [task EXCEPT !.attempt = @ + 1, !.at = "load", !.print = Nothing]
    <3>1. task'.at = "load"
      BY <2>1, <2>3 DEF Task
    <3>2. task' # None
      BY <2>1, <2>3, AgainThere
    <3> QED
      BY <3>1, <3>2 DEF CoverInv
  <2> QED
    BY <1>6, <2>2, <2>3, AgainStep
<1>7. CASE WireReady
  BY <1>7, CoverAnswer DEF WireReady, CoverInv
<1> QED
  BY <1>1, <1>2, <1>3, <1>4, <1>5, <1>6, <1>7 DEF Refresher

LEMMA CoverStep ==
    ASSUME TypeOK, TypeOK', CoverInv, [Next]_vars PROVE CoverInv'
<1>1. ASSUME NEW counts \in BOOLEAN, Save(counts) PROVE CoverInv'
  <2>1. unheard \in Nat /\ unheard' = unheard + 1
    BY <1>1 DEF Save, TypeOK
  <2>2. unheard' > 0
    BY <2>1
  <2> QED
    BY <2>2, CoverLater DEF Later
<1>2. CASE PortfolioStateSaved
  BY <1>2, RequestType, MarkedDue, AppendDue, CoverLater DEF PortfolioStateSaved
<1>3. CASE Tick
  BY <1>3, RequestType, AppendDue, CoverLater DEF Tick
<1>4. CASE Fail
  BY <1>4, CoverAnswer DEF Fail
<1>5. CASE Crash
  <2>1. missed' = TRUE
    BY <1>5 DEF Crash
  <2> QED
    BY <2>1, CoverLater DEF Later
<1>6. ASSUME UNCHANGED <<doc, snaps, shown, task, unheard, queue, batch, missed>> PROVE CoverInv'
  BY <1>6, CoverKept DEF Later
<1>7. ASSUME NEW q \in Pages, Ask(q) \/ Known(q) \/ LoadRead(q) \/ LoadDone(q) PROVE CoverInv'
  BY <1>6, <1>7 DEF Ask, Known, LoadRead, LoadDone
<1>8. CASE UNCHANGED vars
  BY <1>6, <1>8 DEF vars
<1> QED
  BY <1>1, <1>2, <1>3, <1>4, <1>5, <1>7, <1>8, CoverJobs, CoverTask DEF Next

-----------------------------------------------------------------------------
(* Documents in use and revisions asked for lie on one line: whatever is at  *)
(* least as late as what a page wants holds at least what it asked for.      *)

Busy == {"known", "waiting", "load", "loaded"}
FitsIn(d, stored) == d.rev <= stored.rev /\ (d.rev = stored.rev => d.content = stored.content)
Enough(pg, d) == d.rev >= pg.want => d.content >= pg.asked
PageFits(pg, stored, c) ==
  /\ pg.at # "served" => pg.got = None
  /\ pg.got # None => pg.got["document"] >= pg.asked
  /\ pg.at = "loaded" => /\ pg.read \in Document
                         /\ FitsIn(pg.read, stored)
                         /\ pg.read.rev >= pg.want
  /\ pg.at \in Busy => /\ pg.want <= stored.rev
                       /\ pg.asked <= stored.content
                       /\ c # None => Enough(pg, c)
PageInv ==
  /\ cached # None => FitsIn(cached, doc)
  /\ \A q \in Pages : PageFits(page[q], doc, cached)
  /\ \A p, q \in Pages : page[p].at = "loaded" /\ page[q].at \in Busy
                           => Enough(page[q], page[p].read)

LEMMA PageKept ==
    ASSUME PageInv, UNCHANGED <<doc, page, cached>> PROVE PageInv'
BY DEF PageInv

LEMMA PageSave ==
    ASSUME TypeOK, PageInv, NEW counts \in BOOLEAN, Save(counts) PROVE PageInv'
<1>1. /\ UNCHANGED <<page, cached>> /\ doc'.rev = doc.rev + 1
      /\ doc'.content \in Nat /\ doc'.content >= doc.content
      /\ doc.rev \in Nat /\ doc.content \in Nat
  BY DEF Save, reading, TypeOK, Document
<1>2. cached # None => FitsIn(cached, doc')
  BY <1>1 DEF PageInv, FitsIn, TypeOK, Document
<1>3. ASSUME NEW q \in Pages PROVE PageFits(page[q], doc', cached)
  <2>1. PageFits(page[q], doc, cached) /\ page[q].want \in Nat /\ page[q].asked \in Nat
    BY DEF PageInv, TypeOK
  <2>2. page[q].at = "loaded" => FitsIn(page[q].read, doc')
    BY <1>1, <2>1 DEF PageFits, FitsIn, Document
  <2>3. page[q].want <= doc.rev => page[q].want <= doc'.rev
    BY <1>1, <2>1
  <2>4. page[q].asked <= doc.content => page[q].asked <= doc'.content
    BY <1>1, <2>1
  <2> QED
    BY <2>1, <2>2, <2>3, <2>4 DEF PageFits
<1> QED
  BY <1>1, <1>2, <1>3 DEF PageInv

LEMMA PageRead ==
    ASSUME TypeOK, PageInv, doc' = doc, page' = page, cached' = doc PROVE PageInv'
<1>1. FitsIn(doc, doc)
  BY DEF FitsIn, TypeOK, Document
<1>2. ASSUME NEW q \in Pages PROVE PageFits(page[q], doc, doc)
  BY DEF PageInv, PageFits, Enough, TypeOK, Document
<1> QED
  BY <1>1, <1>2 DEF PageInv

LEMMA PageAsk ==
    ASSUME TypeOK, PageInv, NEW q \in Pages, Ask(q) PROVE PageInv'
<1> DEFINE new == [page[q] EXCEPT !.at = "known", !.want = doc.rev, !.asked = doc.content]
<1>1. /\ UNCHANGED <<doc, cached>> /\ page[q].at = "idle"
      /\ page' = [page EXCEPT ![q] = new]
      /\ page[q] \in PageType
  BY DEF Ask, TypeOK, PageType
<1>2. /\ new.at = "known" /\ new.want = doc.rev /\ new.asked = doc.content
      /\ new.got = page[q].got
  BY <1>1 DEF PageType
<1>3. doc.rev \in Nat /\ doc.content \in Nat
  BY DEF TypeOK, Document
<1>4. ASSUME NEW d, d.rev \in Nat, d.content \in Nat, FitsIn(d, doc) PROVE Enough(new, d)
  BY <1>2, <1>3, <1>4 DEF FitsIn, Enough
<1>5. page' \in [Pages -> PageType] /\ page'[q] = new /\ \A p \in Pages : p # q => page'[p] = page[p]
  BY <1>1, <1>3 DEF TypeOK, PageType
<1> HIDE DEF new
<1>6. PageFits(new, doc, cached)
  <2>1. cached # None => Enough(new, cached)
    BY <1>4 DEF PageInv, TypeOK, Document
  <2>2. new.got = None
    BY <1>1, <1>2 DEF PageInv, PageFits
  <2> QED
    BY <1>2, <1>3, <2>1, <2>2 DEF PageFits
<1>7. \A p \in Pages : PageFits(page'[p], doc', cached')
  BY <1>1, <1>5, <1>6 DEF PageInv
<1>8. ASSUME NEW p \in Pages, NEW r \in Pages, page'[p].at = "loaded", page'[r].at \in Busy
      PROVE  Enough(page'[r], page'[p].read)
  <2>1. p # q /\ page'[p] = page[p]
    BY <1>2, <1>5, <1>8
  <2>2. CASE r = q
    <3>1. page[p].read \in Document /\ FitsIn(page[p].read, doc)
      BY <1>8, <2>1 DEF PageInv, PageFits
    <3> QED
      BY <1>4, <1>5, <2>1, <2>2, <3>1 DEF Document
  <2>3. CASE r # q
    BY <1>5, <1>8, <2>1, <2>3 DEF PageInv
  <2> QED
    BY <2>2, <2>3
<1> QED
  BY <1>1, <1>7, <1>8 DEF PageInv

(* A page that takes a document recent enough shows no older model. *)
LEMMA ServedFits ==
    ASSUME TypeOK, NEW q \in Pages, NEW d \in Document, d.content >= page[q].asked, NEW c, NEW stored
    PROVE  PageFits(Served(q, d), stored, c) /\ Served(q, d).at = "served"
<1>1. CASE shown = Fingerprint(d.content)
  <2>1. Served(q, d) = [Gone EXCEPT !.asked = page[q].asked, !.got = shown]
    BY <1>1 DEF Served, Stored
  <2>2. shown["document"] = d.content
    BY <1>1, FingerType DEF Document
  <2>3. Served(q, d).at = "served" /\ Served(q, d).got = shown /\ Served(q, d).asked = page[q].asked
    BY <2>1 DEF Gone, Idle
  <2> QED
    BY <2>2, <2>3 DEF PageFits, Busy
<1>2. CASE shown # Fingerprint(d.content)
  <2>1. Served(q, d).at = "served" /\ Served(q, d).got = None
    BY <1>2 DEF Served, Stored, Gone, Idle
  <2> QED
    BY <2>1 DEF PageFits, Busy
<1> QED
  BY <1>1, <1>2

(* What a page still wants does not change while it waits or loads. *)
Same(new, old) == new.want = old.want /\ new.asked = old.asked /\ new.got = old.got

LEMMA SameEnough ==
    ASSUME NEW new, NEW old, NEW d, Same(new, old), Enough(old, d) PROVE Enough(new, d)
BY DEF Same, Enough

LEMMA SameFits ==
    ASSUME NEW new, NEW old, NEW d, NEW c, Same(new, old), PageFits(old, d, c), old.at \in Busy,
           new.at \in {"known", "waiting", "load"}
    PROVE  PageFits(new, d, c)
BY SameEnough DEF PageFits, Same, Busy

LEMMA LoadingSame ==
    ASSUME TypeOK, NEW q \in Pages PROVE Same(Loading(q), page[q]) /\ Loading(q).at = "load"
BY DEF Loading, Same, TypeOK

LEMMA PageKnown ==
    ASSUME TypeOK, PageInv, NEW q \in Pages, Known(q) PROVE PageInv'
<1>1. UNCHANGED <<doc, cached>> /\ page[q].at = "known" /\ PageFits(page[q], doc, cached)
  BY DEF Known, PageInv
<1>2. ASSUME NEW new, page' = [page EXCEPT ![q] = new], PageFits(new, doc, cached),
             new.at # "loaded", new.at \in Busy => Same(new, page[q])
      PROVE  PageInv'
  <2>1. page'[q] = new /\ \A p \in Pages : p # q => page'[p] = page[p]
    BY <1>2 DEF TypeOK
  <2>2. \A p \in Pages : PageFits(page'[p], doc', cached')
    BY <1>1, <1>2, <2>1 DEF PageInv
  <2>3. ASSUME NEW p \in Pages, NEW r \in Pages, page'[p].at = "loaded", page'[r].at \in Busy
        PROVE  Enough(page'[r], page'[p].read)
    <3>1. p # q /\ page'[p] = page[p]
      BY <1>2, <2>1, <2>3
    <3>2. Enough(page[r], page[p].read)
      BY <1>1, <2>1, <2>3, <3>1 DEF PageInv, Busy
    <3>3. r = q => Same(new, page[q])
      BY <1>2, <2>1, <2>3
    <3> QED
      BY <2>1, <3>1, <3>2, <3>3, SameEnough
  <2> QED
    BY <1>1, <2>2, <2>3 DEF PageInv
<1>3. ASSUME cached # None, cached.rev = page[q].want, page' = [page EXCEPT ![q] = Served(q, cached)]
      PROVE  PageInv'
  <2>1. cached \in Document /\ cached.content >= page[q].asked
    BY <1>1, <1>3 DEF PageFits, Busy, Enough, TypeOK, Document
  <2>2. PageFits(Served(q, cached), doc, cached) /\ Served(q, cached).at = "served"
    BY <2>1, ServedFits
  <2> QED
    BY <1>2, <1>3, <2>2 DEF Busy
<1>4. ASSUME page' = [page EXCEPT ![q] = [@ EXCEPT !.at = "waiting", !.on = loading]]
      PROVE  PageInv'
  <2> DEFINE new == [page[q] EXCEPT !.at = "waiting", !.on = loading]
  <2>1. Same(new, page[q]) /\ new.at = "waiting"
    BY DEF Same, TypeOK
  <2>2. page' = [page EXCEPT ![q] = new]
    BY <1>4
  <2> HIDE DEF new
  <2>3. PageFits(new, doc, cached)
    BY <1>1, <2>1, SameFits DEF Busy
  <2> QED
    BY <1>2, <2>1, <2>2, <2>3
<1>5. ASSUME page' = [page EXCEPT ![q] = Loading(q)] PROVE PageInv'
  <2>1. PageFits(Loading(q), doc, cached)
    BY <1>1, LoadingSame, SameFits DEF Busy
  <2> QED
    BY <1>2, <1>5, <2>1, LoadingSame
<1> QED
  BY <1>3, <1>4, <1>5 DEF Known

LEMMA PageLoad ==
    ASSUME TypeOK, PageInv, NEW q \in Pages, LoadRead(q) PROVE PageInv'
<1> DEFINE new == [page[q] EXCEPT !.at = "loaded", !.read = doc]
<1>1. /\ UNCHANGED <<doc, cached>> /\ page[q].at = "load" /\ PageFits(page[q], doc, cached)
      /\ page' = [page EXCEPT ![q] = new]
  BY DEF LoadRead, PageInv
<1>2. Same(new, page[q]) /\ new.at = "loaded" /\ new.read = doc
  BY DEF Same, TypeOK
<1>3. page'[q] = new /\ \A p \in Pages : p # q => page'[p] = page[p]
  BY <1>1 DEF TypeOK
<1> HIDE DEF new
<1>4. doc \in Document /\ doc.rev \in Nat /\ doc.content \in Nat
  BY DEF TypeOK, Document
<1>5. PageFits(new, doc, cached)
  <2>1. FitsIn(doc, doc)
    BY <1>4 DEF FitsIn
  <2>2. doc.rev >= page[q].want
    BY <1>1, <1>4 DEF PageFits, Busy, TypeOK
  <2> QED
    BY <1>1, <1>2, <1>4, <2>1, <2>2, SameEnough DEF PageFits, Same, Busy
<1>6. \A p \in Pages : PageFits(page'[p], doc', cached')
  BY <1>1, <1>3, <1>5 DEF PageInv
<1>7. \A r \in Pages : page[r].at \in Busy => Enough(page[r], doc)
  BY <1>4 DEF PageInv, PageFits, Enough, TypeOK
<1>8. ASSUME NEW p \in Pages, NEW r \in Pages, page'[p].at = "loaded", page'[r].at \in Busy
      PROVE  Enough(page'[r], page'[p].read)
  <2>1. Same(page'[r], page[r]) /\ page[r].at \in Busy
    BY <1>1, <1>2, <1>3, <1>8 DEF Same, Busy
  <2>2. Enough(page[r], page'[p].read)
    BY <1>2, <1>3, <1>7, <1>8, <2>1 DEF PageInv
  <2> QED
    BY <2>1, <2>2, SameEnough
<1> QED
  BY <1>1, <1>6, <1>8 DEF PageInv

LEMMA PageDone ==
    ASSUME TypeOK, PageInv, NEW q \in Pages, LoadDone(q) PROVE PageInv'
<1> DEFINE read == page[q].read
<1>1. /\ page[q].at = "loaded" /\ cached' = read /\ doc' = doc
      /\ read \in Document /\ FitsIn(read, doc) /\ read.rev >= page[q].want
      /\ doc.rev \in Nat /\ doc.content \in Nat /\ read.rev \in Nat /\ read.content \in Nat
  BY DEF LoadDone, PageInv, PageFits, TypeOK, Document
<1>2. ASSUME NEW p \in Pages
      PROVE  \/ page'[p] = Served(p, read) /\ page[p].at \in Busy /\ read.rev >= page[p].want
             \/ page'[p] = Loading(p) /\ page[p].at \in Busy
             \/ page'[p] = page[p]
  BY <1>1 DEF LoadDone, RecentEnough, Busy
<1>3. ASSUME NEW p \in Pages, page[p].at \in Busy PROVE Enough(page[p], read)
  BY <1>1, <1>3 DEF PageInv
<1>4. ASSUME NEW p \in Pages PROVE PageFits(page[p], doc, read)
  BY <1>3 DEF PageInv, PageFits
<1>5. ASSUME NEW p \in Pages PROVE PageFits(page'[p], doc, read)
  <2>1. CASE page'[p] = Served(p, read) /\ page[p].at \in Busy /\ read.rev >= page[p].want
    <3>1. read.content >= page[p].asked
      BY <1>3, <2>1 DEF Enough
    <3> QED
      BY <1>1, <2>1, <3>1, ServedFits
  <2>2. CASE page'[p] = Loading(p) /\ page[p].at \in Busy
    BY <1>4, <2>2, LoadingSame, SameFits
  <2> QED
    BY <1>2, <1>4, <2>1, <2>2
<1>6. ASSUME NEW p \in Pages, page'[p].at \in Busy
      PROVE  Same(page'[p], page[p]) /\ page[p].at \in Busy
  <2>1. ~(page'[p] = Served(p, read) /\ page[p].at \in Busy /\ read.rev >= page[p].want)
    <3>1. Served(p, read).at = "served"
      BY DEF Served, Gone, Idle
    <3> QED
      BY <1>6, <3>1 DEF Busy
  <2> QED
    BY <1>2, <1>6, <2>1, LoadingSame DEF Same
<1>7. ASSUME NEW p \in Pages, page'[p].at = "loaded" PROVE page'[p] = page[p]
  <2>1. Served(p, read).at = "served"
    BY DEF Served, Gone, Idle
  <2> QED
    BY <1>2, <1>7, <2>1, LoadingSame
<1>8. ASSUME NEW p \in Pages, NEW r \in Pages, page'[p].at = "loaded", page'[r].at \in Busy
      PROVE  Enough(page'[r], page'[p].read)
  BY <1>6, <1>7, <1>8, SameEnough DEF PageInv
<1> QED
  BY <1>1, <1>5, <1>8 DEF PageInv

LEMMA PageCrash ==
    ASSUME TypeOK, PageInv, Crash PROVE PageInv'
<1>1. cached' = None /\ doc' = doc
  BY DEF Crash
<1>2. ASSUME NEW q \in Pages
      PROVE  page'[q].at \notin Busy /\ (page'[q] = page[q] \/ page'[q] = Gone)
  <2>1. Gone.at = "served"
    BY DEF Gone, Idle
  <2> QED
    BY <2>1 DEF Crash, Busy
<1>3. Gone.got = None /\ Gone.at = "served"
  BY DEF Gone, Idle
<1>4. \A q \in Pages : PageFits(page'[q], doc, None)
  BY <1>2, <1>3 DEF PageInv, PageFits, Busy
<1> QED
  BY <1>1, <1>2, <1>4 DEF PageInv

LEMMA PageStep ==
    ASSUME TypeOK, PageInv, [Next]_vars PROVE PageInv'
<1>1. ASSUME UNCHANGED <<doc, page, cached>> PROVE PageInv'
  BY <1>1, PageKept
<1>2. CASE Load \/ Reload
  BY <1>2, PageRead DEF Load, Reload, Read
<1>3. ASSUME NEW j \in Jobs,
             EnterBatch(j) \/ CaptureSnapshot(j) \/ RefreshAfterSync(j) \/ LeaveBatch(j)
      PROVE  PageInv'
  BY <1>1, <1>3 DEF EnterBatch, CaptureSnapshot, RefreshAfterSync, LeaveBatch, reading
<1>4. CASE \/ PortfolioStateSaved \/ Tick \/ Begin \/ Calculate \/ Publish \/ Again \/ WireReady
           \/ Fail \/ UNCHANGED vars
  BY <1>1, <1>4
     DEF PortfolioStateSaved, Tick, Begin, Calculate, Publish, Again, WireReady, Fail, Answer,
         reading, vars
<1> QED
  BY <1>2, <1>3, <1>4, PageSave, PageAsk, PageKnown, PageLoad, PageDone, PageCrash
     DEF Next, Refresher

-----------------------------------------------------------------------------
(* Who waits has no answer yet.                                              *)

StatusInv == \A j \in Jobs : job[j].at \in Wait => job[j].status = "pending"

LEMMA StatusStep ==
    ASSUME TypeOK, StatusInv, [Next]_vars PROVE StatusInv'
<1>1. ASSUME NEW j \in Jobs, NEW where, Waits(j, where) PROVE StatusInv'
  BY <1>1 DEF Waits, StatusInv, TypeOK
<1>2. ASSUME NEW j \in Jobs, NEW where \in {"in", "done"}, At(j, where) PROVE StatusInv'
  BY <1>2 DEF At, StatusInv, Wait, TypeOK
<1>3. ASSUME UNCHANGED job PROVE StatusInv'
  BY <1>3 DEF StatusInv
<1>4. ASSUME NEW ok \in BOOLEAN, Answer(ok) PROVE StatusInv'
  BY <1>4 DEF Answer, After, StatusInv, Wait
<1>5. ASSUME NEW j \in Jobs, RefreshAfterSync(j) PROVE StatusInv'
  <2>1. CASE job' = [job EXCEPT ![j].at = IF @ = "idle" THEN "done" ELSE @]
    <3>1. job[j].at \in {"idle", "in"}
      BY <1>5 DEF RefreshAfterSync
    <3> QED
      BY <2>1, <3>1 DEF StatusInv, Wait, TypeOK
  <2> QED
    BY <1>1, <1>5, <2>1 DEF RefreshAfterSync
<1>6. ASSUME NEW j \in Jobs, EnterBatch(j) \/ CaptureSnapshot(j) \/ LeaveBatch(j) PROVE StatusInv'
  BY <1>1, <1>2, <1>6 DEF EnterBatch, CaptureSnapshot, LeaveBatch
<1>7. CASE Crash
  BY <1>7 DEF Crash, StatusInv, Wait, TypeOK
<1>8. CASE Calculate
  BY <1>3, <1>4, <1>8, CalculateStep
<1>9. CASE Again
  BY <1>3, <1>4, <1>9, AgainStep
<1>10. CASE WireReady \/ Fail
  BY <1>4, <1>10 DEF WireReady, Fail
<1>11. CASE PortfolioStateSaved \/ Tick \/ Begin \/ Load \/ Reload \/ Publish
  BY <1>3, <1>11 DEF PortfolioStateSaved, Tick, Begin, Load, Reload, Read, Publish
<1>12. CASE Quiet
  BY <1>3, <1>12 DEF Quiet
<1> QED
  BY <1>5, <1>6, <1>7, <1>8, <1>9, <1>10, <1>11, <1>12, QuietStep DEF Next, Refresher

-----------------------------------------------------------------------------
(* The invariant of all parts.                                               *)

IInv == /\ TypeOK /\ DepthCounts /\ QueueInv
        /\ ViewInv /\ TaskInv /\ StatusInv
        /\ CoverInv /\ PageInv

LEMMA InitOK == ASSUME Init PROVE IInv
<1> USE DEF Init
<1>1. TypeOK
  <2>1. queue \in Seq(Asked)
    BY NothingType DEF Unattended, Asked
  <2> QED
    BY <2>1 DEF TypeOK, Document, Idle
<1>2. DepthCounts
  BY DEF DepthCounts, Inside
<1>3. QueueInv
  <2>1. Source["document"] = 0 /\ Source["snapshots"] = 0
    BY <1>1, SourceParts
  <2>2. Len(queue) = 1 /\ queue[1] = Unattended("worker")
    OBVIOUS
  <2>3. Entry(queue[1])
    BY <2>1, <2>2, ReadModelAssumption DEF Entry, EntryOf, Unattended, Nothing, Parts
  <2>4. queue[1].by \notin Jobs
    BY <2>2, ReadModelAssumption DEF Unattended
  <2> QED
    BY <2>2, <2>3, <2>4 DEF QueueInv
<1>4. ViewInv /\ TaskInv
  BY DEF ViewInv, TaskInv
<1>5. StatusInv
  BY DEF StatusInv
<1>6. CoverInv
  <2>1. queue # <<>>
    OBVIOUS
  <2> QED
    BY <2>1 DEF CoverInv, Later
<1>7. PageInv
  BY DEF PageInv, PageFits, Idle, Busy
<1> QED
  BY <1>1, <1>2, <1>3, <1>4, <1>5, <1>6, <1>7 DEF IInv

LEMMA InvStep == ASSUME IInv, [Next]_vars PROVE IInv'
<1>1. TypeOK'
  BY TypeStep DEF IInv
<1>2. Grows
  BY SourceGrows DEF IInv
<1>3. QueueInv' /\ DepthCounts'
  BY <1>1, <1>2, QueueStep, DepthStep DEF IInv
<1>4. ViewInv' /\ TaskInv'
  BY <1>1, <1>2, TaskStep DEF IInv
<1>5. StatusInv' /\ CoverInv' /\ PageInv'
  BY <1>1, StatusStep, CoverStep, PageStep DEF IInv
<1> QED
  BY <1>1, <1>3, <1>4, <1>5 DEF IInv

LEMMA AlwaysIInv == Spec => []IInv
BY InitOK, InvStep, PTL DEF Spec

-----------------------------------------------------------------------------
(* Every reachable state is of the declared types: a batch that is there has *)
(* somebody in it, and no refresh tries more often than it may.              *)
THEOREM ReadModelTyped == Spec => []TypeOK
<1>1. IInv => TypeOK
  BY DEF IInv
<1> QED
  BY <1>1, AlwaysIInv, PTL

(* No page shows a model that is older than the document was when the page   *)
(* asked for its revision, whoever brought the document it has used.         *)
THEOREM PagesShowFresh == Spec => []PagesFresh
<1>1. IInv => PagesFresh
  BY DEF IInv, PageInv, PageFits, PagesFresh
<1> QED
  BY <1>1, AlwaysIInv, PTL

(* A model that is behind has a refresh due, unless a refresh failed, the    *)
(* process died or a mark was cleared for a save made meanwhile.             *)
THEOREM SavesStayCovered == Spec => []SavesCovered
<1>1. IInv => SavesCovered
  BY CoverDue DEF IInv
<1> QED
  BY <1>1, AlwaysIInv, PTL

(* A job that is told its refresh is ready finds in the model all that was   *)
(* stored when it asked.                                                     *)
THEOREM ReadyMeansCovered == Spec => ReadyCovers
<1>1. ASSUME IInv, [Next]_vars, NEW j \in Jobs, task # None, task.by = j, task' = None,
             job'[j].status = "ready"
      PROVE  shown # None /\ View!Covers(shown, task.since)
  <2>1. Entry(task) /\ job[j].at \in Wait /\ job[j].status = "pending" /\ task \in Task
    BY <1>1 DEF IInv, QueueInv, Entry, EntryOf, StatusInv, TypeOK
  <2>2. ASSUME NEW ok \in BOOLEAN, Answer(ok) PROVE ok
    BY <1>1, <2>2 DEF Answer
  <2>3. CASE Calculate
    <3>1. task.at = "print"
      BY <2>3 DEF Calculate
    <3>2. shown = Fingerprint(task.read)
      <4>1. task' # [task EXCEPT !.print = Fingerprint(task.read), !.at = "reload"]
        <5>1. [task EXCEPT !.print = Fingerprint(task.read), !.at = "reload"] \in Task
          BY <1>1, <2>1, FingerType DEF IInv, Task
        <5> QED
          BY <1>1, <5>1, TaskIsThere
      <4> QED
        BY <2>3, <4>1, CalculateStep
    <3>3. task.read \in Nat /\ TypeOK
      BY <1>1, <2>1 DEF IInv, Task
    <3>4. shown \in Finger /\ shown["document"] = task.read /\ shown["snapshots"] = snaps
      BY <3>2, <3>3, FingerType
    <3>5. task.since["document"] <= task.read
      BY <1>1, <3>1 DEF IInv, TaskInv
    <3>6. task.since["snapshots"] <= snaps
      <4>1. task.since \in Finger
        BY <2>1 DEF Task
      <4> QED
        BY <2>1, <3>3, <4>1, SourceParts, FingerParts DEF Entry, EntryOf, TypeOK
    <3>7. shown # None
      BY <3>4, ReadModelAssumption
    <3> QED
      BY <3>4, <3>5, <3>6, <3>7, CoversParts
  <2>4. CASE WireReady
    <3>1. task.at = "wire"
      BY <2>4 DEF WireReady
    <3> QED
      BY <1>1, <3>1, CoversParts DEF IInv, TaskInv, Over
  <2>5. CASE Again
    <3>1. task' # [task EXCEPT !.attempt = @ + 1, !.at = "load", !.print = Nothing] \/ ~(task.attempt < Attempts)
      BY <1>1, AgainThere DEF IInv
    <3> QED
      BY <2>2, <2>5, <3>1, AgainStep
  <2>6. CASE Fail
    BY <2>2, <2>6 DEF Fail
  <2>7. CASE Crash
    BY <1>1, <2>1, <2>7 DEF Crash, IInv, TypeOK
  <2>8. CASE Load \/ Reload
    <3>1. PICK next \in {"print", "publish"} : Read(next)
      BY <2>8 DEF Load, Reload
    <3>2. [task EXCEPT !.read = doc.content, !.at = next] \in Task
      BY <1>1, <2>1 DEF IInv, TypeOK, Task, Document
    <3> QED
      BY <1>1, <3>1, <3>2, TaskIsThere DEF Read
  <2>9. CASE Publish
    <3>1. [task EXCEPT !.at = "wire"] \in Task
      BY <2>1 DEF Task
    <3> QED
      BY <1>1, <2>9, <3>1, TaskIsThere DEF Publish
  <2>10. CASE Begin
    BY <1>1, <2>10 DEF Begin
  <2>11. CASE UNCHANGED task
    BY <1>1, <2>11
  <2>12. ASSUME NEW i \in Jobs,
                EnterBatch(i) \/ CaptureSnapshot(i) \/ RefreshAfterSync(i) \/ LeaveBatch(i)
         PROVE  UNCHANGED task
    BY <2>12 DEF EnterBatch, CaptureSnapshot, RefreshAfterSync, LeaveBatch
  <2>13. CASE PortfolioStateSaved \/ Tick \/ Quiet
    BY <2>11, <2>13 DEF PortfolioStateSaved, Tick, Quiet
  <2> QED
    BY <1>1, <2>3, <2>4, <2>5, <2>6, <2>7, <2>8, <2>9, <2>10, <2>11, <2>12, <2>13, QuietStep
       DEF Next, Refresher
<1>2. IInv /\ [Next]_vars
        => [\A j \in Jobs : task # None /\ task.by = j /\ task' = None /\ job'[j].status = "ready"
              => shown # None /\ View!Covers(shown, task.since)]_vars
  BY <1>1
<1> QED
  BY <1>2, AlwaysIInv, PTL DEF Spec, ReadyCovers

-----------------------------------------------------------------------------
(* The read model implements the view that lags.                             *)

LEMMA ViewInit == ASSUME Init PROVE View!Init
BY DEF Init, View!Init, Source, Fingerprint

LEMMA ViewStep == ASSUME IInv, [Next]_vars PROVE [View!Next]_(View!vars)
<1>1. ASSUME UNCHANGED <<doc, snaps, shown>> PROVE UNCHANGED View!vars
  BY <1>1 DEF View!vars, Source, Fingerprint
<1>2. ASSUME NEW counts \in BOOLEAN, Save(counts) PROVE [View!Next]_(View!vars)
  <2>1. CASE counts
    <3>1. doc'.content = doc.content + 1 /\ UNCHANGED <<snaps, shown>>
      BY <1>2, <2>1 DEF Save
    <3>2. Source' = [Source EXCEPT !["document"] = @ + 1]
      BY <3>1 DEF Source, Fingerprint, Parts
    <3>3. View!Change
      BY <3>1, <3>2 DEF View!Change, Parts
    <3> QED
      BY <3>3 DEF View!Next
  <2>2. CASE ~counts
    <3>1. doc'.content = doc.content /\ UNCHANGED <<snaps, shown>>
      BY <1>2, <2>2 DEF Save, IInv, TypeOK, Document
    <3> QED
      BY <3>1 DEF View!vars, Source, Fingerprint
  <2> QED
    BY <2>1, <2>2
<1>3. ASSUME NEW j \in Jobs, CaptureSnapshot(j) PROVE [View!Next]_(View!vars)
  <2>1. snaps' = snaps + 1 /\ UNCHANGED <<doc, shown>>
    BY <1>3 DEF CaptureSnapshot
  <2>2. Source' = [Source EXCEPT !["snapshots"] = @ + 1]
    BY <2>1 DEF Source, Fingerprint, Parts
  <2>3. View!Change
    BY <2>1, <2>2 DEF View!Change, Parts
  <2> QED
    BY <2>3 DEF View!Next
<1>4. CASE Publish
  <2>1. /\ task # None /\ task.at = "publish" /\ UNCHANGED <<doc, snaps>>
        /\ shown' = task.print /\ task \in Task
    BY <1>4 DEF Publish, IInv, TypeOK
  <2>2. /\ task.print \in Finger /\ Over(Source, task.print)
        /\ shown # None => Over(task.print, shown)
    BY <2>1 DEF IInv, TaskInv, Task
  <2>3. Source' = Source
    BY <2>1 DEF Source, Fingerprint
  <2>4. View!Show
    BY <2>1, <2>2, <2>3, CoversParts DEF View!Show, Over, Finger
  <2> QED
    BY <2>4 DEF View!Next
<1>5. ASSUME NEW j \in Jobs, EnterBatch(j) \/ RefreshAfterSync(j) \/ LeaveBatch(j)
      PROVE  UNCHANGED View!vars
  BY <1>1, <1>5 DEF EnterBatch, RefreshAfterSync, LeaveBatch
<1>6. CASE PortfolioStateSaved \/ Tick \/ Begin \/ Load \/ Reload \/ WireReady \/ Fail \/ Crash
  BY <1>1, <1>6
     DEF PortfolioStateSaved, Tick, Begin, Load, Reload, Read, WireReady, Fail, Answer, Crash
<1>7. CASE Calculate \/ Again
  BY <1>1, <1>7 DEF Calculate, Again, Answer
<1>8. ASSUME NEW q \in Pages, Ask(q) \/ Known(q) \/ LoadRead(q) \/ LoadDone(q)
      PROVE  UNCHANGED View!vars
  BY <1>1, <1>8 DEF Ask, Known, LoadRead, LoadDone
<1>9. CASE UNCHANGED vars
  BY <1>1, <1>9 DEF vars
<1> QED
  BY <1>2, <1>3, <1>4, <1>5, <1>6, <1>7, <1>8, <1>9 DEF Next, Refresher

(* Every behaviour of the refresher, its callers, failures and crashes is    *)
(* one of a view that shows only what was, and never goes back.              *)
THEOREM ViewRefines == Spec => ViewLags
BY ViewInit, ViewStep, AlwaysIInv, PTL DEF Spec, ViewLags, View!Spec

=============================================================================
