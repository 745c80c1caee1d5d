--------------------------- MODULE DailySync_proofs ---------------------------
(***************************************************************************)
(* Proofs about DailySync: types, one claim at a time, progress that is    *)
(* kept, and snapshots of imported accounts only, for any number of        *)
(* runners, accounts, identities, days, edits and crashes.                 *)
(***************************************************************************)
EXTENDS DailySync, FiniteSetTheorems, TLAPS

(* What is known of a runner from where it stands. *)
RunnerOK(r) ==
  /\ pc[r] \in {"claim", "progressSave", "capture", "complete", "releaseSave"} => copy[r] # None
  /\ copy[r] # None => copy[r].batch # None
  /\ fresh[r] => copy[r] # None
  /\ pc[r] \in Working => date[r] \in Days /\ doc.batch # None
  /\ pc[r] \in Working => \A a \in todo[r] : eligible[r][a] # None
  /\ pc[r] \in {"sync", "progressLoad", "progressSave"}
       => at[r] \in Accounts /\ eligible[r][at[r]] # None

TypeInv == TypeOK /\ \A r \in Runners : RunnerOK(r)

(* The types, by what an action disturbs. *)
StoreTypes ==
  /\ doc \in Document
  /\ leasePast \in BOOLEAN /\ retryPast \in BOOLEAN
CopyTypes ==
  /\ copy \in [Runners -> Document \cup {None}]
  /\ fresh \in [Runners -> BOOLEAN]
EnvTypes ==
  /\ day \in Days /\ due \in BOOLEAN
  /\ snapshots \in [Days -> Coverage \cup {None}]
  /\ edits \in 0..MaxEdits /\ crashes \in 0..MaxCrashes /\ others \in 0..MaxOthers
RunTypes ==
  /\ pc \in [Runners -> Working \cup {"idle", "load", "claim"}]
  /\ tick \in [Runners -> [day : Days, due : BOOLEAN]]
  /\ date \in [Runners -> 0..MaxDay]
  /\ eligible \in [Runners -> [Accounts -> Keys \cup {None}]]
  /\ todo \in [Runners -> SUBSET Accounts]
  /\ at \in [Runners -> Accounts \cup {None}]
GhostTypes ==
  /\ claims \in SUBSET Runners
  /\ imported \in SUBSET (Days \X Accounts \X Keys)
  /\ partial \in SUBSET Accounts

LEMMA TypeParts ==
  TypeOK <=> StoreTypes /\ CopyTypes /\ EnvTypes /\ RunTypes /\ GhostTypes
  BY DEF TypeOK, StoreTypes, CopyTypes, EnvTypes, RunTypes, GhostTypes

-----------------------------------------------------------------------------
(* Documents and batches.                                                    *)

LEMMA DayOne == 1 \in Days /\ Days \subseteq 0..MaxDay /\ 0 \in 0..MaxDay
  BY BoundAssumption DEF Days

LEMMA NotNone ==
  /\ \A d \in Document : d # None
  /\ \A b \in Batch : b # None
  /\ \A k \in Keys : k # None
  BY NoneAssumption

LEMMA BatchPart == \A d \in Document : d.batch # None => d.batch \in Batch
  BY DEF Document

LEMMA NewBatchTyped ==
  \A d \in Days : NewBatch(d) \in Batch /\ NewBatch(d).date = d
  BY DEF NewBatch, Batch

LEMMA BatchForTyped ==
  ASSUME NEW b \in Batch \cup {None}, NEW t \in [day : Days, due : BOOLEAN]
  PROVE  BatchFor(b, t) \in Batch
  <1>1. t.day \in Days
    OBVIOUS
  <1>2. CASE Replaces(b, t)
    BY <1>1, <1>2, NewBatchTyped DEF BatchFor
  <1>3. CASE ~Replaces(b, t)
    BY <1>3 DEF BatchFor, Replaces
  <1>4. QED
    BY <1>2, <1>3

(* The batch a run claims, records progress in, ends or gives back. *)
ClaimedOf(d, b) == [d EXCEPT !.batch = [b EXCEPT !.completed = FALSE, !.lease = TRUE]]
ProgressOf(d, a, k) == [d EXCEPT !.batch.synced[a] = k]
EndedOf(d) == [d EXCEPT !.batch.completed = TRUE, !.batch.retry = FALSE, !.batch.lease = FALSE]
RetriedOf(d) == [d EXCEPT !.batch = RetryLater(@)]

LEMMA ClaimedTyped ==
  ASSUME NEW d \in Document, NEW b \in Batch
  PROVE  /\ ClaimedOf(d, b) \in Document
         /\ ClaimedOf(d, b).batch \in Batch
         /\ ClaimedOf(d, b).batch.lease /\ ~ClaimedOf(d, b).batch.completed
         /\ ClaimedOf(d, b).batch.date = b.date
         /\ ClaimedOf(d, b).batch.synced = b.synced
         /\ ClaimedOf(d, b).keys = d.keys
  BY DEF ClaimedOf, Document, Batch

LEMMA ProgressTyped ==
  ASSUME NEW d \in Document, d.batch \in Batch, NEW a \in Accounts, NEW k \in Keys
  PROVE  /\ ProgressOf(d, a, k) \in Document
         /\ ProgressOf(d, a, k).batch \in Batch
         /\ ProgressOf(d, a, k).batch.lease = d.batch.lease
         /\ ProgressOf(d, a, k).batch.completed = d.batch.completed
         /\ ProgressOf(d, a, k).batch.date = d.batch.date
         /\ ProgressOf(d, a, k).batch.synced = [d.batch.synced EXCEPT ![a] = k]
         /\ ProgressOf(d, a, k).keys = d.keys
  BY DEF ProgressOf, Document, Batch

LEMMA EndedTyped ==
  ASSUME NEW d \in Document, d.batch \in Batch
  PROVE  /\ EndedOf(d) \in Document
         /\ EndedOf(d).batch \in Batch
         /\ EndedOf(d).batch.date = d.batch.date
         /\ EndedOf(d).batch.synced = d.batch.synced
         /\ EndedOf(d).keys = d.keys
  BY DEF EndedOf, Document, Batch

LEMMA RetriedTyped ==
  ASSUME NEW d \in Document, d.batch \in Batch
  PROVE  /\ RetriedOf(d) \in Document
         /\ RetriedOf(d).batch \in Batch
         /\ RetriedOf(d).batch.date = d.batch.date
         /\ RetriedOf(d).batch.completed = d.batch.completed
         /\ RetriedOf(d).batch.synced = d.batch.synced
         /\ RetriedOf(d).keys = d.keys
  BY DEF RetriedOf, RetryLater, Document, Batch

-----------------------------------------------------------------------------
(* What the pieces of an action do to the types.                             *)

Places == Working \cup {"idle", "load", "claim"}

LEMMA GotoTyped ==
  ASSUME TypeOK, NEW r \in Runners, NEW l \in Places, Goto(r, l)
  PROVE  /\ pc' \in [Runners -> Places] /\ pc'[r] = l
         /\ \A s \in Runners \ {r} : pc'[s] = pc[s]
  BY DEF TypeOK, Goto, Places

LEMMA LoadTyped ==
  ASSUME TypeOK, NEW r \in Runners, NEW d \in Document, Load(r, d)
  PROVE  /\ CopyTypes' /\ copy'[r] = d /\ fresh'[r]
         /\ \A s \in Runners \ {r} : copy'[s] = copy[s] /\ fresh'[s] = fresh[s]
  BY DEF TypeOK, Load, CopyTypes

LEMMA DropTyped ==
  ASSUME TypeOK, NEW r \in Runners, Drop(r)
  PROVE  /\ CopyTypes' /\ copy'[r] = None /\ ~fresh'[r]
         /\ \A s \in Runners \ {r} : copy'[s] = copy[s] /\ fresh'[s] = fresh[s]
  BY DEF TypeOK, Drop, CopyTypes

LEMMA SaveTyped ==
  ASSUME TypeOK, NEW r \in Runners, RunnerOK(r), Save(r)
  PROVE  /\ copy[r] \in Document /\ copy[r].batch \in Batch
         /\ CopyTypes' /\ copy'[r] = None /\ doc' = copy[r]
         /\ \A s \in Runners : ~fresh'[s]
         /\ \A s \in Runners \ {r} : copy'[s] = copy[s]
  <1>1. copy[r] \in Document /\ copy[r].batch \in Batch
    BY BatchPart DEF TypeOK, RunnerOK, Save, Current
  <1>2. QED
    BY <1>1 DEF TypeOK, Save, CopyTypes

LEMMA AttemptTyped ==
  ASSUME TypeOK, NEW a \in Accounts, NEW outcome \in {"whole", "deferred", "failed"},
         Attempt(a, outcome)
  PROVE  /\ doc' \in Document /\ doc'.batch = doc.batch /\ doc'.keys = doc.keys
         /\ CopyTypes' /\ copy' = copy /\ (\A s \in Runners : ~fresh'[s])
         /\ partial' \in SUBSET Accounts
  <1>1. doc' \in Document /\ doc'.batch = doc.batch /\ doc'.keys = doc.keys
    BY DEF TypeOK, Attempt, Document
  <1>2. CopyTypes' /\ copy' = copy /\ \A s \in Runners : ~fresh'[s]
    BY DEF TypeOK, Attempt, CopyTypes
  <1>3. partial' \in SUBSET Accounts
    BY DEF TypeOK, Attempt
  <1>4. QED
    BY <1>1, <1>2, <1>3

LEMMA IdleTyped ==
  ASSUME TypeOK, NEW r \in Runners, Idle(r)
  PROVE  /\ RunTypes' /\ claims' \in SUBSET Runners /\ pc'[r] = "idle"
         /\ \A s \in Runners \ {r} :
              /\ pc'[s] = pc[s] /\ date'[s] = date[s] /\ todo'[s] = todo[s]
              /\ eligible'[s] = eligible[s] /\ at'[s] = at[s]
  <1>1. pc' \in [Runners -> Places] /\ pc'[r] = "idle" /\ \A s \in Runners \ {r} : pc'[s] = pc[s]
    BY GotoTyped DEF Idle, Places
  <1>2. [day |-> 1, due |-> FALSE] \in [day : Days, due : BOOLEAN]
    BY DayOne
  <1>3. tick' \in [Runners -> [day : Days, due : BOOLEAN]]
    BY <1>2 DEF TypeOK, Idle
  <1>4. [a \in Accounts |-> None] \in [Accounts -> Keys \cup {None}]
    OBVIOUS
  <1>5. eligible' \in [Runners -> [Accounts -> Keys \cup {None}]]
    BY <1>4 DEF TypeOK, Idle
  <1>6. /\ date' \in [Runners -> 0..MaxDay] /\ todo' \in [Runners -> SUBSET Accounts]
        /\ at' \in [Runners -> Accounts \cup {None}] /\ claims' \in SUBSET Runners
    BY DayOne DEF TypeOK, Idle
  <1>7. \A s \in Runners \ {r} : /\ date'[s] = date[s] /\ todo'[s] = todo[s]
                                 /\ eligible'[s] = eligible[s] /\ at'[s] = at[s]
    BY DEF TypeOK, Idle
  <1>8. QED
    BY <1>1, <1>3, <1>5, <1>6, <1>7 DEF RunTypes, Places

LEMMA NextTyped ==
  ASSUME TypeOK, NEW r \in Runners, NextAccount(r)
  PROVE  /\ RunTypes' /\ pc'[r] = "loop" /\ todo'[r] \subseteq todo[r]
         /\ date' = date /\ eligible' = eligible
         /\ \A s \in Runners \ {r} :
              pc'[s] = pc[s] /\ todo'[s] = todo[s] /\ at'[s] = at[s]
  <1>1. pc' \in [Runners -> Places] /\ pc'[r] = "loop" /\ \A s \in Runners \ {r} : pc'[s] = pc[s]
    BY GotoTyped DEF NextAccount, Places, Working
  <1>2. /\ todo' \in [Runners -> SUBSET Accounts] /\ todo'[r] \subseteq todo[r]
        /\ at' \in [Runners -> Accounts \cup {None}]
        /\ \A s \in Runners \ {r} : todo'[s] = todo[s] /\ at'[s] = at[s]
    BY DEF TypeOK, NextAccount
  <1>3. QED
    BY <1>1, <1>2 DEF TypeOK, NextAccount, RunTypes, Places

(* A runner that an action leaves where it stands. *)
Still(s) ==
  /\ pc'[s] = pc[s] /\ date'[s] = date[s] /\ todo'[s] = todo[s]
  /\ eligible'[s] = eligible[s] /\ at'[s] = at[s]
  /\ copy'[s] = copy[s] /\ (fresh'[s] => fresh[s])

BatchStays == doc.batch # None => doc'.batch # None

LEMMA StillOK ==
  ASSUME NEW s \in Runners, RunnerOK(s), Still(s), BatchStays
  PROVE  RunnerOK(s)'
  BY DEF RunnerOK, Still, BatchStays

LEMMA IdleOK ==
  ASSUME NEW r \in Runners, RunnerOK(r), pc'[r] = "idle",
         \/ copy'[r] = None /\ ~fresh'[r]
         \/ copy'[r] = copy[r] /\ (fresh'[r] => fresh[r])
  PROVE  RunnerOK(r)'
  BY DEF RunnerOK, Working

(* A runner at work that goes on, with or without a new copy. *)
LEMMA OnOK ==
  ASSUME NEW r \in Runners, RunnerOK(r), pc[r] \in Working, BatchStays,
         pc'[r] \in Working, date'[r] = date[r], todo'[r] \subseteq todo[r],
         eligible'[r] = eligible[r],
         \/ copy'[r] = None /\ ~fresh'[r]
         \/ copy'[r] = copy[r] /\ (fresh'[r] => fresh[r])
         \/ copy'[r] # None /\ copy'[r].batch # None,
         pc'[r] \in {"progressSave", "capture", "complete", "releaseSave"} => copy'[r] # None,
         pc'[r] \in {"sync", "progressLoad", "progressSave"}
           => at'[r] \in Accounts /\ eligible[r][at'[r]] # None
  PROVE  RunnerOK(r)'
  BY DEF RunnerOK, Working, BatchStays
-----------------------------------------------------------------------------
(* Every action keeps the types, and what is known of the runners.           *)

LEMMA TickTypes ==
  ASSUME TypeInv, NEW r \in Runners, Tick(r) PROVE TypeInv'
  <1> USE DEF TypeInv
  <1>1. pc' \in [Runners -> Places] /\ pc'[r] = "load" /\ \A s \in Runners \ {r} : pc'[s] = pc[s]
    BY GotoTyped DEF Tick, Places
  <1>2. [day |-> day, due |-> due] \in [day : Days, due : BOOLEAN]
    BY DEF TypeOK
  <1>3. tick' \in [Runners -> [day : Days, due : BOOLEAN]]
    BY <1>2 DEF Tick, TypeOK
  <1>4. TypeOK'
    BY <1>1, <1>3 DEF TypeOK, Tick, timeVars, envVars, copyVars, ghostVars, Places
  <1>5. ASSUME NEW s \in Runners PROVE RunnerOK(s)'
    BY <1>1, StillOK DEF Tick, copyVars, Still, BatchStays, RunnerOK, Working
  <1>6. QED
    BY <1>4, <1>5

(* The document a claim will save. *)
LEMMA ToClaim ==
  ASSUME TypeOK, NEW r \in Runners, LoadBatch(r), pc'[r] # "idle"
  PROVE  LET d == ClaimedOf(doc, BatchFor(doc.batch, tick[r])) IN
         /\ d \in Document /\ d.batch \in Batch /\ Load(r, d) /\ Goto(r, "claim")
         /\ ~Waiting(doc.batch)
         /\ UNCHANGED <<tick, date, eligible, todo, at, claims>>
  <1>1. BatchFor(doc.batch, tick[r]) \in Batch
    BY BatchForTyped DEF TypeOK, Document
  <1>2. ClaimedOf(doc, BatchFor(doc.batch, tick[r])) \in Document
        /\ ClaimedOf(doc, BatchFor(doc.batch, tick[r])).batch \in Batch
    BY <1>1, ClaimedTyped DEF TypeOK
  <1>3. ~Idle(r)
    BY IdleTyped
  <1>4. QED
    BY <1>2, <1>3 DEF LoadBatch, ClaimedOf

LEMMA LoadBatchTypes ==
  ASSUME TypeInv, NEW r \in Runners, LoadBatch(r) PROVE TypeInv'
  <1> USE DEF TypeInv
  <1>1. CASE pc'[r] = "idle"
    <2>1. Idle(r) /\ UNCHANGED copyVars
      BY <1>1, GotoTyped DEF LoadBatch, Places
    <2>2. TypeOK'
      BY <2>1, IdleTyped, TypeParts
         DEF LoadBatch, TypeOK, StoreTypes, CopyTypes, EnvTypes, RunTypes, GhostTypes,
             timeVars, envVars, copyVars
    <2>3. ASSUME NEW s \in Runners PROVE RunnerOK(s)'
      BY <2>1, IdleTyped, IdleOK, StillOK DEF LoadBatch, copyVars, Still, BatchStays
    <2>4. QED
      BY <2>2, <2>3
  <1>2. CASE pc'[r] # "idle"
    <2> DEFINE d == ClaimedOf(doc, BatchFor(doc.batch, tick[r]))
    <2>1. /\ d \in Document /\ d.batch \in Batch /\ Load(r, d) /\ Goto(r, "claim")
          /\ UNCHANGED <<tick, date, eligible, todo, at, claims>>
      BY <1>2, ToClaim
    <2>2. /\ CopyTypes' /\ copy'[r] = d /\ fresh'[r]
          /\ \A s \in Runners \ {r} : copy'[s] = copy[s] /\ fresh'[s] = fresh[s]
      BY <2>1, LoadTyped
    <2>3. pc' \in [Runners -> Places] /\ pc'[r] = "claim" /\ \A s \in Runners \ {r} : pc'[s] = pc[s]
      BY <2>1, GotoTyped DEF Places
    <2>4. TypeOK'
      BY <2>1, <2>2, <2>3, TypeParts
         DEF LoadBatch, TypeOK, StoreTypes, CopyTypes, EnvTypes, RunTypes, GhostTypes,
             timeVars, envVars, Places
    <2>5. RunnerOK(r)'
      BY <2>1, <2>2, <2>3, NotNone DEF RunnerOK, Working
    <2>6. ASSUME NEW s \in Runners \ {r} PROVE RunnerOK(s)'
      BY <2>1, <2>2, <2>3, StillOK DEF LoadBatch, Still, BatchStays
    <2>7. QED
      BY <2>4, <2>5, <2>6
  <1>3. QED
    BY <1>1, <1>2

LEMMA ClaimTypes ==
  ASSUME TypeInv, NEW r \in Runners, Claim(r) PROVE TypeInv'
  <1> USE DEF TypeInv
  <1>1. /\ copy[r] \in Document /\ copy[r].batch \in Batch
        /\ CopyTypes' /\ copy'[r] = None /\ doc' = copy[r]
        /\ \A s \in Runners : ~fresh'[s]
        /\ \A s \in Runners \ {r} : copy'[s] = copy[s]
    BY SaveTyped DEF Claim
  <1>2. pc' \in [Runners -> Places] /\ pc'[r] = "loop" /\ \A s \in Runners \ {r} : pc'[s] = pc[s]
    BY GotoTyped DEF Claim, Places, Working
  <1>3. copy[r].batch.date \in Days /\ copy[r].keys \in [Accounts -> Keys \cup {None}]
    BY <1>1 DEF Document, Batch
  <1>4. /\ date' \in [Runners -> 0..MaxDay] /\ date'[r] \in Days
        /\ eligible' \in [Runners -> [Accounts -> Keys \cup {None}]]
        /\ eligible'[r] = copy[r].keys
        /\ todo' \in [Runners -> SUBSET Accounts] /\ todo'[r] \subseteq Eligible(copy[r])
        /\ \A s \in Runners \ {r} :
             date'[s] = date[s] /\ eligible'[s] = eligible[s] /\ todo'[s] = todo[s]
    BY <1>3, DayOne DEF Claim, TypeOK, Eligible
  <1>5. TypeOK'
    <2>1. StoreTypes'
      BY <1>1 DEF Claim, StoreTypes, TypeOK, Batch
    <2>2. EnvTypes'
      BY DEF Claim, EnvTypes, TypeOK, envVars
    <2>3. RunTypes'
      BY <1>2, <1>4 DEF Claim, RunTypes, TypeOK, Places
    <2>4. GhostTypes'
      BY DEF Claim, GhostTypes, TypeOK
    <2>5. QED
      BY <1>1, <2>1, <2>2, <2>3, <2>4, TypeParts
         DEF TypeOK, StoreTypes, CopyTypes, EnvTypes, RunTypes, GhostTypes
  <1>6. RunnerOK(r)'
    BY <1>1, <1>2, <1>4, NotNone DEF RunnerOK, Working, Eligible
  <1>7. ASSUME NEW s \in Runners \ {r} PROVE RunnerOK(s)'
    BY <1>1, <1>2, <1>4, NotNone, StillOK DEF Claim, Still, BatchStays
  <1>8. QED
    BY <1>5, <1>6, <1>7

(* A run that drops its copy and ends. *)
LEMMA GivesUpTypes ==
  ASSUME TypeInv, NEW r \in Runners, Idle(r), Drop(r),
         UNCHANGED <<doc, timeVars, snapshots, day, due, edits, others, imported, partial>>,
         crashes' \in 0..MaxCrashes
  PROVE  TypeInv'
  <1> USE DEF TypeInv
  <1>1. TypeOK'
    BY IdleTyped, DropTyped, TypeParts
       DEF TypeOK, StoreTypes, CopyTypes, EnvTypes, RunTypes, GhostTypes, timeVars
  <1>2. ASSUME NEW s \in Runners PROVE RunnerOK(s)'
    BY IdleTyped, DropTyped, IdleOK, StillOK DEF Still, BatchStays
  <1>3. QED
    BY <1>1, <1>2

LEMMA ClaimFailsTypes ==
  ASSUME TypeInv, NEW r \in Runners, ClaimFails(r) PROVE TypeInv'
  BY GivesUpTypes DEF ClaimFails, envVars, TypeInv, TypeOK

LEMMA ReleaseFailsTypes ==
  ASSUME TypeInv, NEW r \in Runners, ReleaseFails(r) PROVE TypeInv'
  BY GivesUpTypes DEF ReleaseFails, envVars, TypeInv, TypeOK

LEMMA CrashTypes ==
  ASSUME TypeInv, NEW r \in Runners, Crash(r) PROVE TypeInv'
  <1>1. crashes' \in 0..MaxCrashes
    BY BoundAssumption DEF Crash, TypeInv, TypeOK
  <1>2. QED
    BY <1>1, GivesUpTypes DEF Crash

LEMMA SkipTypes ==
  ASSUME TypeInv, NEW r \in Runners, NEW a \in Accounts, SkipAccount(r, a)
  PROVE  TypeInv'
  <1> USE DEF TypeInv
  <1>1. /\ todo' \in [Runners -> SUBSET Accounts] /\ todo'[r] \subseteq todo[r]
        /\ \A s \in Runners \ {r} : todo'[s] = todo[s]
    BY DEF SkipAccount, TypeOK
  <1>2. TypeOK'
    BY <1>1 DEF SkipAccount, TypeOK, timeVars, envVars, copyVars, ghostVars
  <1>3. ASSUME NEW s \in Runners PROVE RunnerOK(s)'
    BY <1>1 DEF SkipAccount, RunnerOK, copyVars
  <1>4. QED
    BY <1>2, <1>3

LEMMA VisitTypes ==
  ASSUME TypeInv, NEW r \in Runners, NEW a \in Accounts, VisitAccount(r, a)
  PROVE  TypeInv'
  <1> USE DEF TypeInv
  <1>1. pc' \in [Runners -> Places] /\ pc'[r] = "sync" /\ \A s \in Runners \ {r} : pc'[s] = pc[s]
    BY GotoTyped DEF VisitAccount, Places, Working
  <1>2. /\ at' \in [Runners -> Accounts \cup {None}] /\ at'[r] = a
        /\ \A s \in Runners \ {r} : at'[s] = at[s]
    BY DEF VisitAccount, TypeOK
  <1>3. TypeOK'
    BY <1>1, <1>2 DEF VisitAccount, TypeOK, timeVars, envVars, copyVars, ghostVars, Places
  <1>4. ASSUME NEW s \in Runners PROVE RunnerOK(s)'
    BY <1>1, <1>2 DEF VisitAccount, RunnerOK, copyVars, Working
  <1>5. QED
    BY <1>3, <1>4

LEMMA ImportTypes ==
  ASSUME TypeInv, NEW r \in Runners, NEW outcome \in {"whole", "deferred"},
         Import(r, outcome)
  PROVE  TypeInv'
  <1> USE DEF TypeInv
  <1>1. /\ at[r] \in Accounts /\ date[r] \in Days /\ eligible[r][at[r]] \in Keys
    BY DEF Import, RunnerOK, Working, TypeOK
  <1>2. /\ doc' \in Document /\ doc'.batch = doc.batch
        /\ CopyTypes' /\ copy' = copy /\ (\A s \in Runners : ~fresh'[s])
        /\ partial' \in SUBSET Accounts
    BY <1>1, AttemptTyped DEF Import
  <1>3. pc' \in [Runners -> Places] /\ pc'[r] = "progressLoad"
        /\ \A s \in Runners \ {r} : pc'[s] = pc[s]
    BY GotoTyped DEF Import, Places, Working
  <1>4. imported' \in SUBSET (Days \X Accounts \X Keys)
    BY <1>1 DEF Import, TypeOK
  <1>5. TypeOK'
    BY <1>2, <1>3, <1>4, TypeParts
       DEF Import, TypeOK, StoreTypes, CopyTypes, EnvTypes, RunTypes, GhostTypes, timeVars,
           envVars, Places
  <1>6. RunnerOK(r)'
    BY <1>1, <1>2, <1>3, OnOK DEF Import, Working, BatchStays, RunnerOK
  <1>7. ASSUME NEW s \in Runners \ {r} PROVE RunnerOK(s)'
    BY <1>2, <1>3, StillOK DEF Import, Still, BatchStays
  <1>8. QED
    BY <1>5, <1>6, <1>7

LEMMA ImportFailsTypes ==
  ASSUME TypeInv, NEW r \in Runners, ImportFails(r) PROVE TypeInv'
  <1> USE DEF TypeInv
  <1>1. at[r] \in Accounts /\ pc[r] \in Working
    BY DEF ImportFails, RunnerOK, Working
  <1>2. /\ doc' \in Document /\ doc'.batch = doc.batch
        /\ CopyTypes' /\ copy' = copy /\ (\A s \in Runners : fresh'[s] => fresh[s])
        /\ partial' \in SUBSET Accounts
    <2>1. CASE Attempt(at[r], "failed")
      BY <1>1, <2>1, AttemptTyped
    <2>2. CASE UNCHANGED <<doc, copyVars, partial>>
      BY <2>2 DEF TypeOK, CopyTypes, copyVars
    <2>3. QED
      BY <2>1, <2>2 DEF ImportFails
  <1>3. /\ RunTypes' /\ pc'[r] = "loop" /\ todo'[r] \subseteq todo[r]
        /\ date' = date /\ eligible' = eligible
        /\ \A s \in Runners \ {r} :
             pc'[s] = pc[s] /\ todo'[s] = todo[s] /\ at'[s] = at[s]
    BY NextTyped DEF ImportFails
  <1>4. TypeOK'
    BY <1>2, <1>3, TypeParts
       DEF ImportFails, TypeOK, StoreTypes, CopyTypes, EnvTypes, RunTypes, GhostTypes,
           timeVars, envVars
  <1>5. RunnerOK(r)'
    BY <1>1, <1>2, <1>3, OnOK DEF BatchStays, Working
  <1>6. ASSUME NEW s \in Runners \ {r} PROVE RunnerOK(s)'
    BY <1>2, <1>3, StillOK DEF Still, BatchStays
  <1>7. QED
    BY <1>4, <1>5, <1>6

(* The document whose progress will be saved. *)
LEMMA ToProgress ==
  ASSUME TypeInv, NEW r \in Runners, LoadProgress(r), pc'[r] # "loop"
  PROVE  LET d == ProgressOf(doc, at[r], eligible[r][at[r]]) IN
         /\ d \in Document /\ d.batch \in Batch /\ Load(r, d) /\ Goto(r, "progressSave")
         /\ at[r] \in Accounts /\ eligible[r][at[r]] \in Keys
         /\ doc.batch \in Batch /\ doc.batch.date = date[r]
         /\ UNCHANGED <<tick, date, eligible, todo, at>>
  <1>1. /\ at[r] \in Accounts /\ eligible[r][at[r]] \in Keys
        /\ doc \in Document /\ doc.batch \in Batch
    BY BatchPart DEF LoadProgress, TypeInv, TypeOK, RunnerOK, Working
  <1>2. ProgressOf(doc, at[r], eligible[r][at[r]]) \in Document
        /\ ProgressOf(doc, at[r], eligible[r][at[r]]).batch \in Batch
    BY <1>1, ProgressTyped
  <1>3. ~NextAccount(r)
    BY NextTyped DEF TypeInv
  <1>4. QED
    BY <1>1, <1>2, <1>3 DEF LoadProgress, ProgressOf

LEMMA LoadProgressTypes ==
  ASSUME TypeInv, NEW r \in Runners, LoadProgress(r) PROVE TypeInv'
  <1> USE DEF TypeInv
  <1>0. pc[r] \in Working
    BY DEF LoadProgress, Working
  <1>1. CASE pc'[r] = "loop"
    <2>1. NextAccount(r) /\ UNCHANGED copyVars
      BY <1>1, GotoTyped DEF LoadProgress, Places, Working
    <2>2. /\ RunTypes' /\ pc'[r] = "loop" /\ todo'[r] \subseteq todo[r]
          /\ date' = date /\ eligible' = eligible
          /\ \A s \in Runners \ {r} :
               pc'[s] = pc[s] /\ todo'[s] = todo[s] /\ at'[s] = at[s]
      BY <2>1, NextTyped
    <2>3. TypeOK'
      BY <2>1, <2>2, TypeParts
         DEF LoadProgress, TypeOK, StoreTypes, CopyTypes, EnvTypes, RunTypes, GhostTypes,
             timeVars, envVars, copyVars, ghostVars
    <2>4. RunnerOK(r)'
      BY <1>0, <2>1, <2>2, OnOK DEF LoadProgress, BatchStays, Working, copyVars
    <2>5. ASSUME NEW s \in Runners \ {r} PROVE RunnerOK(s)'
      BY <2>1, <2>2, StillOK DEF LoadProgress, Still, BatchStays, copyVars
    <2>6. QED
      BY <2>3, <2>4, <2>5
  <1>2. CASE pc'[r] # "loop"
    <2> DEFINE d == ProgressOf(doc, at[r], eligible[r][at[r]])
    <2>1. /\ d \in Document /\ d.batch \in Batch /\ Load(r, d) /\ Goto(r, "progressSave")
          /\ at[r] \in Accounts /\ eligible[r][at[r]] \in Keys
          /\ UNCHANGED <<tick, date, eligible, todo, at>>
      BY <1>2, ToProgress
    <2>2. /\ CopyTypes' /\ copy'[r] = d /\ fresh'[r]
          /\ \A s \in Runners \ {r} : copy'[s] = copy[s] /\ fresh'[s] = fresh[s]
      BY <2>1, LoadTyped
    <2>3. pc' \in [Runners -> Places] /\ pc'[r] = "progressSave"
          /\ \A s \in Runners \ {r} : pc'[s] = pc[s]
      BY <2>1, GotoTyped DEF Places, Working
    <2>4. TypeOK'
      BY <2>1, <2>2, <2>3, TypeParts
         DEF LoadProgress, TypeOK, StoreTypes, CopyTypes, EnvTypes, RunTypes, GhostTypes,
             timeVars, envVars, ghostVars, Places
    <2>5. copy'[r] # None /\ copy'[r].batch # None /\ at'[r] \in Accounts /\ eligible[r][at'[r]] # None
      BY <2>1, <2>2, NotNone
    <2>6. RunnerOK(r)'
      BY <1>0, <2>1, <2>3, <2>5, OnOK DEF LoadProgress, BatchStays, Working
    <2>7. ASSUME NEW s \in Runners \ {r} PROVE RunnerOK(s)'
      BY <2>1, <2>2, <2>3, StillOK DEF LoadProgress, Still, BatchStays
    <2>8. QED
      BY <2>4, <2>6, <2>7
  <1>3. QED
    BY <1>1, <1>2

LEMMA SaveProgressTypes ==
  ASSUME TypeInv, NEW r \in Runners, SaveProgress(r) PROVE TypeInv'
  <1> USE DEF TypeInv
  <1>1. /\ copy[r] \in Document /\ copy[r].batch \in Batch
        /\ CopyTypes' /\ copy'[r] = None /\ doc' = copy[r]
        /\ \A s \in Runners : ~fresh'[s]
        /\ \A s \in Runners \ {r} : copy'[s] = copy[s]
    BY SaveTyped DEF SaveProgress
  <1>2. /\ RunTypes' /\ pc'[r] = "loop" /\ todo'[r] \subseteq todo[r]
        /\ date' = date /\ eligible' = eligible
        /\ \A s \in Runners \ {r} :
             pc'[s] = pc[s] /\ todo'[s] = todo[s] /\ at'[s] = at[s]
    BY NextTyped DEF SaveProgress
  <1>3. TypeOK'
    BY <1>1, <1>2, TypeParts
       DEF SaveProgress, TypeOK, StoreTypes, CopyTypes, EnvTypes, RunTypes, GhostTypes,
           timeVars, envVars, ghostVars
  <1>4. RunnerOK(r)'
    BY <1>1, <1>2, OnOK, NotNone DEF SaveProgress, BatchStays, Working
  <1>5. ASSUME NEW s \in Runners \ {r} PROVE RunnerOK(s)'
    BY <1>1, <1>2, StillOK, NotNone DEF Still, BatchStays
  <1>6. QED
    BY <1>3, <1>4, <1>5

LEMMA ProgressFailsTypes ==
  ASSUME TypeInv, NEW r \in Runners, ProgressFails(r) PROVE TypeInv'
  <1> USE DEF TypeInv
  <1>1. /\ CopyTypes' /\ copy'[r] = None /\ ~fresh'[r]
        /\ \A s \in Runners \ {r} : copy'[s] = copy[s] /\ fresh'[s] = fresh[s]
    BY DropTyped DEF ProgressFails
  <1>2. /\ RunTypes' /\ pc'[r] = "loop" /\ todo'[r] \subseteq todo[r]
        /\ date' = date /\ eligible' = eligible
        /\ \A s \in Runners \ {r} :
             pc'[s] = pc[s] /\ todo'[s] = todo[s] /\ at'[s] = at[s]
    BY NextTyped DEF ProgressFails
  <1>3. TypeOK'
    BY <1>1, <1>2, TypeParts
       DEF ProgressFails, TypeOK, StoreTypes, CopyTypes, EnvTypes, RunTypes, GhostTypes,
           timeVars, envVars, ghostVars
  <1>4. RunnerOK(r)'
    BY <1>1, <1>2, OnOK DEF ProgressFails, BatchStays, Working
  <1>5. ASSUME NEW s \in Runners \ {r} PROVE RunnerOK(s)'
    BY <1>1, <1>2, StillOK DEF ProgressFails, Still, BatchStays
  <1>6. QED
    BY <1>3, <1>4, <1>5

(* A run at work loads the batch it will end or give back. *)
LEMMA LoadsEndTypes ==
  ASSUME TypeInv, NEW r \in Runners, pc[r] \in Working,
         NEW d \in Document, d.batch \in Batch, Load(r, d),
         NEW l \in {"capture", "complete", "releaseSave"}, Goto(r, l),
         UNCHANGED <<doc, timeVars, snapshots, envVars, tick, date, eligible, todo, at, ghostVars>>
  PROVE  TypeInv'
  <1> USE DEF TypeInv
  <1>1. /\ CopyTypes' /\ copy'[r] = d /\ fresh'[r]
        /\ \A s \in Runners \ {r} : copy'[s] = copy[s] /\ fresh'[s] = fresh[s]
    BY LoadTyped
  <1>2. pc' \in [Runners -> Places] /\ pc'[r] = l /\ \A s \in Runners \ {r} : pc'[s] = pc[s]
    BY GotoTyped DEF Places, Working
  <1>3. TypeOK'
    BY <1>1, <1>2, TypeParts
       DEF TypeOK, StoreTypes, CopyTypes, EnvTypes, RunTypes, GhostTypes, timeVars, envVars,
           ghostVars, Places
  <1>4. RunnerOK(r)'
    BY <1>1, <1>2, OnOK, NotNone DEF BatchStays, Working
  <1>5. ASSUME NEW s \in Runners \ {r} PROVE RunnerOK(s)'
    BY <1>1, <1>2, StillOK DEF Still, BatchStays
  <1>6. QED
    BY <1>3, <1>4, <1>5

LEMMA AtWork ==
  ASSUME TypeInv, NEW r \in Runners, pc[r] \in Working
  PROVE  doc \in Document /\ doc.batch \in Batch /\ date[r] \in Days
  BY BatchPart DEF TypeInv, TypeOK, RunnerOK

LEMMA StartCaptureTypes ==
  ASSUME TypeInv, NEW r \in Runners, StartCapture(r) PROVE TypeInv'
  BY AtWork, LoadsEndTypes DEF StartCapture, Working

(* The loaded document is marked when its file is written. *)
LEMMA Marked ==
  ASSUME TypeInv, NEW r \in Runners, Capture(r)
  PROVE  /\ copy[r] \in Document /\ copy[r].batch \in Batch
         /\ CopyTypes' /\ copy'[r] = EndedOf(copy[r]) /\ fresh' = fresh
         /\ EndedOf(copy[r]) \in Document /\ EndedOf(copy[r]).batch \in Batch
         /\ \A s \in Runners \ {r} : copy'[s] = copy[s]
  <1>1. copy[r] \in Document /\ copy[r].batch \in Batch
    BY BatchPart DEF Capture, TypeInv, TypeOK, RunnerOK
  <1>2. EndedOf(copy[r]) \in Document /\ EndedOf(copy[r]).batch \in Batch
    BY <1>1, EndedTyped
  <1>3. copy' = [copy EXCEPT ![r] = EndedOf(copy[r])] /\ fresh' = fresh
    BY DEF Capture, EndedOf
  <1>4. QED
    BY <1>1, <1>2, <1>3 DEF TypeInv, TypeOK, CopyTypes

LEMMA CaptureTypes ==
  ASSUME TypeInv, NEW r \in Runners, Capture(r) PROVE TypeInv'
  <1> USE DEF TypeInv
  <1>1. pc[r] \in Working /\ date[r] \in Days
    BY DEF Capture, Working, RunnerOK
  <1>2. /\ copy[r] \in Document /\ copy[r].batch \in Batch
        /\ CopyTypes' /\ copy'[r] = EndedOf(copy[r]) /\ fresh' = fresh
        /\ EndedOf(copy[r]) \in Document /\ EndedOf(copy[r]).batch \in Batch
        /\ \A s \in Runners \ {r} : copy'[s] = copy[s]
    BY Marked
  <1>3. snapshots' \in [Days -> Coverage \cup {None}]
    BY <1>1, <1>2 DEF Capture, TypeOK, Document, Coverage
  <1>4. pc' \in [Runners -> Places] /\ pc'[r] = "complete"
        /\ \A s \in Runners \ {r} : pc'[s] = pc[s]
    BY GotoTyped DEF Capture, Places, Working
  <1>5. TypeOK'
    BY <1>2, <1>3, <1>4, TypeParts
       DEF Capture, TypeOK, StoreTypes, CopyTypes, EnvTypes, RunTypes, GhostTypes, timeVars,
           envVars, ghostVars, Places
  <1>6. RunnerOK(r)'
    BY <1>1, <1>2, <1>4, OnOK, NotNone DEF Capture, BatchStays, Working
  <1>7. ASSUME NEW s \in Runners \ {r} PROVE RunnerOK(s)'
    BY <1>2, <1>4, StillOK DEF Capture, Still, BatchStays
  <1>8. QED
    BY <1>5, <1>6, <1>7

LEMMA WithholdTypes ==
  ASSUME TypeInv, NEW r \in Runners, Withhold(r) PROVE TypeInv'
  <1>1. pc[r] \in Working
    BY DEF Withhold, Working
  <1>2. RetriedOf(doc) \in Document /\ RetriedOf(doc).batch \in Batch /\ Load(r, RetriedOf(doc))
    BY <1>1, AtWork, RetriedTyped DEF Withhold, RetriedOf
  <1>3. QED
    BY <1>1, <1>2, LoadsEndTypes DEF Withhold

LEMMA ReleaseLoadTypes ==
  ASSUME TypeInv, NEW r \in Runners, ReleaseLoad(r) PROVE TypeInv'
  <1>1. pc[r] \in Working
    BY DEF ReleaseLoad, Working
  <1>2. RetriedOf(doc) \in Document /\ RetriedOf(doc).batch \in Batch /\ Load(r, RetriedOf(doc))
    BY <1>1, AtWork, RetriedTyped DEF ReleaseLoad, RetriedOf
  <1>3. QED
    BY <1>1, <1>2, LoadsEndTypes DEF ReleaseLoad

(* A run that goes on to give its claim back. *)
LEMMA GoesBackTypes ==
  ASSUME TypeInv, NEW r \in Runners, pc[r] \in Working, Goto(r, "releaseLoad"),
         Drop(r),
         UNCHANGED <<doc, timeVars, snapshots, envVars, tick, date, eligible, todo, at, ghostVars>>
  PROVE  TypeInv'
  <1> USE DEF TypeInv
  <1>1. /\ CopyTypes' /\ copy'[r] = None /\ ~fresh'[r]
        /\ \A s \in Runners \ {r} : copy'[s] = copy[s] /\ fresh'[s] = fresh[s]
    BY DropTyped
  <1>2. pc' \in [Runners -> Places] /\ pc'[r] = "releaseLoad"
        /\ \A s \in Runners \ {r} : pc'[s] = pc[s]
    BY GotoTyped DEF Places, Working
  <1>3. TypeOK'
    BY <1>1, <1>2, TypeParts
       DEF TypeOK, StoreTypes, CopyTypes, EnvTypes, RunTypes, GhostTypes, timeVars, envVars,
           ghostVars, Places
  <1>4. RunnerOK(r)'
    BY <1>1, <1>2, OnOK DEF BatchStays, Working
  <1>5. ASSUME NEW s \in Runners \ {r} PROVE RunnerOK(s)'
    BY <1>1, <1>2, StillOK DEF Still, BatchStays
  <1>6. QED
    BY <1>3, <1>4, <1>5

LEMMA CaptureFailsTypes ==
  ASSUME TypeInv, NEW r \in Runners, CaptureFails(r) PROVE TypeInv'
  BY GoesBackTypes DEF CaptureFails, Working

LEMMA CompleteFailsTypes ==
  ASSUME TypeInv, NEW r \in Runners, CompleteFails(r) PROVE TypeInv'
  BY GoesBackTypes DEF CompleteFails, Working

LEMMA SaveEndTypes ==
  ASSUME TypeInv, NEW r \in Runners, SaveEnd(r) PROVE TypeInv'
  <1> USE DEF TypeInv
  <1>1. /\ copy[r] \in Document /\ copy[r].batch \in Batch
        /\ CopyTypes' /\ copy'[r] = None /\ doc' = copy[r]
        /\ \A s \in Runners : ~fresh'[s]
        /\ \A s \in Runners \ {r} : copy'[s] = copy[s]
    BY SaveTyped DEF SaveEnd
  <1>2. /\ RunTypes' /\ claims' \in SUBSET Runners /\ pc'[r] = "idle"
        /\ \A s \in Runners \ {r} :
             /\ pc'[s] = pc[s] /\ date'[s] = date[s] /\ todo'[s] = todo[s]
             /\ eligible'[s] = eligible[s] /\ at'[s] = at[s]
    BY IdleTyped DEF SaveEnd
  <1>3. TypeOK'
    BY <1>1, <1>2, TypeParts
       DEF SaveEnd, TypeOK, StoreTypes, CopyTypes, EnvTypes, RunTypes, GhostTypes, envVars
  <1>4. RunnerOK(r)'
    BY <1>1, <1>2, IdleOK
  <1>5. ASSUME NEW s \in Runners \ {r} PROVE RunnerOK(s)'
    BY <1>1, <1>2, StillOK, NotNone DEF Still, BatchStays
  <1>6. QED
    BY <1>3, <1>4, <1>5

(* The environment moves no runner. *)
LEMMA AroundTypes ==
  ASSUME TypeInv, StoreTypes', CopyTypes', EnvTypes', GhostTypes', UNCHANGED runVars,
         copy' = copy, \A s \in Runners : fresh'[s] => fresh[s],
         doc'.batch = doc.batch
  PROVE  TypeInv'
  <1>1. TypeOK'
    BY TypeParts DEF TypeInv, TypeOK, StoreTypes, CopyTypes, EnvTypes, RunTypes, GhostTypes, runVars
  <1>2. ASSUME NEW s \in Runners PROVE RunnerOK(s)'
    BY StillOK DEF TypeInv, Still, BatchStays, runVars
  <1>3. QED
    BY <1>1, <1>2 DEF TypeInv

LEMMA ExpireLeaseTypes ==
  ASSUME TypeInv, ExpireLease PROVE TypeInv'
  <1>1. StoreTypes' /\ CopyTypes' /\ EnvTypes' /\ GhostTypes'
    BY DEF ExpireLease, TypeInv, TypeOK, StoreTypes, CopyTypes, EnvTypes, GhostTypes, envVars, copyVars
  <1>2. QED
    BY <1>1, AroundTypes DEF ExpireLease, copyVars

LEMMA RetryPassesTypes ==
  ASSUME TypeInv, RetryPasses PROVE TypeInv'
  <1>1. StoreTypes' /\ CopyTypes' /\ EnvTypes' /\ GhostTypes'
    BY DEF RetryPasses, TypeInv, TypeOK, StoreTypes, CopyTypes, EnvTypes, GhostTypes, envVars,
           copyVars, ghostVars
  <1>2. QED
    BY <1>1, AroundTypes DEF RetryPasses, copyVars

LEMMA ClockTypes ==
  ASSUME TypeInv, Clock PROVE TypeInv'
  <1>1. day' \in Days /\ due' \in BOOLEAN
    <2>1. CASE ~due /\ due' = TRUE /\ UNCHANGED day
      BY <2>1 DEF TypeInv, TypeOK
    <2>2. CASE due /\ day < MaxDay /\ day' = day + 1 /\ due' = FALSE
      <3>1. day \in 1..MaxDay /\ MaxDay \in Nat
        BY BoundAssumption DEF TypeInv, TypeOK, Days
      <3>2. day' \in 1..MaxDay
        BY <2>2, <3>1
      <3>3. QED
        BY <2>2, <3>2 DEF Days
    <2>3. QED
      BY <2>1, <2>2 DEF Clock
  <1>2. StoreTypes' /\ CopyTypes' /\ EnvTypes' /\ GhostTypes'
    BY <1>1 DEF Clock, TypeInv, TypeOK, StoreTypes, CopyTypes, EnvTypes, GhostTypes, timeVars,
           copyVars, ghostVars
  <1>3. QED
    BY <1>2, AroundTypes DEF Clock, copyVars

LEMMA EditAccountTypes ==
  ASSUME TypeInv, NEW a \in Accounts, NEW k \in Keys \cup {None}, EditAccount(a, k)
  PROVE  TypeInv'
  <1>1. doc' \in Document /\ doc'.batch = doc.batch
    BY DEF EditAccount, TypeInv, TypeOK, Document
  <1>2. edits' \in 0..MaxEdits
    BY BoundAssumption DEF EditAccount, TypeInv, TypeOK
  <1>3. StoreTypes' /\ CopyTypes' /\ EnvTypes' /\ GhostTypes'
    BY <1>1, <1>2 DEF EditAccount, TypeInv, TypeOK, StoreTypes, CopyTypes, EnvTypes, GhostTypes,
           timeVars, ghostVars
  <1>4. \A s \in Runners : ~fresh'[s]
    BY DEF EditAccount
  <1>5. QED
    BY <1>1, <1>3, <1>4, AroundTypes DEF EditAccount

LEMMA OtherSyncTypes ==
  ASSUME TypeInv, NEW a \in Accounts, NEW outcome \in {"whole", "deferred", "failed"},
         OtherSync(a, outcome)
  PROVE  TypeInv'
  <1>1. /\ doc' \in Document /\ doc'.batch = doc.batch
        /\ CopyTypes' /\ copy' = copy /\ (\A s \in Runners : ~fresh'[s])
        /\ partial' \in SUBSET Accounts
    BY AttemptTyped DEF OtherSync, TypeInv
  <1>2. others' \in 0..MaxOthers
    <2>1. CASE outcome = "whole"
      BY <2>1 DEF OtherSync, TypeInv, TypeOK
    <2>2. CASE outcome # "whole"
      BY <2>2, BoundAssumption DEF OtherSync, TypeInv, TypeOK
    <2>3. QED
      BY <2>1, <2>2
  <1>3. StoreTypes' /\ EnvTypes' /\ GhostTypes'
    BY <1>1, <1>2 DEF OtherSync, TypeInv, TypeOK, StoreTypes, EnvTypes, GhostTypes, timeVars
  <1>4. QED
    BY <1>1, <1>3, AroundTypes DEF OtherSync

LEMMA InitTypes == Init => TypeInv
  <1> SUFFICES ASSUME Init PROVE TypeInv
    OBVIOUS
  <1>1. doc \in Document /\ doc.batch = None
    BY DEF Init, Document
  <1>2. [day |-> 1, due |-> FALSE] \in [day : Days, due : BOOLEAN]
    BY DayOne
  <1>3. [a \in Accounts |-> None] \in [Accounts -> Keys \cup {None}]
    OBVIOUS
  <1>4. /\ tick \in [Runners -> [day : Days, due : BOOLEAN]]
        /\ eligible \in [Runners -> [Accounts -> Keys \cup {None}]]
    BY <1>2, <1>3 DEF Init
  <1>5. /\ snapshots \in [Days -> Coverage \cup {None}] /\ date \in [Runners -> 0..MaxDay]
        /\ edits \in 0..MaxEdits /\ crashes \in 0..MaxCrashes /\ others \in 0..MaxOthers
    BY DayOne, BoundAssumption DEF Init
  <1>6. TypeOK
    BY <1>1, <1>4, <1>5, DayOne DEF Init, TypeOK
  <1>7. \A r \in Runners : RunnerOK(r)
    BY DEF Init, RunnerOK, Working
  <1>8. QED
    BY <1>6, <1>7 DEF TypeInv

LEMMA StepTypes == TypeInv /\ [Next]_vars => TypeInv'
  <1> SUFFICES ASSUME TypeInv, [Next]_vars PROVE TypeInv'
    OBVIOUS
  <1>1. ASSUME NEW r \in Runners, Run(r) PROVE TypeInv'
    BY <1>1, TickTypes, LoadBatchTypes, ClaimTypes, ClaimFailsTypes, SkipTypes, VisitTypes,
       ImportTypes, ImportFailsTypes, LoadProgressTypes, SaveProgressTypes, ProgressFailsTypes,
       StartCaptureTypes, CaptureTypes, CaptureFailsTypes, WithholdTypes, SaveEndTypes, CompleteFailsTypes,
       ReleaseLoadTypes, ReleaseFailsTypes DEF Run, Complete, Release
  <1>2. CASE Environment
    BY <1>2, ExpireLeaseTypes, RetryPassesTypes, ClockTypes, EditAccountTypes, OtherSyncTypes,
       CrashTypes DEF Environment
  <1>3. CASE UNCHANGED vars
    BY <1>3 DEF vars, timeVars, envVars, runVars, copyVars, ghostVars, TypeInv, TypeOK, RunnerOK
  <1>4. QED
    BY <1>1, <1>2, <1>3 DEF Next

(* The variables of the daily batch keep their types: the documents the      *)
(* runners hold are documents, and the progress has one entry per account.   *)
THEOREM TypesKept == Spec => []TypeOK
  <1>1. TypeInv => TypeOK
    BY DEF TypeInv
  <1>2. QED
    BY <1>1, InitTypes, StepTypes, PTL DEF Spec

-----------------------------------------------------------------------------
(* What a step does to the stored batch and to the copies of it.             *)

(* A copy made of the stored document: its batch has the date and the        *)
(* progress of the stored one, or is a new one of another date, or has one   *)
(* identity more.                                                            *)
SameBatch(d, e) ==
  d.batch # None /\ e.batch.date = d.batch.date /\ e.batch.synced = d.batch.synced
OtherBatch(d, e) ==
  /\ \A a \in Accounts : e.batch.synced[a] = None
  /\ d.batch # None => e.batch.date # d.batch.date
OneMore(d, e, day0, a, k) ==
  /\ d.batch \in Batch /\ e.batch.date = d.batch.date /\ d.batch.date = day0
  /\ a \in Accounts /\ k \in Keys
  /\ e.batch.synced = [d.batch.synced EXCEPT ![a] = k]

Loads(s) ==
  /\ doc' = doc /\ copy'[s] # None /\ copy'[s].keys = doc.keys
  /\ \/ SameBatch(doc, copy'[s])
     \/ OtherBatch(doc, copy'[s])
     \/ pc[s] = "progressLoad" /\ OneMore(doc, copy'[s], date[s], at[s], eligible[s][at[s]])

(* The copy that is marked has the connections and the progress it had. *)
Amends(s) ==
  /\ doc' = doc /\ (fresh'[s] => fresh[s]) /\ copy[s] # None /\ copy'[s] # None
  /\ copy'[s].keys = copy[s].keys
  /\ copy'[s].batch.date = copy[s].batch.date /\ copy'[s].batch.synced = copy[s].batch.synced
  /\ copy[s].batch # None /\ copy'[s].batch # None

Saves(r) == /\ fresh[r] /\ copy[r] # None /\ doc' = copy[r]
            /\ \A s \in Runners : ~fresh'[s]

Rests(s) == copy'[s] = copy[s] /\ (fresh'[s] => fresh[s] /\ doc' = doc)

Effects ==
  /\ imported \subseteq imported'
  /\ doc'.batch = doc.batch \/ \E r \in Runners : Saves(r)
  /\ \A s \in Runners : \/ copy'[s] = None /\ ~fresh'[s]
                        \/ Rests(s)
                        \/ Loads(s)
                        \/ Amends(s)
  /\ \A s \in Runners : pc'[s] = "progressLoad" =>
       \/ /\ pc[s] = "progressLoad" /\ date'[s] = date[s] /\ at'[s] = at[s]
          /\ eligible'[s] = eligible[s]
       \/ <<date'[s], at'[s], eligible'[s][at'[s]]>> \in imported'

LEMMA NoneLoads ==
  ASSUME imported \subseteq imported', doc'.batch = doc.batch, copy' = copy,
         \A s \in Runners : fresh'[s] => fresh[s] /\ doc' = doc,
         UNCHANGED runVars
  PROVE  Effects
  BY DEF Effects, Rests, runVars

(* The runner that acts goes elsewhere than to load its progress. *)
Moves(r, l) == /\ pc'[r] = l /\ l # "progressLoad"
               /\ \A s \in Runners \ {r} : /\ pc'[s] = pc[s] /\ date'[s] = date[s]
                                           /\ at'[s] = at[s] /\ eligible'[s] = eligible[s]

LEMMA RestEffects ==
  ASSUME NEW r \in Runners, NEW l, Moves(r, l), imported \subseteq imported',
         doc'.batch = doc.batch, copy' = copy,
         \A s \in Runners : fresh'[s] => fresh[s] /\ doc' = doc
  PROVE  Effects
  BY DEF Effects, Rests, Moves

LEMMA DropEffects ==
  ASSUME TypeOK, NEW r \in Runners, NEW l, Moves(r, l), imported \subseteq imported',
         doc' = doc, Drop(r)
  PROVE  Effects
  BY DropTyped DEF Effects, Rests, Moves

LEMMA LoadEffects ==
  ASSUME TypeOK, NEW r \in Runners, NEW l, Moves(r, l), imported \subseteq imported',
         NEW d \in Document, Load(r, d), doc' = doc, d.keys = doc.keys,
         \/ SameBatch(doc, d)
         \/ OtherBatch(doc, d)
         \/ pc[r] = "progressLoad" /\ OneMore(doc, d, date[r], at[r], eligible[r][at[r]])
  PROVE  Effects
  <1>1. /\ copy'[r] = d /\ fresh'[r]
        /\ \A s \in Runners \ {r} : copy'[s] = copy[s] /\ fresh'[s] = fresh[s]
    BY LoadTyped
  <1>2. Loads(r)
    BY <1>1, NotNone DEF Loads
  <1>3. \A s \in Runners \ {r} : Rests(s)
    BY <1>1 DEF Rests
  <1>4. QED
    BY <1>2, <1>3 DEF Effects, Moves

LEMMA SaveEffects ==
  ASSUME TypeInv, NEW r \in Runners, NEW l, Moves(r, l), imported \subseteq imported', Save(r)
  PROVE  Effects
  <1>1. /\ copy[r] \in Document /\ copy'[r] = None /\ doc' = copy[r]
        /\ \A s \in Runners : ~fresh'[s]
        /\ \A s \in Runners \ {r} : copy'[s] = copy[s]
    BY SaveTyped DEF TypeInv
  <1>2. Saves(r)
    BY <1>1, NotNone DEF Saves, Save, Current
  <1>3. \A s \in Runners \ {r} : Rests(s)
    BY <1>1 DEF Rests
  <1>4. QED
    BY <1>1, <1>2, <1>3 DEF Effects, Moves

LEMMA Gone ==
  ASSUME TypeOK, NEW r \in Runners, NEW l \in Places \ {"progressLoad"}, Goto(r, l),
         UNCHANGED <<date, eligible, at>>
  PROVE  Moves(r, l)
  BY GotoTyped DEF Moves

LEMMA GoneIdle ==
  ASSUME TypeOK, NEW r \in Runners, Idle(r) PROVE Moves(r, "idle")
  BY IdleTyped DEF Moves

LEMMA GoneOn ==
  ASSUME TypeOK, NEW r \in Runners, NextAccount(r) PROVE Moves(r, "loop")
  BY NextTyped DEF Moves

LEMMA LoadBatchEffects ==
  ASSUME TypeInv, NEW r \in Runners, LoadBatch(r) PROVE Effects
  <1>1. CASE pc'[r] = "idle"
    <2>1. Idle(r) /\ UNCHANGED copyVars
      BY <1>1, GotoTyped DEF LoadBatch, Places, TypeInv
    <2>2. QED
      BY <2>1, GoneIdle, RestEffects DEF LoadBatch, copyVars, TypeInv
  <1>2. CASE pc'[r] # "idle"
    <2> DEFINE b == BatchFor(doc.batch, tick[r])
               d == ClaimedOf(doc, b)
    <2>1. /\ d \in Document /\ Load(r, d) /\ Goto(r, "claim")
          /\ UNCHANGED <<date, eligible, at>>
      BY <1>2, ToClaim DEF TypeInv
    <2>2. tick[r] \in [day : Days, due : BOOLEAN] /\ tick[r].day \in Days
          /\ doc \in Document /\ doc.batch \in Batch \cup {None}
      BY DEF TypeInv, TypeOK, Document
    <2>3. d.batch.date = b.date /\ d.batch.synced = b.synced /\ d.keys = doc.keys
      BY <2>2, BatchForTyped, ClaimedTyped
    <2>4. CASE Replaces(doc.batch, tick[r])
      <3>1. b = NewBatch(tick[r].day)
        BY <2>4 DEF BatchFor
      <3>2. \A a \in Accounts : d.batch.synced[a] = None
        BY <2>3, <3>1 DEF NewBatch
      <3>3. doc.batch # None => d.batch.date # doc.batch.date
        BY <2>2, <2>3, <2>4, <3>1, NewBatchTyped DEF Replaces
      <3>4. OtherBatch(doc, d)
        BY <3>2, <3>3 DEF OtherBatch
      <3>5. QED
        BY <2>1, <2>3, <3>4, Gone, LoadEffects DEF LoadBatch, TypeInv, Places
    <2>5. CASE ~Replaces(doc.batch, tick[r])
      <3>1. SameBatch(doc, d)
        BY <2>3, <2>5 DEF SameBatch, BatchFor, Replaces
      <3>2. QED
        BY <2>1, <2>3, <3>1, Gone, LoadEffects DEF LoadBatch, TypeInv, Places
    <2>6. QED
      BY <2>4, <2>5
  <1>3. QED
    BY <1>1, <1>2

LEMMA ClaimEffects ==
  ASSUME TypeInv, NEW r \in Runners, Claim(r) PROVE Effects
  <1>1. Moves(r, "loop")
    BY GotoTyped DEF Claim, Moves, Places, Working, TypeInv, TypeOK
  <1>2. QED
    BY <1>1, SaveEffects DEF Claim

LEMMA ImportEffects ==
  ASSUME TypeInv, NEW r \in Runners, NEW outcome \in {"whole", "deferred"},
         Import(r, outcome)
  PROVE  Effects
  <1>1. at[r] \in Accounts
    BY DEF Import, TypeInv, RunnerOK
  <1>2. doc'.batch = doc.batch /\ copy' = copy /\ \A s \in Runners : ~fresh'[s]
    BY <1>1, AttemptTyped DEF Import, TypeInv
  <1>3. pc'[r] = "progressLoad" /\ \A s \in Runners \ {r} : pc'[s] = pc[s]
    BY GotoTyped DEF Import, Places, Working, TypeInv
  <1>4. /\ imported \subseteq imported'
        /\ <<date'[r], at'[r], eligible'[r][at'[r]]>> \in imported'
        /\ date' = date /\ at' = at /\ eligible' = eligible
    BY DEF Import
  <1>5. QED
    BY <1>2, <1>3, <1>4 DEF Effects, Rests

LEMMA ImportFailsEffects ==
  ASSUME TypeInv, NEW r \in Runners, ImportFails(r) PROVE Effects
  <1>1. /\ doc'.batch = doc.batch /\ copy' = copy
        /\ \A s \in Runners : fresh'[s] => fresh[s] /\ doc' = doc
    <2>1. CASE Attempt(at[r], "failed")
      BY <2>1, AttemptTyped DEF ImportFails, TypeInv, RunnerOK
    <2>2. CASE UNCHANGED <<doc, copyVars, partial>>
      BY <2>2 DEF copyVars
    <2>3. QED
      BY <2>1, <2>2 DEF ImportFails
  <1>2. Moves(r, "loop")
    BY GoneOn DEF ImportFails, TypeInv
  <1>3. QED
    BY <1>1, <1>2, RestEffects DEF ImportFails

LEMMA LoadProgressEffects ==
  ASSUME TypeInv, NEW r \in Runners, LoadProgress(r) PROVE Effects
  <1>1. CASE pc'[r] = "loop"
    <2>1. NextAccount(r) /\ UNCHANGED copyVars
      BY <1>1, GotoTyped DEF LoadProgress, Places, Working, TypeInv
    <2>2. QED
      BY <2>1, GoneOn, RestEffects DEF LoadProgress, copyVars, ghostVars, TypeInv
  <1>2. CASE pc'[r] # "loop"
    <2> DEFINE d == ProgressOf(doc, at[r], eligible[r][at[r]])
    <2>1. /\ d \in Document /\ Load(r, d) /\ Goto(r, "progressSave")
          /\ at[r] \in Accounts /\ eligible[r][at[r]] \in Keys
          /\ doc.batch \in Batch /\ doc.batch.date = date[r]
          /\ UNCHANGED <<date, eligible, at>>
      BY <1>2, ToProgress
    <2>2. OneMore(doc, d, date[r], at[r], eligible[r][at[r]]) /\ d.keys = doc.keys
      BY <2>1, ProgressTyped DEF OneMore, TypeInv, TypeOK
    <2>3. Moves(r, "progressSave")
      BY <2>1, Gone DEF Places, Working, TypeInv
    <2>4. QED
      BY <2>1, <2>2, <2>3, LoadEffects DEF LoadProgress, ghostVars, TypeInv
  <1>3. QED
    BY <1>1, <1>2

(* The stored batch, loaded to be ended or given back. *)
LEMMA LoadsEndEffects ==
  ASSUME TypeInv, NEW r \in Runners, pc[r] \in Working,
         NEW l \in {"capture", "complete", "releaseSave"}, Goto(r, l),
         Load(r, doc) \/ Load(r, RetriedOf(doc)),
         UNCHANGED <<doc, date, eligible, at, imported>>
  PROVE  Effects
  <1>1. doc \in Document /\ doc.batch \in Batch
    BY AtWork
  <1>2. /\ RetriedOf(doc) \in Document /\ RetriedOf(doc).keys = doc.keys
        /\ SameBatch(doc, doc) /\ SameBatch(doc, RetriedOf(doc))
    BY <1>1, RetriedTyped, NotNone DEF SameBatch
  <1>3. Moves(r, l)
    BY Gone DEF Places, Working, TypeInv
  <1>4. QED
    BY <1>1, <1>2, <1>3, LoadEffects DEF TypeInv

LEMMA CaptureEffects ==
  ASSUME TypeInv, NEW r \in Runners, Capture(r) PROVE Effects
  <1>1. /\ copy[r] \in Document /\ copy[r].batch \in Batch
        /\ copy'[r] = EndedOf(copy[r]) /\ fresh' = fresh
        /\ EndedOf(copy[r]) \in Document /\ EndedOf(copy[r]).batch \in Batch
        /\ \A s \in Runners \ {r} : copy'[s] = copy[s]
    BY Marked
  <1>2. Amends(r)
    BY <1>1, EndedTyped, NotNone DEF Amends, Capture
  <1>3. \A s \in Runners \ {r} : Rests(s)
    BY <1>1 DEF Rests, Capture
  <1>4. Moves(r, "complete")
    BY Gone DEF Capture, Places, Working, TypeInv
  <1>5. QED
    BY <1>2, <1>3, <1>4 DEF Effects, Moves, Capture, ghostVars

LEMMA EndEffects ==
  ASSUME TypeInv, NEW r \in Runners,
         \/ StartCapture(r) \/ Capture(r) \/ CaptureFails(r) \/ Withhold(r) \/ CompleteFails(r) \/ ReleaseLoad(r)
  PROVE  Effects
  <1>1. CASE StartCapture(r)
    BY <1>1, LoadsEndEffects DEF StartCapture, Working, ghostVars
  <1>2. CASE Withhold(r)
    BY <1>2, LoadsEndEffects DEF Withhold, RetriedOf, Working, ghostVars
  <1>3. CASE ReleaseLoad(r)
    BY <1>3, LoadsEndEffects DEF ReleaseLoad, RetriedOf, Working, ghostVars
  <1>4. CASE CaptureFails(r)
    BY <1>4, Gone, DropEffects DEF CaptureFails, Places, Working, ghostVars, TypeInv
  <1>5. CASE CompleteFails(r)
    BY <1>5, Gone, DropEffects DEF CompleteFails, Places, Working, ghostVars, TypeInv
  <1>6. QED
    BY <1>1, <1>2, <1>3, <1>4, <1>5, CaptureEffects

LEMMA RunEffects ==
  ASSUME TypeInv, NEW r \in Runners, Run(r) PROVE Effects
  <1>1. CASE Tick(r)
    BY <1>1, Gone, RestEffects DEF Tick, Places, ghostVars, copyVars, TypeInv
  <1>2. CASE ClaimFails(r) \/ ReleaseFails(r)
    BY <1>2, GoneIdle, DropEffects DEF ClaimFails, ReleaseFails, TypeInv
  <1>3. ASSUME NEW a \in Accounts, SkipAccount(r, a) PROVE Effects
    BY <1>3 DEF SkipAccount, Effects, Rests, ghostVars, copyVars
  <1>4. ASSUME NEW a \in Accounts, VisitAccount(r, a) PROVE Effects
    <2>1. Moves(r, "sync")
      BY <1>4, GotoTyped DEF VisitAccount, Moves, Places, Working, TypeInv, TypeOK
    <2>2. QED
      BY <1>4, <2>1, RestEffects DEF VisitAccount, ghostVars, copyVars
  <1>5. CASE SaveProgress(r)
    BY <1>5, GoneOn, SaveEffects DEF SaveProgress, ghostVars, TypeInv
  <1>6. CASE ProgressFails(r)
    BY <1>6, GoneOn, DropEffects DEF ProgressFails, ghostVars, TypeInv
  <1>7. CASE Complete(r) \/ Release(r)
    BY <1>7, GoneIdle, SaveEffects DEF Complete, Release, SaveEnd, TypeInv
  <1>8. QED
    BY <1>1, <1>2, <1>3, <1>4, <1>5, <1>6, <1>7, LoadBatchEffects, ClaimEffects, ImportEffects,
       ImportFailsEffects, LoadProgressEffects, EndEffects DEF Run

LEMMA StepEffects == TypeInv /\ [Next]_vars => Effects
  <1> SUFFICES ASSUME TypeInv, [Next]_vars PROVE Effects
    OBVIOUS
  <1>1. CASE ExpireLease \/ RetryPasses \/ Clock
    BY <1>1, NoneLoads DEF ExpireLease, RetryPasses, Clock, copyVars, ghostVars
  <1>2. ASSUME NEW a \in Accounts, NEW k \in Keys \cup {None}, EditAccount(a, k) PROVE Effects
    <2>1. doc'.batch = doc.batch /\ \A s \in Runners : ~fresh'[s]
      BY <1>2 DEF EditAccount, TypeInv, TypeOK, Document
    <2>2. QED
      BY <1>2, <2>1, NoneLoads DEF EditAccount, ghostVars
  <1>3. ASSUME NEW a \in Accounts, NEW outcome \in {"whole", "deferred", "failed"},
               OtherSync(a, outcome)
        PROVE  Effects
    <2>1. doc'.batch = doc.batch /\ copy' = copy /\ \A s \in Runners : ~fresh'[s]
      BY <1>3, AttemptTyped DEF OtherSync, TypeInv
    <2>2. QED
      BY <1>3, <2>1, NoneLoads DEF OtherSync
  <1>4. ASSUME NEW r \in Runners, Crash(r) PROVE Effects
    BY <1>4, GoneIdle, DropEffects DEF Crash, TypeInv
  <1>5. CASE UNCHANGED vars
    BY <1>5, NoneLoads DEF vars, ghostVars, copyVars
  <1>6. QED
    BY <1>1, <1>2, <1>3, <1>4, <1>5, RunEffects DEF Next, Environment

-----------------------------------------------------------------------------
(* Recorded progress.                                                        *)

(* Every identity recorded in a batch was imported for that batch. *)
Recorded(d, done) ==
  d.batch # None =>
    \A a \in Accounts : d.batch.synced[a] # None => <<d.batch.date, a, d.batch.synced[a]>> \in done

(* What a save that may still succeed holds of the progress it replaces. *)
Kept(d, e) ==
  d.batch # None /\ d.batch.date = e.batch.date =>
    \A a \in Accounts : d.batch.synced[a] # None => e.batch.synced[a] # None

ImportInv ==
  /\ Recorded(doc, imported)
  /\ \A r \in Runners :
       /\ copy[r] # None => Recorded(copy[r], imported)
       /\ pc[r] = "progressLoad" => <<date[r], at[r], eligible[r][at[r]]>> \in imported

KeepInv == \A r \in Runners : fresh[r] => Kept(doc, copy[r])

LEMMA OneMoreIs ==
  ASSUME NEW d, NEW e, NEW day0, NEW a, NEW k, OneMore(d, e, day0, a, k)
  PROVE  \A x \in Accounts :
           e.batch.synced[x] = IF x = a THEN k ELSE d.batch.synced[x]
  BY DEF OneMore, Batch

LEMMA StepImports == TypeInv /\ ImportInv /\ [Next]_vars => ImportInv'
  <1> SUFFICES ASSUME TypeInv, ImportInv, [Next]_vars PROVE ImportInv'
    OBVIOUS
  <1>1. Effects
    BY StepEffects
  <1>2. imported \subseteq imported'
    BY <1>1 DEF Effects
  <1>3. Recorded(doc', imported')
    BY <1>1, <1>2 DEF Effects, Saves, Recorded, ImportInv
  <1>4. ASSUME NEW s \in Runners, copy'[s] # None PROVE Recorded(copy'[s], imported')
    <2>1. CASE Rests(s)
      BY <1>2, <1>4, <2>1 DEF Rests, Recorded, ImportInv
    <2>2. CASE Loads(s)
      <3>1. CASE SameBatch(doc, copy'[s]) \/ OtherBatch(doc, copy'[s])
        BY <1>2, <3>1 DEF SameBatch, OtherBatch, Recorded, ImportInv
      <3>2. CASE /\ pc[s] = "progressLoad"
                 /\ OneMore(doc, copy'[s], date[s], at[s], eligible[s][at[s]])
        <4>1. /\ copy'[s].batch.date = doc.batch.date /\ doc.batch.date = date[s]
              /\ doc.batch # None
          BY <3>2, NotNone DEF OneMore
        <4>2. ASSUME NEW a \in Accounts, copy'[s].batch.synced[a] # None
              PROVE  <<copy'[s].batch.date, a, copy'[s].batch.synced[a]>> \in imported
          <5>1. CASE a = at[s]
            BY <3>2, <4>1, <5>1, OneMoreIs DEF ImportInv
          <5>2. CASE a # at[s]
            BY <3>2, <4>1, <4>2, <5>2, OneMoreIs DEF ImportInv, Recorded
          <5>3. QED
            BY <5>1, <5>2
        <4>3. QED
          BY <1>2, <4>2 DEF Recorded
      <3>3. QED
        BY <2>2, <3>1, <3>2 DEF Loads
    <2>3. CASE Amends(s)
      BY <1>2, <2>3 DEF Amends, Recorded, ImportInv
    <2>4. QED
      BY <1>1, <1>4, <2>1, <2>2, <2>3 DEF Effects
  <1>5. ASSUME NEW s \in Runners, pc'[s] = "progressLoad"
        PROVE  <<date'[s], at'[s], eligible'[s][at'[s]]>> \in imported'
    BY <1>1, <1>2, <1>5 DEF Effects, ImportInv
  <1>6. QED
    BY <1>3, <1>4, <1>5 DEF ImportInv

LEMMA StepKeeps == TypeInv /\ KeepInv /\ [Next]_vars => KeepInv'
  <1> SUFFICES ASSUME TypeInv, KeepInv, [Next]_vars, NEW s \in Runners, fresh'[s]
               PROVE  Kept(doc', copy'[s])
    BY DEF KeepInv
  <1>1. Effects
    BY StepEffects
  <1>2. CASE Rests(s)
    BY <1>2 DEF Rests, Kept, KeepInv
  <1>3. CASE Loads(s)
    <2>1. CASE SameBatch(doc, copy'[s]) \/ OtherBatch(doc, copy'[s])
      BY <1>3, <2>1 DEF Loads, SameBatch, OtherBatch, Kept
    <2>2. CASE OneMore(doc, copy'[s], date[s], at[s], eligible[s][at[s]])
      <3>1. eligible[s][at[s]] # None
        BY <2>2, NotNone DEF OneMore
      <3>2. QED
        BY <1>3, <2>2, <3>1, OneMoreIs DEF Loads, Kept
    <2>3. QED
      BY <1>3, <2>1, <2>2 DEF Loads
  <1>4. CASE Amends(s)
    BY <1>4 DEF Amends, Kept, KeepInv
  <1>5. QED
    BY <1>1, <1>2, <1>3, <1>4 DEF Effects

LEMMA InitProgress == Init => ImportInv /\ KeepInv
  BY DEF Init, ImportInv, KeepInv, Recorded

ProgressStays ==
  LET b == doc.batch IN
  b # None /\ doc'.batch.date = b.date =>
    \A a \in Accounts : b.synced[a] # None => doc'.batch.synced[a] # None

LEMMA StepStays == TypeInv /\ KeepInv /\ [Next]_vars => [ProgressStays]_vars
  <1> SUFFICES ASSUME TypeInv, KeepInv, [Next]_vars PROVE ProgressStays
    OBVIOUS
  <1>1. Effects
    BY StepEffects
  <1>2. CASE doc'.batch = doc.batch
    BY <1>2 DEF ProgressStays
  <1>3. ASSUME NEW r \in Runners, Saves(r) PROVE ProgressStays
    BY <1>3 DEF Saves, KeepInv, Kept, ProgressStays
  <1>4. QED
    BY <1>1, <1>2, <1>3 DEF Effects

(* Progress recorded for a date is kept as long as the batch has that date,  *)
(* whoever saves, fails, crashes or resumes the batch (ProgressKept).        *)
THEOREM ProgressIsKept == Spec => ProgressKept
  <1>1. [ProgressStays]_vars <=>
        [LET b == doc.batch IN
         b # None /\ doc'.batch.date = b.date =>
             \A a \in Accounts : b.synced[a] # None => doc'.batch.synced[a] # None]_vars
    BY DEF ProgressStays
  <1>2. QED
    BY <1>1, InitTypes, StepTypes, InitProgress, StepKeeps, StepStays, PTL DEF Spec, ProgressKept

-----------------------------------------------------------------------------
(* One run at a time, as long as no run outlives its lease.                  *)

Leased == doc.batch # None /\ doc.batch.lease /\ ~leasePast

(* A run at work has the stored lease and the date of the stored batch.  A   *)
(* claim that may still be saved was loaded when nobody had the lease.       *)
LeaseOK(r) ==
  /\ pc[r] \in Working => Leased /\ doc.batch.date = date[r]
  /\ pc[r] = "claim" => copy[r].batch.lease /\ (fresh[r] => ~Leased)
  /\ pc[r] = "progressSave" => copy[r].batch.lease /\ copy[r].batch.date = date[r]

LeaseInv ==
  /\ \A r, s \in Runners : pc[r] \in Working /\ pc[s] \in Working => r = s
  /\ \A r \in Runners : LeaseOK(r)
  /\ \A r \in claims : pc[r] \in Working

(* No run is at work but that of r. *)
LEMMA Alone ==
  ASSUME LeaseInv, NEW r \in Runners,
         pc[r] \in Working \/ (pc[r] = "claim" /\ fresh[r])
  PROVE  \A s \in Runners \ {r} : pc[s] \notin Working
  BY DEF LeaseInv, LeaseOK

LeaseStill(s) == /\ pc'[s] = pc[s] /\ date'[s] = date[s] /\ copy'[s] = copy[s]
                 /\ (fresh'[s] => fresh[s])

(* A step of r that saves no batch. *)
LEMMA QuietLease ==
  ASSUME TypeInv, LeaseInv, NEW r \in Runners, doc'.batch = doc.batch, leasePast' = leasePast,
         \A s \in Runners \ {r} : LeaseStill(s),
         pc'[r] \in Working => pc[r] \in Working /\ date'[r] = date[r],
         pc'[r] = "claim" => copy'[r].batch.lease /\ ~Leased,
         pc'[r] = "progressSave" => copy'[r].batch.lease /\ copy'[r].batch.date = date'[r],
         claims' \subseteq claims, r \in claims' => pc'[r] \in Working
  PROVE  LeaseInv'
  <1>1. Leased' <=> Leased
    BY DEF Leased
  <1>2. ASSUME NEW s \in Runners PROVE LeaseOK(s)'
    BY <1>1 DEF LeaseInv, LeaseOK, LeaseStill, Working
  <1>3. \A s, t \in Runners : pc'[s] \in Working /\ pc'[t] \in Working => s = t
    BY DEF LeaseInv, LeaseStill
  <1>4. \A s \in claims' : pc'[s] \in Working
    BY DEF LeaseInv, LeaseStill, Working, TypeInv, TypeOK
  <1>5. QED
    BY <1>2, <1>3, <1>4 DEF LeaseInv

(* A save of r: it is the only run at work, and nobody else's copy is        *)
(* current any longer.                                                       *)
LEMMA SaveLease ==
  ASSUME TypeInv, LeaseInv, NEW r \in Runners, Save(r),
         pc[r] \in Working \/ pc[r] = "claim",
         \A s \in Runners \ {r} : pc'[s] = pc[s],
         \/ pc'[r] = "idle" /\ r \notin claims'
         \/ /\ pc'[r] = "loop" /\ copy[r].batch.lease /\ ~leasePast'
            /\ date'[r] = copy[r].batch.date,
         claims' \subseteq claims \cup {r}
  PROVE  LeaseInv'
  <1>1. /\ copy[r] \in Document /\ copy[r].batch \in Batch /\ doc' = copy[r]
        /\ \A s \in Runners : ~fresh'[s]
        /\ \A s \in Runners \ {r} : copy'[s] = copy[s]
    BY SaveTyped DEF TypeInv
  <1>2. \A s \in Runners \ {r} : pc[s] \notin Working
    BY Alone DEF Save, Current
  <1>3. ASSUME NEW s \in Runners \ {r} PROVE LeaseOK(s)'
    BY <1>1, <1>2 DEF LeaseInv, LeaseOK, Working
  <1>4. LeaseOK(r)'
    BY <1>1, NotNone DEF LeaseOK, Leased, Working
  <1>5. \A s, t \in Runners : pc'[s] \in Working /\ pc'[t] \in Working => s = t
    BY <1>2
  <1>6. \A s \in claims' : pc'[s] \in Working
    BY <1>2 DEF LeaseInv, Working, TypeInv, TypeOK
  <1>7. QED
    BY <1>3, <1>4, <1>5, <1>6 DEF LeaseInv

LEMMA LoadBatchLease ==
  ASSUME TypeInv, LeaseInv, NEW r \in Runners, LoadBatch(r) PROVE LeaseInv'
  <1> USE DEF TypeInv
  <1>1. CASE pc'[r] = "idle"
    <2>1. Idle(r) /\ UNCHANGED copyVars
      BY <1>1, GotoTyped DEF LoadBatch, Places
    <2>2. /\ \A s \in Runners \ {r} : LeaseStill(s)
          /\ claims' = claims \ {r}
      BY <2>1, IdleTyped DEF copyVars, LeaseStill, Idle
    <2>3. QED
      BY <1>1, <2>2, QuietLease DEF LoadBatch, timeVars, Working
  <1>2. CASE pc'[r] # "idle"
    <2> DEFINE b == BatchFor(doc.batch, tick[r])
               d == ClaimedOf(doc, b)
    <2>1. /\ d \in Document /\ Load(r, d) /\ Goto(r, "claim") /\ ~Waiting(doc.batch)
          /\ UNCHANGED <<date, claims>>
      BY <1>2, ToClaim
    <2>2. d.batch.lease
      BY BatchForTyped, ClaimedTyped DEF TypeOK, Document
    <2>3. ~Leased
      BY <2>1 DEF Waiting, Leased
    <2>4. copy'[r] = d /\ \A s \in Runners \ {r} : copy'[s] = copy[s] /\ fresh'[s] = fresh[s]
      BY <2>1, LoadTyped
    <2>5. pc'[r] = "claim" /\ \A s \in Runners \ {r} : pc'[s] = pc[s]
      BY <2>1, GotoTyped DEF Places
    <2>6. r \notin claims
      BY DEF LoadBatch, LeaseInv, Working
    <2>7. QED
      BY <2>1, <2>2, <2>3, <2>4, <2>5, <2>6, QuietLease DEF LoadBatch, LeaseStill, timeVars, Working
  <1>3. QED
    BY <1>1, <1>2

LEMMA ClaimLease ==
  ASSUME TypeInv, LeaseInv, NEW r \in Runners, Claim(r) PROVE LeaseInv'
  <1>1. pc'[r] = "loop" /\ \A s \in Runners \ {r} : pc'[s] = pc[s]
    BY GotoTyped DEF Claim, Places, Working, TypeInv
  <1>2. date'[r] = copy[r].batch.date
    BY DEF Claim, TypeInv, TypeOK
  <1>3. copy[r].batch.lease
    BY DEF Claim, LeaseInv, LeaseOK
  <1>4. QED
    BY <1>1, <1>2, <1>3, SaveLease DEF Claim

(* A run that gives up or dies. *)
LEMMA GivesUpLease ==
  ASSUME TypeInv, LeaseInv, NEW r \in Runners, Idle(r), Drop(r), UNCHANGED <<doc, timeVars>>
  PROVE  LeaseInv'
  <1>1. \A s \in Runners \ {r} : LeaseStill(s)
    BY IdleTyped, DropTyped DEF LeaseStill, TypeInv
  <1>2. pc'[r] = "idle" /\ claims' = claims \ {r}
    BY IdleTyped DEF Idle, TypeInv
  <1>3. QED
    BY <1>1, <1>2, QuietLease DEF timeVars, Working

(* A run that stays at work and loads or saves no batch. *)
LEMMA OnLease ==
  ASSUME TypeInv, LeaseInv, NEW r \in Runners, doc'.batch = doc.batch,
         UNCHANGED <<leasePast, claims>>,
         \A s \in Runners \ {r} : LeaseStill(s),
         pc[r] \in Working, pc'[r] \in Working \ {"progressSave"}, date'[r] = date[r]
  PROVE  LeaseInv'
  BY QuietLease DEF Working

LEMMA ImportLease ==
  ASSUME TypeInv, LeaseInv, NEW r \in Runners, NEW outcome \in {"whole", "deferred"},
         Import(r, outcome)
  PROVE  LeaseInv'
  <1>1. at[r] \in Accounts
    BY DEF Import, TypeInv, RunnerOK
  <1>2. doc'.batch = doc.batch /\ copy' = copy /\ \A s \in Runners : ~fresh'[s]
    BY <1>1, AttemptTyped DEF Import, TypeInv
  <1>3. pc'[r] = "progressLoad" /\ \A s \in Runners \ {r} : pc'[s] = pc[s]
    BY GotoTyped DEF Import, Places, Working, TypeInv
  <1>4. QED
    BY <1>2, <1>3, OnLease DEF Import, timeVars, LeaseStill, Working

LEMMA ImportFailsLease ==
  ASSUME TypeInv, LeaseInv, NEW r \in Runners, ImportFails(r) PROVE LeaseInv'
  <1>1. doc'.batch = doc.batch /\ copy' = copy /\ \A s \in Runners : fresh'[s] => fresh[s]
    <2>1. CASE Attempt(at[r], "failed")
      BY <2>1, AttemptTyped DEF ImportFails, TypeInv, RunnerOK
    <2>2. CASE UNCHANGED <<doc, copyVars, partial>>
      BY <2>2 DEF copyVars
    <2>3. QED
      BY <2>1, <2>2 DEF ImportFails
  <1>2. pc'[r] = "loop" /\ date' = date /\ \A s \in Runners \ {r} : pc'[s] = pc[s]
    BY NextTyped DEF ImportFails, TypeInv
  <1>3. QED
    BY <1>1, <1>2, OnLease DEF ImportFails, timeVars, LeaseStill, Working

LEMMA LoadProgressLease ==
  ASSUME TypeInv, LeaseInv, NEW r \in Runners, LoadProgress(r) PROVE LeaseInv'
  <1>1. CASE pc'[r] = "loop"
    <2>1. NextAccount(r) /\ UNCHANGED copyVars
      BY <1>1, GotoTyped DEF LoadProgress, Places, Working, TypeInv
    <2>2. pc'[r] = "loop" /\ date' = date /\ \A s \in Runners \ {r} : pc'[s] = pc[s]
      BY <2>1, NextTyped DEF TypeInv
    <2>3. QED
      BY <2>1, <2>2, OnLease DEF LoadProgress, timeVars, copyVars, ghostVars, LeaseStill, Working
  <1>2. CASE pc'[r] # "loop"
    <2> DEFINE d == ProgressOf(doc, at[r], eligible[r][at[r]])
    <2>1. /\ d \in Document /\ Load(r, d) /\ Goto(r, "progressSave")
          /\ at[r] \in Accounts /\ eligible[r][at[r]] \in Keys
          /\ doc.batch \in Batch /\ doc.batch.date = date[r]
          /\ UNCHANGED date
      BY <1>2, ToProgress
    <2>2. d.batch.lease = doc.batch.lease /\ d.batch.date = doc.batch.date
      BY <2>1, ProgressTyped DEF TypeInv, TypeOK
    <2>3. doc.batch.lease
      BY DEF LoadProgress, LeaseInv, LeaseOK, Leased, Working
    <2>4. copy'[r] = d /\ \A s \in Runners \ {r} : copy'[s] = copy[s] /\ fresh'[s] = fresh[s]
      BY <2>1, LoadTyped DEF TypeInv
    <2>5. pc'[r] = "progressSave" /\ \A s \in Runners \ {r} : pc'[s] = pc[s]
      BY <2>1, GotoTyped DEF Places, Working, TypeInv
    <2>6. QED
      BY <2>1, <2>2, <2>3, <2>4, <2>5, QuietLease
         DEF LoadProgress, timeVars, ghostVars, LeaseStill, Working
  <1>3. QED
    BY <1>1, <1>2

LEMMA SaveProgressLease ==
  ASSUME TypeInv, LeaseInv, NEW r \in Runners, SaveProgress(r) PROVE LeaseInv'
  <1>1. pc'[r] = "loop" /\ date' = date /\ \A s \in Runners \ {r} : pc'[s] = pc[s]
    BY NextTyped DEF SaveProgress, TypeInv
  <1>2. copy[r].batch.lease /\ copy[r].batch.date = date[r] /\ ~leasePast
    BY DEF SaveProgress, LeaseInv, LeaseOK, Leased, Working
  <1>3. QED
    BY <1>1, <1>2, SaveLease DEF SaveProgress, timeVars, ghostVars, Working

LEMMA EndLease ==
  ASSUME TypeInv, LeaseInv, NEW r \in Runners,
         \/ StartCapture(r) \/ Capture(r) \/ CaptureFails(r) \/ Withhold(r) \/ CompleteFails(r)
         \/ ReleaseLoad(r)
  PROVE  LeaseInv'
  <1>1. /\ pc[r] \in Working /\ UNCHANGED <<doc, leasePast, date, claims>>
        /\ \E l \in {"capture", "complete", "releaseLoad", "releaseSave"} : Goto(r, l)
    BY DEF StartCapture, Capture, CaptureFails, Withhold, CompleteFails, ReleaseLoad, Working, timeVars, ghostVars
  <1>2. pc'[r] \in Working \ {"progressSave"} /\ \A s \in Runners \ {r} : pc'[s] = pc[s]
    BY <1>1, GotoTyped DEF Places, Working, TypeInv
  <1>3. \A s \in Runners \ {r} : copy'[s] = copy[s] /\ fresh'[s] = fresh[s]
    BY DEF StartCapture, Capture, CaptureFails, Withhold, CompleteFails, ReleaseLoad, Load, Drop,
           TypeInv, TypeOK
  <1>4. QED
    BY <1>1, <1>2, <1>3, OnLease DEF LeaseStill

LEMMA SaveEndLease ==
  ASSUME TypeInv, LeaseInv, NEW r \in Runners, pc[r] \in Working, SaveEnd(r) PROVE LeaseInv'
  <1>1. pc'[r] = "idle" /\ claims' = claims \ {r} /\ \A s \in Runners \ {r} : pc'[s] = pc[s]
    BY IdleTyped DEF SaveEnd, Idle, TypeInv
  <1>2. QED
    BY <1>1, SaveLease DEF SaveEnd

LEMMA RunLease ==
  ASSUME TypeInv, LeaseInv, NEW r \in Runners, Run(r) PROVE LeaseInv'
  <1>1. CASE Tick(r)
    <2>1. pc'[r] = "load" /\ \A s \in Runners \ {r} : pc'[s] = pc[s]
      BY <1>1, GotoTyped DEF Tick, Places, TypeInv
    <2>2. r \notin claims
      BY <1>1 DEF Tick, LeaseInv, Working
    <2>3. QED
      BY <1>1, <2>1, <2>2, QuietLease DEF Tick, timeVars, copyVars, ghostVars, LeaseStill, Working
  <1>2. CASE ClaimFails(r) \/ ReleaseFails(r)
    BY <1>2, GivesUpLease DEF ClaimFails, ReleaseFails
  <1>3. ASSUME NEW a \in Accounts, SkipAccount(r, a) PROVE LeaseInv'
    BY <1>3, OnLease DEF SkipAccount, timeVars, copyVars, ghostVars, LeaseStill, Working
  <1>4. ASSUME NEW a \in Accounts, VisitAccount(r, a) PROVE LeaseInv'
    <2>1. pc'[r] = "sync" /\ \A s \in Runners \ {r} : pc'[s] = pc[s]
      BY <1>4, GotoTyped DEF VisitAccount, Places, Working, TypeInv
    <2>2. QED
      BY <1>4, <2>1, OnLease DEF VisitAccount, timeVars, copyVars, ghostVars, LeaseStill, Working
  <1>5. CASE ProgressFails(r)
    <2>1. pc'[r] = "loop" /\ date' = date /\ \A s \in Runners \ {r} : pc'[s] = pc[s]
      BY <1>5, NextTyped DEF ProgressFails, TypeInv
    <2>2. \A s \in Runners \ {r} : copy'[s] = copy[s] /\ fresh'[s] = fresh[s]
      BY <1>5, DropTyped DEF ProgressFails, TypeInv
    <2>3. QED
      BY <1>5, <2>1, <2>2, OnLease DEF ProgressFails, timeVars, ghostVars, LeaseStill, Working
  <1>6. CASE Complete(r) \/ Release(r)
    BY <1>6, SaveEndLease DEF Complete, Release, Working
  <1>7. QED
    BY <1>1, <1>2, <1>3, <1>4, <1>5, <1>6, LoadBatchLease, ClaimLease, ImportLease,
       ImportFailsLease, LoadProgressLease, SaveProgressLease, EndLease DEF Run

LEMMA StepLease == LeaseOutlives /\ TypeInv /\ LeaseInv /\ [Next]_vars => LeaseInv'
  <1> SUFFICES ASSUME LeaseOutlives, TypeInv, LeaseInv, [Next]_vars PROVE LeaseInv'
    OBVIOUS
  <1>1. ASSUME doc'.batch = doc.batch, leasePast' = leasePast, UNCHANGED <<runVars, copy, claims>>,
               \A s \in Runners : fresh'[s] => fresh[s]
        PROVE  LeaseInv'
    BY <1>1 DEF LeaseInv, LeaseOK, Leased, runVars
  <1>2. CASE ExpireLease
    BY <1>2 DEF ExpireLease, MayExpire, LeaseInv, LeaseOK, Leased, runVars, copyVars, Working
  <1>3. CASE RetryPasses \/ Clock
    BY <1>1, <1>3 DEF RetryPasses, Clock, timeVars, copyVars, ghostVars
  <1>4. ASSUME NEW a \in Accounts, NEW k \in Keys \cup {None}, EditAccount(a, k) PROVE LeaseInv'
    <2>1. doc'.batch = doc.batch /\ \A s \in Runners : ~fresh'[s]
      BY <1>4 DEF EditAccount, TypeInv, TypeOK, Document
    <2>2. QED
      BY <1>1, <1>4, <2>1 DEF EditAccount, timeVars, ghostVars
  <1>5. ASSUME NEW a \in Accounts, NEW outcome \in {"whole", "deferred", "failed"},
               OtherSync(a, outcome)
        PROVE  LeaseInv'
    <2>1. doc'.batch = doc.batch /\ copy' = copy /\ \A s \in Runners : ~fresh'[s]
      BY <1>5, AttemptTyped DEF OtherSync, TypeInv
    <2>2. QED
      BY <1>1, <1>5, <2>1 DEF OtherSync, timeVars
  <1>6. ASSUME NEW r \in Runners, Crash(r) PROVE LeaseInv'
    BY <1>6, GivesUpLease DEF Crash
  <1>7. CASE UNCHANGED vars
    BY <1>1, <1>7 DEF vars, timeVars, copyVars, ghostVars
  <1>8. QED
    BY <1>2, <1>3, <1>4, <1>5, <1>6, <1>7, RunLease DEF Next, Environment

LEMMA InitLease == Init => LeaseInv
  BY DEF Init, LeaseInv, LeaseOK, Working

LEMMA OneClaim == TypeInv /\ LeaseInv => OneLiveClaim
  <1> SUFFICES ASSUME TypeInv, LeaseInv PROVE Cardinality(claims) <= 1
    BY DEF OneLiveClaim
  <1>1. CASE claims = {}
    BY <1>1, FS_EmptySet
  <1>2. CASE claims # {}
    <2>1. PICK r \in claims : TRUE
      BY <1>2
    <2>2. claims = {r}
      BY <2>1 DEF LeaseInv, TypeInv, TypeOK
    <2>3. QED
      BY <2>2, FS_Singleton
  <1>3. QED
    BY <1>1, <1>2

(* Two runners never work under claims that are both in force, as long as a  *)
(* run ends within its lease (OneLiveClaim).                                 *)
THEOREM ClaimsExclude == LeaseOutlives => (Spec => []OneLiveClaim)
  <1>1. ASSUME LeaseOutlives PROVE Spec => []OneLiveClaim
    <2>1. TypeInv /\ LeaseInv /\ [Next]_vars => LeaseInv'
      BY <1>1, StepLease
    <2>2. QED
      BY <2>1, InitTypes, StepTypes, InitLease, OneClaim, PTL DEF Spec
  <1>2. QED
    BY <1>1

------------------------------------------------------------------------------
(* The completion of a batch, and the file it rests on.                      *)

(* The connections of k, which has some, are recorded in the batch b. *)
Covers(b, k) == /\ \E a \in Accounts : k[a] # None
                /\ \A a \in Accounts : k[a] # None => b.synced[a] = k[a]

(* A batch at work is not completed.  A claim of a completed batch was made   *)
(* because a connection is not recorded in it.  What a snapshot is taken of   *)
(* is recorded in the batch, and stays so while prices are fetched; a batch   *)
(* about to be completed has the file of what was loaded.                     *)
MarkOK(r) ==
  /\ pc[r] \in Working => ~doc.batch.completed
  /\ pc[r] \in {"claim", "progressSave", "releaseSave"} => ~copy[r].batch.completed
  /\ pc[r] = "claim" /\ fresh[r] =>
       \/ OtherBatch(doc, copy[r])
       \/ SameBatch(doc, copy[r]) /\ (doc.batch.completed => ~Covers(doc.batch, doc.keys))
  /\ pc[r] \in {"capture", "complete"} /\ fresh[r] => SameBatch(doc, copy[r])
  /\ pc[r] = "capture" => Covers(doc.batch, copy[r].keys)
  /\ pc[r] = "complete" /\ copy[r].batch.completed =>
       Covers(doc.batch, copy[r].keys) /\ snapshots[date[r]] = copy[r].keys

MarkInv == \A r \in Runners : MarkOK(r)

(* A runner that does not act, and is not disturbed at its work. *)
LEMMA OtherMarks ==
  ASSUME NEW s \in Runners, MarkOK(s), LeaseStill(s), fresh'[s] => doc' = doc,
         (doc'.batch = doc.batch /\ snapshots' = snapshots) \/ pc[s] \notin Working
  PROVE  MarkOK(s)'
  <1>1. CASE doc'.batch = doc.batch /\ snapshots' = snapshots
    BY <1>1 DEF MarkOK, LeaseStill, Covers, SameBatch, OtherBatch
  <1>2. CASE pc[s] \notin Working
    BY <1>2 DEF MarkOK, LeaseStill, Covers, SameBatch, OtherBatch, Working
  <1>3. QED
    BY <1>1, <1>2

(* A runner that goes where it holds nothing of the completion. *)
LEMMA PlainMarks ==
  ASSUME NEW r \in Runners,
         pc'[r] \notin {"claim", "progressSave", "releaseSave", "capture", "complete"},
         pc'[r] \in Working => ~doc'.batch.completed
  PROVE  MarkOK(r)'
  BY DEF MarkOK

(* A step of r that saves no document. *)
LEMMA QuietMarks ==
  ASSUME MarkInv, NEW r \in Runners, UNCHANGED <<doc, snapshots>>,
         \A s \in Runners \ {r} : LeaseStill(s), MarkOK(r)'
  PROVE  MarkInv'
  BY OtherMarks DEF MarkInv

(* A step of r, which is alone at work. *)
LEMMA AloneMarks ==
  ASSUME LeaseInv, MarkInv, NEW r \in Runners, pc[r] \in Working \/ (pc[r] = "claim" /\ fresh[r]),
         \A s \in Runners \ {r} : LeaseStill(s) /\ (fresh'[s] => doc' = doc), MarkOK(r)'
  PROVE  MarkInv'
  BY OtherMarks, Alone DEF MarkInv

LEMMA LoadBatchMarks ==
  ASSUME TypeInv, MarkInv, NEW r \in Runners, LoadBatch(r) PROVE MarkInv'
  <1> USE DEF TypeInv
  <1>1. CASE pc'[r] = "idle"
    <2>1. Idle(r) /\ UNCHANGED copyVars
      BY <1>1, GotoTyped DEF LoadBatch, Places
    <2>2. \A s \in Runners \ {r} : LeaseStill(s)
      BY <2>1, IdleTyped DEF copyVars, LeaseStill
    <2>3. MarkOK(r)'
      BY <1>1, PlainMarks DEF Working
    <2>4. QED
      BY <2>2, <2>3, QuietMarks DEF LoadBatch
  <1>2. CASE pc'[r] # "idle"
    <2> DEFINE b == BatchFor(doc.batch, tick[r])
               d == ClaimedOf(doc, b)
    <2>1. /\ d \in Document /\ d.batch \in Batch /\ Load(r, d) /\ Goto(r, "claim")
          /\ UNCHANGED date
      BY <1>2, ToClaim
    <2>2. /\ tick[r] \in [day : Days, due : BOOLEAN] /\ tick[r].day \in Days
          /\ doc \in Document /\ doc.batch \in Batch \cup {None} /\ b \in Batch
      BY BatchForTyped DEF TypeOK, Document
    <2>3. d.batch.date = b.date /\ d.batch.synced = b.synced /\ ~d.batch.completed
      BY <2>2, ClaimedTyped
    <2>4. /\ copy'[r] = d /\ fresh'[r]
          /\ \A s \in Runners \ {r} : copy'[s] = copy[s] /\ fresh'[s] = fresh[s]
      BY <2>1, LoadTyped
    <2>5. pc'[r] = "claim" /\ \A s \in Runners \ {r} : pc'[s] = pc[s]
      BY <2>1, GotoTyped DEF Places
    <2>6. \/ OtherBatch(doc, d)
          \/ SameBatch(doc, d) /\ (doc.batch.completed => ~Covers(doc.batch, doc.keys))
      <3>1. CASE Replaces(doc.batch, tick[r])
        <4>1. b = NewBatch(tick[r].day)
          BY <3>1 DEF BatchFor
        <4>2. \A a \in Accounts : d.batch.synced[a] = None
          BY <2>3, <4>1 DEF NewBatch
        <4>3. doc.batch # None => d.batch.date # doc.batch.date
          BY <2>2, <2>3, <3>1, <4>1, NewBatchTyped DEF Replaces
        <4>4. QED
          BY <4>2, <4>3 DEF OtherBatch
      <3>2. CASE ~Replaces(doc.batch, tick[r])
        <4>1. b = doc.batch /\ doc.batch # None
          BY <3>2 DEF BatchFor, Replaces
        <4>2. ~Idle(r)
          BY <1>2, IdleTyped
        <4>3. ~(b.completed /\ AllSynced(doc, b))
          BY <4>2 DEF LoadBatch
        <4>4. doc.batch.completed => ~Covers(doc.batch, doc.keys)
          BY <4>1, <4>3 DEF AllSynced, Eligible, Covers
        <4>5. QED
          BY <2>3, <4>1, <4>4 DEF SameBatch
      <3>3. QED
        BY <3>1, <3>2
    <2>7. doc' = doc /\ snapshots' = snapshots
      BY DEF LoadBatch
    <2>8. MarkOK(r)'
      BY <2>3, <2>4, <2>5, <2>6, <2>7 DEF MarkOK, Working, OtherBatch, SameBatch, Covers
    <2>9. \A s \in Runners \ {r} : LeaseStill(s)
      BY <2>1, <2>4, <2>5 DEF LeaseStill
    <2>10. QED
      BY <2>7, <2>8, <2>9, QuietMarks
  <1>3. QED
    BY <1>1, <1>2

(* A save of r, after which it holds nothing. *)
LEMMA SaveMarks ==
  ASSUME TypeInv, LeaseInv, MarkInv, NEW r \in Runners, Save(r), snapshots' = snapshots,
         pc[r] \in Working \/ pc[r] = "claim", pc'[r] \in {"idle", "loop"},
         \A s \in Runners \ {r} : pc'[s] = pc[s] /\ date'[s] = date[s],
         pc'[r] = "loop" => ~copy[r].batch.completed
  PROVE  MarkInv'
  <1>1. /\ doc' = copy[r] /\ fresh[r] /\ \A s \in Runners : ~fresh'[s]
        /\ \A s \in Runners \ {r} : copy'[s] = copy[s]
    BY SaveTyped DEF TypeInv, Save, Current
  <1>2. MarkOK(r)'
    BY <1>1, PlainMarks DEF Working
  <1>3. QED
    BY <1>1, <1>2, AloneMarks DEF LeaseStill

LEMMA ClaimMarks ==
  ASSUME TypeInv, LeaseInv, MarkInv, NEW r \in Runners, Claim(r) PROVE MarkInv'
  <1>1. pc'[r] = "loop" /\ \A s \in Runners \ {r} : pc'[s] = pc[s]
    BY GotoTyped DEF Claim, Places, Working, TypeInv
  <1>2. ~copy[r].batch.completed
    BY DEF Claim, MarkInv, MarkOK
  <1>3. \A s \in Runners \ {r} : date'[s] = date[s]
    BY DEF Claim, TypeInv, TypeOK
  <1>4. QED
    BY <1>1, <1>2, <1>3, SaveMarks DEF Claim

LEMMA SaveProgressMarks ==
  ASSUME TypeInv, LeaseInv, MarkInv, NEW r \in Runners, SaveProgress(r) PROVE MarkInv'
  <1>1. pc'[r] = "loop" /\ date' = date /\ \A s \in Runners \ {r} : pc'[s] = pc[s]
    BY NextTyped DEF SaveProgress, TypeInv
  <1>2. ~copy[r].batch.completed
    BY DEF SaveProgress, MarkInv, MarkOK
  <1>3. QED
    BY <1>1, <1>2, SaveMarks DEF SaveProgress, Working

LEMMA SaveEndMarks ==
  ASSUME TypeInv, LeaseInv, MarkInv, NEW r \in Runners, pc[r] \in Working, SaveEnd(r)
  PROVE  MarkInv'
  <1>1. pc'[r] = "idle" /\ \A s \in Runners \ {r} : pc'[s] = pc[s] /\ date'[s] = date[s]
    BY IdleTyped DEF SaveEnd, TypeInv
  <1>2. QED
    BY <1>1, SaveMarks DEF SaveEnd

LEMMA GivesUpMarks ==
  ASSUME TypeInv, MarkInv, NEW r \in Runners, Idle(r), Drop(r), UNCHANGED <<doc, snapshots>>
  PROVE  MarkInv'
  <1>1. \A s \in Runners \ {r} : LeaseStill(s)
    BY IdleTyped, DropTyped DEF LeaseStill, TypeInv
  <1>2. pc'[r] = "idle"
    BY IdleTyped DEF TypeInv
  <1>3. MarkOK(r)'
    BY <1>2, PlainMarks DEF Working
  <1>4. QED
    BY <1>1, <1>3, QuietMarks

(* A runner at work that goes on, with the stored batch as it is. *)
LEMMA OnMarks ==
  ASSUME LeaseInv, MarkInv, NEW r \in Runners, pc[r] \in Working, doc'.batch = doc.batch,
         \A s \in Runners \ {r} : LeaseStill(s) /\ (fresh'[s] => doc' = doc),
         pc'[r] \notin {"claim", "progressSave", "releaseSave", "capture", "complete"}
  PROVE  MarkInv'
  <1>1. ~doc'.batch.completed
    BY DEF MarkInv, MarkOK
  <1>2. MarkOK(r)'
    BY <1>1, PlainMarks
  <1>3. QED
    BY <1>2, AloneMarks

LEMMA ImportMarks ==
  ASSUME TypeInv, LeaseInv, MarkInv, NEW r \in Runners, NEW outcome \in {"whole", "deferred"},
         Import(r, outcome)
  PROVE  MarkInv'
  <1>1. at[r] \in Accounts
    BY DEF Import, TypeInv, RunnerOK
  <1>2. doc'.batch = doc.batch /\ copy' = copy /\ \A s \in Runners : ~fresh'[s]
    BY <1>1, AttemptTyped DEF Import, TypeInv
  <1>3. pc'[r] = "progressLoad" /\ \A s \in Runners \ {r} : pc'[s] = pc[s]
    BY GotoTyped DEF Import, Places, Working, TypeInv
  <1>4. QED
    BY <1>2, <1>3, OnMarks DEF Import, LeaseStill, Working

LEMMA ImportFailsMarks ==
  ASSUME TypeInv, LeaseInv, MarkInv, NEW r \in Runners, ImportFails(r) PROVE MarkInv'
  <1>1. /\ doc'.batch = doc.batch /\ copy' = copy
        /\ \A s \in Runners : fresh'[s] => fresh[s] /\ doc' = doc
    <2>1. CASE Attempt(at[r], "failed")
      BY <2>1, AttemptTyped DEF ImportFails, TypeInv, RunnerOK
    <2>2. CASE UNCHANGED <<doc, copyVars, partial>>
      BY <2>2 DEF copyVars
    <2>3. QED
      BY <2>1, <2>2 DEF ImportFails
  <1>2. pc'[r] = "loop" /\ date' = date /\ \A s \in Runners \ {r} : pc'[s] = pc[s]
    BY NextTyped DEF ImportFails, TypeInv
  <1>3. QED
    BY <1>1, <1>2, OnMarks DEF ImportFails, LeaseStill, Working

LEMMA LoadProgressMarks ==
  ASSUME TypeInv, LeaseInv, MarkInv, NEW r \in Runners, LoadProgress(r) PROVE MarkInv'
  <1>0. pc[r] \in Working /\ doc' = doc /\ snapshots' = snapshots
    BY DEF LoadProgress, Working
  <1>1. CASE pc'[r] = "loop"
    <2>1. NextAccount(r) /\ UNCHANGED copyVars
      BY <1>1, GotoTyped DEF LoadProgress, Places, Working, TypeInv
    <2>2. pc'[r] = "loop" /\ date' = date /\ \A s \in Runners \ {r} : pc'[s] = pc[s]
      BY <2>1, NextTyped DEF TypeInv
    <2>3. QED
      BY <1>0, <2>1, <2>2, OnMarks DEF copyVars, LeaseStill
  <1>2. CASE pc'[r] # "loop"
    <2> DEFINE d == ProgressOf(doc, at[r], eligible[r][at[r]])
    <2>1. /\ d \in Document /\ Load(r, d) /\ Goto(r, "progressSave")
          /\ at[r] \in Accounts /\ eligible[r][at[r]] \in Keys
          /\ doc.batch \in Batch /\ UNCHANGED date
      BY <1>2, ToProgress
    <2>2. ~d.batch.completed
      <3>1. doc \in Document /\ ~doc.batch.completed
        BY <1>0 DEF TypeInv, TypeOK, MarkInv, MarkOK
      <3>2. d.batch.completed = doc.batch.completed
        BY <2>1, <3>1, ProgressTyped
      <3>3. QED
        BY <3>1, <3>2
    <2>3. copy'[r] = d /\ \A s \in Runners \ {r} : copy'[s] = copy[s] /\ fresh'[s] = fresh[s]
      BY <2>1, LoadTyped DEF TypeInv
    <2>4. pc'[r] = "progressSave" /\ \A s \in Runners \ {r} : pc'[s] = pc[s]
      BY <2>1, GotoTyped DEF Places, Working, TypeInv
    <2>5. MarkOK(r)'
      BY <1>0, <2>2, <2>3, <2>4 DEF MarkInv, MarkOK
    <2>6. QED
      BY <1>0, <2>1, <2>3, <2>4, <2>5, QuietMarks DEF LeaseStill
  <1>3. QED
    BY <1>1, <1>2

LEMMA StartCaptureMarks ==
  ASSUME TypeInv, MarkInv, NEW r \in Runners, StartCapture(r) PROVE MarkInv'
  <1>1. pc[r] \in Working /\ UNCHANGED <<doc, snapshots, date>> /\ Load(r, doc)
    BY DEF StartCapture, Working
  <1>2. doc \in Document /\ doc.batch \in Batch
    BY <1>1, AtWork
  <1>3. copy'[r] = doc /\ \A s \in Runners \ {r} : copy'[s] = copy[s] /\ fresh'[s] = fresh[s]
    BY <1>1, <1>2, LoadTyped DEF TypeInv
  <1>4. pc'[r] = "capture" /\ \A s \in Runners \ {r} : pc'[s] = pc[s]
    BY GotoTyped DEF StartCapture, Places, Working, TypeInv
  <1>5. Covers(doc.batch, doc.keys)
    BY DEF StartCapture, Publishable, AllSynced, Eligible, Covers
  <1>6. MarkOK(r)'
    BY <1>1, <1>2, <1>3, <1>4, <1>5, NotNone DEF MarkInv, MarkOK, Covers, SameBatch
  <1>7. QED
    BY <1>1, <1>3, <1>4, <1>6, QuietMarks DEF LeaseStill

LEMMA CaptureMarks ==
  ASSUME TypeInv, LeaseInv, MarkInv, NEW r \in Runners, Capture(r) PROVE MarkInv'
  <1>1. /\ copy[r] \in Document /\ copy[r].batch \in Batch
        /\ copy'[r] = EndedOf(copy[r]) /\ fresh' = fresh
        /\ \A s \in Runners \ {r} : copy'[s] = copy[s]
    BY Marked
  <1>2. /\ copy'[r].keys = copy[r].keys /\ copy'[r].batch.date = copy[r].batch.date
        /\ copy'[r].batch.synced = copy[r].batch.synced
    BY <1>1, EndedTyped
  <1>3. pc[r] \in Working /\ pc[r] = "capture" /\ doc' = doc /\ date' = date /\ date[r] \in Days
    BY DEF Capture, Working, TypeInv, RunnerOK
  <1>4. pc'[r] = "complete" /\ \A s \in Runners \ {r} : pc'[s] = pc[s]
    BY GotoTyped DEF Capture, Places, Working, TypeInv
  <1>5. snapshots'[date[r]] = copy[r].keys
    BY <1>3 DEF Capture, TypeInv, TypeOK
  <1>6. MarkOK(r)'
    BY <1>1, <1>2, <1>3, <1>4, <1>5 DEF MarkInv, MarkOK, Covers, SameBatch
  <1>7. QED
    BY <1>1, <1>3, <1>4, <1>6, AloneMarks DEF LeaseStill

(* The stored batch, loaded to be given back. *)
LEMMA BackMarks ==
  ASSUME TypeInv, MarkInv, NEW r \in Runners, Withhold(r) \/ ReleaseLoad(r) PROVE MarkInv'
  <1>1. /\ pc[r] \in Working /\ UNCHANGED <<doc, snapshots, date>> /\ Load(r, RetriedOf(doc))
        /\ \E l \in {"complete", "releaseSave"} : Goto(r, l)
    BY DEF Withhold, ReleaseLoad, RetriedOf, Working
  <1>2. doc \in Document /\ doc.batch \in Batch /\ RetriedOf(doc) \in Document
        /\ RetriedOf(doc).batch.completed = doc.batch.completed
        /\ SameBatch(doc, RetriedOf(doc))
    BY <1>1, AtWork, RetriedTyped, NotNone DEF SameBatch
  <1>3. /\ copy'[r] = RetriedOf(doc)
        /\ \A s \in Runners \ {r} : copy'[s] = copy[s] /\ fresh'[s] = fresh[s]
    BY <1>1, <1>2, LoadTyped DEF TypeInv
  <1>4. pc'[r] \in {"complete", "releaseSave"} /\ \A s \in Runners \ {r} : pc'[s] = pc[s]
    BY <1>1, GotoTyped DEF Places, Working, TypeInv
  <1>5. ~doc.batch.completed
    BY <1>1 DEF MarkInv, MarkOK
  <1>6. MarkOK(r)'
    BY <1>1, <1>2, <1>3, <1>4, <1>5 DEF MarkOK, SameBatch
  <1>7. QED
    BY <1>1, <1>3, <1>4, <1>6, QuietMarks DEF LeaseStill

LEMMA RunMarks ==
  ASSUME TypeInv, LeaseInv, MarkInv, NEW r \in Runners, Run(r) PROVE MarkInv'
  <1>1. CASE Tick(r)
    <2>1. pc'[r] = "load" /\ \A s \in Runners \ {r} : pc'[s] = pc[s]
      BY <1>1, GotoTyped DEF Tick, Places, TypeInv
    <2>2. MarkOK(r)'
      BY <2>1, PlainMarks DEF Working
    <2>3. QED
      BY <1>1, <2>1, <2>2, QuietMarks DEF Tick, copyVars, LeaseStill
  <1>2. CASE ClaimFails(r) \/ ReleaseFails(r)
    BY <1>2, GivesUpMarks DEF ClaimFails, ReleaseFails
  <1>3. ASSUME NEW a \in Accounts, SkipAccount(r, a) PROVE MarkInv'
    BY <1>3, OnMarks DEF SkipAccount, copyVars, LeaseStill, Working
  <1>4. ASSUME NEW a \in Accounts, VisitAccount(r, a) PROVE MarkInv'
    <2>1. pc'[r] = "sync" /\ \A s \in Runners \ {r} : pc'[s] = pc[s]
      BY <1>4, GotoTyped DEF VisitAccount, Places, Working, TypeInv
    <2>2. QED
      BY <1>4, <2>1, OnMarks DEF VisitAccount, copyVars, LeaseStill, Working
  <1>5. CASE ProgressFails(r)
    <2>1. pc'[r] = "loop" /\ date' = date /\ \A s \in Runners \ {r} : pc'[s] = pc[s]
      BY <1>5, NextTyped DEF ProgressFails, TypeInv
    <2>2. \A s \in Runners \ {r} : copy'[s] = copy[s] /\ fresh'[s] = fresh[s]
      BY <1>5, DropTyped DEF ProgressFails, TypeInv
    <2>3. QED
      BY <1>5, <2>1, <2>2, OnMarks DEF ProgressFails, LeaseStill, Working
  <1>6. CASE CaptureFails(r) \/ CompleteFails(r)
    <2>1. pc'[r] = "releaseLoad" /\ \A s \in Runners \ {r} : pc'[s] = pc[s]
      BY <1>6, GotoTyped DEF CaptureFails, CompleteFails, Places, Working, TypeInv
    <2>2. \A s \in Runners \ {r} : copy'[s] = copy[s] /\ fresh'[s] = fresh[s]
      BY <1>6, DropTyped DEF CaptureFails, CompleteFails, TypeInv
    <2>3. QED
      BY <1>6, <2>1, <2>2, OnMarks DEF CaptureFails, CompleteFails, LeaseStill, Working
  <1>7. CASE Complete(r) \/ Release(r)
    BY <1>7, SaveEndMarks DEF Complete, Release, Working
  <1>8. QED
    BY <1>1, <1>2, <1>3, <1>4, <1>5, <1>6, <1>7, LoadBatchMarks, ClaimMarks, ImportMarks,
       ImportFailsMarks, LoadProgressMarks, SaveProgressMarks, StartCaptureMarks, CaptureMarks,
       BackMarks DEF Run

LEMMA StepMarks == TypeInv /\ LeaseInv /\ MarkInv /\ [Next]_vars => MarkInv'
  <1> SUFFICES ASSUME TypeInv, LeaseInv, MarkInv, [Next]_vars PROVE MarkInv'
    OBVIOUS
  <1>1. ASSUME doc'.batch = doc.batch, UNCHANGED <<snapshots, runVars, copy>>,
               \A s \in Runners : fresh'[s] => fresh[s] /\ doc' = doc
        PROVE  MarkInv'
    BY <1>1, OtherMarks DEF MarkInv, LeaseStill, runVars
  <1>2. CASE ExpireLease \/ RetryPasses \/ Clock
    BY <1>1, <1>2 DEF ExpireLease, RetryPasses, Clock, copyVars
  <1>3. ASSUME NEW a \in Accounts, NEW k \in Keys \cup {None}, EditAccount(a, k) PROVE MarkInv'
    <2>1. doc'.batch = doc.batch /\ \A s \in Runners : ~fresh'[s]
      BY <1>3 DEF EditAccount, TypeInv, TypeOK, Document
    <2>2. QED
      BY <1>1, <1>3, <2>1 DEF EditAccount
  <1>4. ASSUME NEW a \in Accounts, NEW outcome \in {"whole", "deferred", "failed"},
               OtherSync(a, outcome)
        PROVE  MarkInv'
    <2>1. doc'.batch = doc.batch /\ copy' = copy /\ \A s \in Runners : ~fresh'[s]
      BY <1>4, AttemptTyped DEF OtherSync, TypeInv
    <2>2. QED
      BY <1>1, <1>4, <2>1 DEF OtherSync
  <1>5. ASSUME NEW r \in Runners, Crash(r) PROVE MarkInv'
    BY <1>5, GivesUpMarks DEF Crash
  <1>6. CASE UNCHANGED vars
    BY <1>1, <1>6 DEF vars, copyVars
  <1>7. QED
    BY <1>2, <1>3, <1>4, <1>5, <1>6, RunMarks DEF Next, Environment

LEMMA InitMarks == Init => MarkInv
  BY DEF Init, MarkInv, MarkOK, Working

-----------------------------------------------------------------------------
(* The files of the snapshots.                                               *)

LEMMA FilesStay ==
  ASSUME SnapshotImported, snapshots' = snapshots, imported \subseteq imported'
  PROVE  SnapshotImported'
  BY DEF SnapshotImported

(* What is written was recorded when its prices were asked for, what is       *)
(* recorded was imported, and the lease keeps the batch of the date in place. *)
LEMMA CaptureImported ==
  ASSUME TypeInv, ImportInv, LeaseInv, MarkInv, SnapshotImported, NEW r \in Runners, Capture(r)
  PROVE  SnapshotImported'
  <1>1. /\ date[r] \in Days /\ imported' = imported
        /\ snapshots' = [snapshots EXCEPT ![date[r]] = copy[r].keys]
    BY DEF Capture, ghostVars, TypeInv, RunnerOK, Working
  <1>2. doc.batch # None /\ doc.batch.date = date[r] /\ Covers(doc.batch, copy[r].keys)
    BY DEF Capture, LeaseInv, LeaseOK, Leased, Working, MarkInv, MarkOK
  <1>3. /\ \E a \in Accounts : copy[r].keys[a] # None
        /\ \A a \in Accounts : copy[r].keys[a] # None
                              => <<date[r], a, copy[r].keys[a]>> \in imported
    BY <1>2 DEF Covers, ImportInv, Recorded
  <1>4. ASSUME NEW d \in Days, snapshots'[d] # None
        PROVE  /\ \E a \in Accounts : snapshots'[d][a] # None
               /\ \A a \in Accounts : snapshots'[d][a] # None
                                     => <<d, a, snapshots'[d][a]>> \in imported'
    <2>1. CASE d = date[r]
      <3>1. snapshots'[d] = copy[r].keys
        BY <1>1, <2>1 DEF TypeInv, TypeOK
      <3>2. QED
        BY <1>1, <1>3, <2>1, <3>1
    <2>2. CASE d # date[r]
      <3>1. snapshots'[d] = snapshots[d]
        BY <1>1, <2>2 DEF TypeInv, TypeOK
      <3>2. QED
        BY <1>1, <1>4, <3>1 DEF SnapshotImported
    <2>3. QED
      BY <2>1, <2>2
  <1>5. QED
    BY <1>4 DEF SnapshotImported

LEMMA StepImported ==
  TypeInv /\ ImportInv /\ LeaseInv /\ MarkInv /\ SnapshotImported /\ [Next]_vars
    => SnapshotImported'
  <1> SUFFICES ASSUME TypeInv, ImportInv, LeaseInv, MarkInv, SnapshotImported, [Next]_vars
               PROVE  SnapshotImported'
    OBVIOUS
  <1>1. imported \subseteq imported'
    BY StepEffects DEF Effects
  <1>2. CASE \E r \in Runners : Capture(r)
    BY <1>2, CaptureImported
  <1>3. CASE ~\E r \in Runners : Capture(r)
    <2>1. snapshots' = snapshots
      BY <1>3 DEF Next, Run, Environment, vars, Tick, LoadBatch, Claim, ClaimFails, SkipAccount,
             VisitAccount, Import, ImportFails, LoadProgress, SaveProgress, ProgressFails,
             StartCapture, CaptureFails, Withhold, Complete, CompleteFails, ReleaseLoad, Release,
             ReleaseFails, SaveEnd, ExpireLease, RetryPasses, Clock, EditAccount, OtherSync, Crash
    <2>2. QED
      BY <1>1, <2>1, FilesStay
  <1>4. QED
    BY <1>2, <1>3

(* The file of a date is of connections each of which was imported by that   *)
(* date's batch under the identity the file gives it, whatever is edited     *)
(* while a run imports and while its snapshot is calculated                  *)
(* (SnapshotImported).                                                       *)
THEOREM FilesWereImported == LeaseOutlives => (Spec => []SnapshotImported)
  <1>1. ASSUME LeaseOutlives PROVE Spec => []SnapshotImported
    <2>1. TypeInv /\ LeaseInv /\ [Next]_vars => LeaseInv'
      BY <1>1, StepLease
    <2>2. Init => ImportInv /\ SnapshotImported
      BY InitProgress DEF Init, SnapshotImported
    <2>3. QED
      BY <2>1, <2>2, InitTypes, StepTypes, StepImports, InitLease, InitMarks, StepMarks,
         StepImported, PTL DEF Spec
  <1>2. QED
    BY <1>1

-----------------------------------------------------------------------------
(* The daily batch implements the published day.                             *)

(* A copy that may still be saved has the stored connections, and its batch  *)
(* is the stored one, another one, or the stored one with a true record.     *)
TrueRecord(d, e, done) ==
  \E a \in Accounts, k \in Keys :
    OneMore(d, e, d.batch.date, a, k) /\ <<d.batch.date, a, k>> \in done

FreshOK(d, e, done) ==
  /\ e.keys = d.keys
  /\ SameBatch(d, e) \/ OtherBatch(d, e) \/ TrueRecord(d, e, done)

FreshInv == \A s \in Runners : fresh[s] => FreshOK(doc, copy[s], imported)

LEMMA FreshGrows ==
  ASSUME NEW d, NEW e, NEW done, NEW more, done \subseteq more, FreshOK(d, e, done)
  PROVE  FreshOK(d, e, more)
  BY DEF FreshOK, TrueRecord

LEMMA StepFresh == TypeInv /\ ImportInv /\ FreshInv /\ [Next]_vars => FreshInv'
  <1> SUFFICES ASSUME TypeInv, ImportInv, FreshInv, [Next]_vars, NEW s \in Runners, fresh'[s]
               PROVE  FreshOK(doc', copy'[s], imported')
    BY DEF FreshInv
  <1>1. Effects /\ imported \subseteq imported'
    BY StepEffects DEF Effects
  <1>2. CASE Rests(s)
    BY <1>1, <1>2, FreshGrows DEF Rests, FreshInv
  <1>3. CASE Loads(s)
    <2>1. CASE SameBatch(doc, copy'[s]) \/ OtherBatch(doc, copy'[s])
      BY <1>3, <2>1 DEF Loads, FreshOK
    <2>2. CASE /\ pc[s] = "progressLoad"
               /\ OneMore(doc, copy'[s], date[s], at[s], eligible[s][at[s]])
      <3>1. <<date[s], at[s], eligible[s][at[s]]>> \in imported
        BY <2>2 DEF ImportInv
      <3>2. TrueRecord(doc, copy'[s], imported)
        BY <2>2, <3>1 DEF TrueRecord, OneMore
      <3>3. QED
        BY <1>1, <1>3, <3>2, FreshGrows DEF Loads, FreshOK
    <2>3. QED
      BY <1>3, <2>1, <2>2 DEF Loads
  <1>4. CASE Amends(s)
    <2>1. FreshOK(doc, copy'[s], imported)
      BY <1>4 DEF Amends, FreshInv, FreshOK, SameBatch, OtherBatch, TrueRecord, OneMore
    <2>2. QED
      BY <1>1, <1>4, <2>1, FreshGrows DEF Amends
  <1>5. QED
    BY <1>1, <1>2, <1>3, <1>4 DEF Effects

LEMMA InitFresh == Init => FreshInv
  BY DEF Init, FreshInv

(* What the abstract batch sees changes only with the connections, with the  *)
(* date and the progress of the stored batch, with an import or a snapshot.  *)
LEMMA Unseen ==
  ASSUME doc'.keys = doc.keys, doc'.batch = doc.batch, UNCHANGED <<imported, snapshots>>
  PROVE  UNCHANGED Day!vars
  BY DEF Day!vars, BatchDate, Progress, Completed

(* A save that completes nothing and reopens nothing. *)
LEMMA ProgressDay ==
  ASSUME TypeInv, FreshInv, NEW r \in Runners, Save(r), UNCHANGED <<imported, snapshots>>,
         ~copy[r].batch.completed, Completed => OtherBatch(doc, copy[r])
  PROVE  [Day!Next]_(Day!vars)
  <1>1. /\ doc' = copy[r] /\ fresh[r] /\ copy[r] \in Document /\ copy[r].batch \in Batch
        /\ copy[r].batch # None
    BY SaveTyped, NotNone DEF TypeInv, Save, Current
  <1>2. doc'.keys = doc.keys /\ UNCHANGED <<imported, snapshots>> /\ Completed' = FALSE
    BY <1>1 DEF FreshInv, FreshOK, Completed
  <1>3. BatchDate' = copy[r].batch.date /\ Progress' = copy[r].batch.synced
    BY <1>1 DEF BatchDate, Progress
  <1>4. CASE OtherBatch(doc, copy[r])
    <2>1. Progress' = [a \in Accounts |-> None]
      BY <1>1, <1>3, <1>4 DEF OtherBatch, Batch
    <2>2. BatchDate' \in Days \ {BatchDate}
      BY <1>1, <1>3, <1>4, BoundAssumption DEF OtherBatch, Batch, BatchDate, Days
    <2>3. QED
      BY <1>2, <2>1, <2>2 DEF Day!Next, Day!Begin
  <1>5. CASE Completed = FALSE /\ SameBatch(doc, copy[r])
    BY <1>2, <1>3, <1>5 DEF SameBatch, BatchDate, Progress, Day!vars
  <1>6. CASE Completed = FALSE /\ TrueRecord(doc, copy[r], imported)
    <2>1. PICK a \in Accounts, k \in Keys :
            OneMore(doc, copy[r], doc.batch.date, a, k) /\ <<doc.batch.date, a, k>> \in imported
      BY <1>6 DEF TrueRecord
    <2>2. doc.batch # None
      BY <2>1, NotNone DEF OneMore
    <2>3. /\ BatchDate = doc.batch.date /\ BatchDate' = BatchDate
          /\ Progress' = [Progress EXCEPT ![a] = k]
      BY <1>3, <2>1, <2>2 DEF OneMore, BatchDate, Progress
    <2>4. Day!Record
      BY <1>2, <1>6, <2>1, <2>3 DEF Day!Record
    <2>5. QED
      BY <2>4 DEF Day!Next
  <1>7. Completed \in BOOLEAN
    BY BatchPart DEF TypeInv, TypeOK, Completed, Batch
  <1>8. QED
    BY <1>1, <1>4, <1>5, <1>6, <1>7 DEF FreshInv, FreshOK

LEMMA ClaimDay ==
  ASSUME TypeInv, FreshInv, MarkInv, NEW r \in Runners, Claim(r)
  PROVE  [Day!Next]_(Day!vars)
  <1>1. /\ doc' = copy[r] /\ fresh[r] /\ copy[r] \in Document /\ copy[r].batch \in Batch
        /\ copy[r].batch # None /\ UNCHANGED <<imported, snapshots>> /\ Save(r)
    BY SaveTyped, NotNone DEF TypeInv, Claim, Save, Current
  <1>2. /\ ~copy[r].batch.completed
        /\ \/ OtherBatch(doc, copy[r])
           \/ SameBatch(doc, copy[r]) /\ (doc.batch.completed => ~Covers(doc.batch, doc.keys))
    BY <1>1 DEF Claim, MarkInv, MarkOK
  <1>3. CASE OtherBatch(doc, copy[r]) \/ ~Completed
    BY <1>1, <1>2, <1>3, ProgressDay
  <1>4. CASE SameBatch(doc, copy[r]) /\ Completed
    <2>1. /\ doc'.keys = doc.keys /\ BatchDate' = BatchDate /\ Progress' = Progress
          /\ Progress = doc.batch.synced
      BY <1>1, <1>4 DEF FreshInv, FreshOK, SameBatch, BatchDate, Progress
    <2>2. ~Day!In(doc.keys)
      BY <1>2, <1>4, <2>1 DEF Completed, OtherBatch, SameBatch, Covers, Day!In
    <2>3. Completed' = FALSE /\ Completed = TRUE
      BY <1>1, <1>2, <1>4, BatchPart DEF Completed, TypeInv, TypeOK, Batch
    <2>4. QED
      BY <1>1, <2>1, <2>2, <2>3 DEF Day!Next, Day!Reopen
  <1>5. QED
    BY <1>2, <1>3, <1>4

LEMMA CompleteDay ==
  ASSUME TypeInv, LeaseInv, FreshInv, MarkInv, NEW r \in Runners, Complete(r)
  PROVE  [Day!Next]_(Day!vars)
  <1>1. /\ doc' = copy[r] /\ fresh[r] /\ copy[r] \in Document /\ copy[r].batch \in Batch
        /\ copy[r].batch # None /\ UNCHANGED <<imported, snapshots>> /\ Save(r)
        /\ pc[r] = "complete"
    BY SaveTyped, NotNone DEF TypeInv, Complete, SaveEnd, Save, Current
  <1>2. /\ doc.batch # None /\ doc.batch \in Batch /\ doc.batch.date = date[r]
        /\ ~doc.batch.completed
    BY <1>1, AtWork DEF LeaseInv, LeaseOK, Leased, Working, MarkInv, MarkOK
  <1>3. CASE ~copy[r].batch.completed
    BY <1>1, <1>2, <1>3, ProgressDay DEF Completed
  <1>4. CASE copy[r].batch.completed
    <2>1. /\ SameBatch(doc, copy[r]) /\ Covers(doc.batch, copy[r].keys)
          /\ snapshots[date[r]] = copy[r].keys
      BY <1>1, <1>4 DEF MarkInv, MarkOK
    <2>2. doc'.keys = doc.keys /\ copy[r].keys = doc.keys
      BY <1>1 DEF FreshInv, FreshOK
    <2>3. /\ BatchDate = date[r] /\ BatchDate' = BatchDate /\ Progress' = Progress
          /\ Progress = doc.batch.synced
      BY <1>1, <1>2, <2>1 DEF SameBatch, BatchDate, Progress
    <2>4. Day!In(doc.keys)
      BY <2>1, <2>2, <2>3 DEF Covers, Day!In
    <2>5. ~Completed /\ Completed' = TRUE
      BY <1>1, <1>2, <1>4 DEF Completed, Batch
    <2>6. Day!Complete
      BY <1>1, <2>1, <2>2, <2>3, <2>4, <2>5 DEF Day!Complete
    <2>7. QED
      BY <2>6 DEF Day!Next
  <1>5. QED
    BY <1>3, <1>4

LEMMA ImportDay ==
  ASSUME TypeInv, LeaseInv, NEW r \in Runners, NEW outcome \in {"whole", "deferred"},
         Import(r, outcome)
  PROVE  Day!Import
  <1>1. /\ at[r] \in Accounts /\ eligible[r][at[r]] # None
        /\ doc.keys[at[r]] = eligible[r][at[r]]
    BY DEF Import, TypeInv, RunnerOK
  <1>2. doc.batch # None /\ doc.batch.date = date[r] /\ date[r] \in Days
    BY DEF Import, TypeInv, RunnerOK, LeaseInv, LeaseOK, Working
  <1>3. doc'.keys = doc.keys /\ doc'.batch = doc.batch /\ snapshots' = snapshots
    BY <1>1, AttemptTyped DEF Import, TypeInv
  <1>4. UNCHANGED <<doc.keys, BatchDate, Progress, Completed, snapshots>> /\ BatchDate = date[r]
    BY <1>2, <1>3 DEF BatchDate, Progress, Completed
  <1>5. imported' = imported \cup {<<BatchDate, at[r], doc.keys[at[r]]>>}
    BY <1>1, <1>4 DEF Import
  <1>6. QED
    BY <1>1, <1>2, <1>4, <1>5 DEF Day!Import

LEMMA PublishDay ==
  ASSUME TypeInv, LeaseInv, MarkInv, NEW r \in Runners, Capture(r)
  PROVE  Day!Publish
  <1>1. /\ snapshots' = [snapshots EXCEPT ![date[r]] = copy[r].keys]
        /\ UNCHANGED <<doc, imported>> /\ pc[r] = "capture"
        /\ copy[r].keys \in [Accounts -> Keys \cup {None}]
    BY Marked DEF Capture, ghostVars, Document
  <1>2. doc.batch # None /\ doc.batch.date = date[r]
    BY <1>1 DEF LeaseInv, LeaseOK, Leased, Working
  <1>3. Covers(doc.batch, copy[r].keys) /\ ~doc.batch.completed
    BY <1>1 DEF MarkInv, MarkOK, Working
  <1>4. BatchDate = date[r] /\ Progress = doc.batch.synced /\ ~Completed
    BY <1>2, <1>3 DEF BatchDate, Progress, Completed
  <1>5. UNCHANGED <<doc.keys, BatchDate, Progress, Completed, imported>>
    BY <1>1 DEF BatchDate, Progress, Completed
  <1>6. Day!In(copy[r].keys)
    BY <1>3, <1>4 DEF Covers, Day!In
  <1>7. snapshots' = [snapshots EXCEPT ![BatchDate] = copy[r].keys]
    BY <1>1, <1>4
  <1>8. QED
    BY <1>1, <1>4, <1>5, <1>6, <1>7 DEF Day!Publish

LEMMA EditDay ==
  ASSUME TypeInv, NEW a \in Accounts, NEW k \in Keys \cup {None}, EditAccount(a, k)
  PROVE  Day!Edit
  <1>1. /\ doc'.keys = [doc.keys EXCEPT ![a] = k] /\ doc'.batch = doc.batch
        /\ UNCHANGED <<imported, snapshots>>
    BY DEF EditAccount, TypeInv, TypeOK, Document, ghostVars
  <1>2. UNCHANGED <<BatchDate, Progress, Completed, imported, snapshots>>
    BY <1>1 DEF BatchDate, Progress, Completed
  <1>3. QED
    BY <1>1, <1>2 DEF Day!Edit

LEMMA RunDay ==
  ASSUME TypeInv, LeaseInv, FreshInv, MarkInv, NEW r \in Runners, Run(r)
  PROVE  [Day!Next]_(Day!vars)
  <1>1. CASE \/ Tick(r) \/ LoadBatch(r) \/ ClaimFails(r) \/ LoadProgress(r) \/ ProgressFails(r)
             \/ StartCapture(r) \/ CaptureFails(r) \/ Withhold(r) \/ CompleteFails(r)
             \/ ReleaseLoad(r) \/ ReleaseFails(r)
    <2>1. UNCHANGED <<doc, imported, snapshots>>
      BY <1>1 DEF Tick, LoadBatch, ClaimFails, LoadProgress, ProgressFails, StartCapture,
                  CaptureFails, Withhold, CompleteFails, ReleaseLoad, ReleaseFails, ghostVars
    <2>2. QED
      BY <2>1, Unseen
  <1>2. ASSUME NEW a \in Accounts, SkipAccount(r, a) \/ VisitAccount(r, a)
        PROVE  UNCHANGED Day!vars
    BY <1>2, Unseen DEF SkipAccount, VisitAccount, ghostVars
  <1>3. CASE SaveProgress(r) \/ Release(r)
    <2>1. ~copy[r].batch.completed /\ ~Completed
      BY <1>3 DEF SaveProgress, Release, MarkInv, MarkOK, Completed, Working
    <2>2. QED
      BY <1>3, <2>1, ProgressDay DEF SaveProgress, Release, SaveEnd, ghostVars
  <1>4. CASE ImportFails(r)
    <2>1. doc'.keys = doc.keys /\ doc'.batch = doc.batch
      BY <1>4, AttemptTyped DEF ImportFails, TypeInv, RunnerOK
    <2>2. QED
      BY <1>4, <2>1, Unseen DEF ImportFails
  <1>5. ASSUME NEW outcome \in {"whole", "deferred"}, Import(r, outcome) PROVE Day!Next
    BY <1>5, ImportDay DEF Day!Next
  <1>6. CASE Capture(r)
    BY <1>6, PublishDay DEF Day!Next
  <1>7. QED
    BY <1>1, <1>2, <1>3, <1>4, <1>5, <1>6, ClaimDay, CompleteDay DEF Run

LEMMA DayInit == Init => Day!Init
  <1> SUFFICES ASSUME Init PROVE Day!Init
    OBVIOUS
  <1>1. doc.keys \in [Accounts -> Keys] /\ doc.batch = None
    BY DEF Init
  <1>2. QED
    BY <1>1 DEF Init, Day!Init, BatchDate, Progress, Completed

LEMMA DayStep ==
  TypeInv /\ LeaseInv /\ FreshInv /\ MarkInv /\ [Next]_vars => [Day!Next]_(Day!vars)
  <1> SUFFICES ASSUME TypeInv, LeaseInv, FreshInv, MarkInv, [Next]_vars PROVE [Day!Next]_(Day!vars)
    OBVIOUS
  <1>1. CASE ExpireLease \/ RetryPasses \/ Clock
    BY <1>1, Unseen DEF ExpireLease, RetryPasses, Clock, ghostVars
  <1>2. ASSUME NEW a \in Accounts, NEW k \in Keys \cup {None}, EditAccount(a, k) PROVE Day!Next
    BY <1>2, EditDay DEF Day!Next
  <1>3. ASSUME NEW a \in Accounts, NEW outcome \in {"whole", "deferred", "failed"},
               OtherSync(a, outcome)
        PROVE  UNCHANGED Day!vars
    <2>1. doc'.keys = doc.keys /\ doc'.batch = doc.batch
      BY <1>3, AttemptTyped DEF OtherSync, TypeInv
    <2>2. QED
      BY <1>3, <2>1, Unseen DEF OtherSync
  <1>4. ASSUME NEW r \in Runners, Crash(r) PROVE UNCHANGED Day!vars
    BY <1>4, Unseen DEF Crash
  <1>5. CASE UNCHANGED vars
    BY <1>5, Unseen DEF vars, ghostVars
  <1>6. QED
    BY <1>1, <1>2, <1>3, <1>4, <1>5, RunDay DEF Next, Environment

(* As long as a run ends within its lease, all schedulers, edits, failures   *)
(* and crashes together are one batch: its files are of recorded connections,*)
(* it is completed only when the file is of all connections as they are at   *)
(* that moment, and it loses no progress (DayPublished).                     *)
THEOREM DayRefines == LeaseOutlives => (Spec => DayPublished)
  <1>1. ASSUME LeaseOutlives PROVE Spec => DayPublished
    <2>1. TypeInv /\ LeaseInv /\ [Next]_vars => LeaseInv'
      BY <1>1, StepLease
    <2>2. Init => ImportInv
      BY InitProgress
    <2>3. QED
      BY <2>1, <2>2, InitTypes, StepTypes, StepImports, InitLease, InitFresh, StepFresh,
         InitMarks, StepMarks, DayInit, DayStep, PTL DEF Spec, DayPublished, Day!Spec
  <1>2. QED
    BY <1>1
=============================================================================
