------------------------ MODULE InvestorBooks_proofs ------------------------
(* Proofs about InvestorBooks: types, the order of its two commits, and the *)
(* agreement of books and document.                                        *)
EXTENDS InvestorBooks, TLAPS

-----------------------------------------------------------------------------
(* Types.                                                                  *)

\* A writer that is at work has a job.
JobTypes == \A w \in Writers : pc[w] # "idle" => job[w] # None

TypeInv == TypeOK /\ JobTypes

LEMMA JobFields ==
    ASSUME NEW j \in Job
    PROVE  /\ j.kind \in {"edit", "post", "import"}
           /\ j.kind = "edit" => j.to \in Money
           /\ j.kind = "post" => j.by \in Deltas
           /\ j.kind = "import" => j.from \in Statement
BY DEF Job

LEMMA EmptyType == Empty \in Money
BY MoneyAssumption DEF Empty, Money

LEMMA SameMoney ==
    ASSUME NEW m \in Money, NEW n \in Money,
           m.cash = n.cash, m.holdings = n.holdings
    PROVE  m = n
BY DEF Money

LEMMA AppliedType ==
    ASSUME NEW m \in Money, NEW s \in Statement
    PROVE  /\ Applied(m, s) \in Money
           /\ Applied(m, s).cash = IF s.cash = None THEN m.cash ELSE s.cash
           /\ Applied(m, s).holdings = IF s.holdings = None THEN m.holdings ELSE s.holdings
BY DEF Applied, Money, Statement

LEMMA EndTypes ==
    ASSUME TypeInv, NEW w \in Writers, NEW p \in BOOLEAN, End(w, p),
           UNCHANGED <<doc, seeded>>, books' \in Money,
           lock' \in Writers \cup {None}, crashes' \in 0..MaxCrashes
    PROVE  TypeInv'
BY EmptyType DEF TypeInv, TypeOK, JobTypes, End, Goto, Labels

LEMMA ConflictTypes ==
    ASSUME TypeInv, NEW w \in Writers, Conflict(w), pc[w] # "idle",
           UNCHANGED <<doc, seeded>>, books' \in Money, crashes' \in 0..MaxCrashes,
           lock' \in Writers \cup {None}
    PROVE  TypeInv'
<1>1. CASE End(w, posted[w])
  BY <1>1, EndTypes DEF TypeInv, TypeOK
<1>2. CASE ~End(w, posted[w])
  <2>1. /\ tries[w] < 2
        /\ tries' = [tries EXCEPT ![w] = @ + 1]
        /\ Goto(w, "reload")
        /\ UNCHANGED <<job, base, copy, fresh, posted, behind>>
    BY <1>2 DEF Conflict
  <2>2. tries' \in [Writers -> 0..2]
    BY <2>1 DEF TypeInv, TypeOK
  <2> QED
    BY <2>1, <2>2 DEF TypeInv, TypeOK, JobTypes, Goto, Labels
<1> QED
  BY <1>1, <1>2

LEMMA BooksType ==
    ASSUME TypeInv, NEW m \in Money, BooksBecome(m)
    PROVE  books' \in Money /\ seeded' \in BOOLEAN
BY DEF BooksBecome, TypeInv, TypeOK

LEMMA SeededWithType ==
    ASSUME TypeInv, NEW m \in Money PROVE SeededWith(m) \in Money
BY DEF SeededWith, TypeInv, TypeOK

LEMMA TypeStep == ASSUME TypeInv, Next PROVE TypeInv'
<1>1. ASSUME NEW w \in Writers, NEW j \in Job, Begin(w, j) PROVE TypeInv'
  <2>1. j # None
    BY NoneAssumption
  <2>2. PICK m \in Money, l \in {"save", "seed"} : Load(w, m) /\ Goto(w, l)
    BY <1>1, JobFields DEF Begin, TypeInv, TypeOK
  <2>3. job' = [job EXCEPT ![w] = j] /\ UNCHANGED <<stores, lock, tries, crashes, posted, behind>>
    BY <1>1 DEF Begin
  <2>4. TypeOK'
    BY <2>2, <2>3 DEF Load, Goto, TypeInv, TypeOK, Labels, stores
  <2>5. JobTypes'
    BY <2>1, <2>2, <2>3 DEF Goto, TypeInv, TypeOK, JobTypes
  <2> QED
    BY <2>4, <2>5 DEF TypeInv
<1>2. ASSUME NEW w \in Writers, Reload(w) PROVE TypeInv'
  BY <1>2 DEF Reload, Load, Goto, TypeInv, TypeOK, JobTypes, Labels, stores
<1>3. ASSUME NEW w \in Writers, Seed(w) PROVE TypeInv'
  <2>1. SeededWith(copy[w]) \in Money
    BY SeededWithType DEF TypeInv, TypeOK
  <2>2. books' \in Money /\ seeded' \in BOOLEAN
    BY <1>3, <2>1, BooksType DEF Seed
  <2> QED
    BY <1>3, <2>2 DEF Seed, Goto, TypeInv, TypeOK, JobTypes, Labels, local
<1>4. ASSUME NEW w \in Writers, Post(w) PROVE TypeInv'
  <2>1. job[w] \in Job /\ job[w].by \in Int
    BY <1>4, JobFields, MoneyAssumption DEF Post, TypeInv, TypeOK, JobTypes
  <2>2. books.cash + job[w].by \in 0..MaxCash
    BY <1>4, <2>1, MoneyAssumption DEF Post, Sufficient, TypeInv, TypeOK, Money
  <2>3. books' \in Money
    BY <1>4, <2>2 DEF Post, TypeInv, TypeOK, Money
  <2> QED
    BY <1>4, <2>3 DEF Post, Goto, TypeInv, TypeOK, JobTypes, Labels, local
<1>5. ASSUME NEW w \in Writers, Project(w) PROVE TypeInv'
  <2>1. copy' \in [Writers -> Money]
    BY <1>5 DEF Project, TypeInv, TypeOK, Money
  <2> QED
    BY <1>5, <2>1 DEF Project, Goto, TypeInv, TypeOK, JobTypes, Labels, stores
<1>6. ASSUME NEW w \in Writers, Apply(w) PROVE TypeInv'
  <2>1. job[w].from \in Statement
    BY <1>6, JobFields DEF Apply, TypeInv, TypeOK, JobTypes
  <2>2. Applied(books, job[w].from) \in Money /\ Applied(copy[w], job[w].from) \in Money
    BY <2>1, AppliedType DEF TypeInv, TypeOK
  <2>3. books' \in Money /\ seeded' \in BOOLEAN
    BY <1>6, <2>2, BooksType DEF Apply
  <2> QED
    BY <1>6, <2>2, <2>3 DEF Apply, Goto, TypeInv, TypeOK, JobTypes, Labels
<1>7. ASSUME NEW w \in Writers, Check(w) PROVE TypeInv'
  <2>1. CASE ~fresh[w]
    BY <1>7, <2>1, ConflictTypes DEF Check, stores, TypeInv, TypeOK
  <2>2. CASE fresh[w]
    BY <1>7, <2>2 DEF Check, Goto, TypeInv, TypeOK, JobTypes, Labels, stores, local
  <2> QED
    BY <2>1, <2>2
<1>8. ASSUME NEW w \in Writers, SeedSave(w) PROVE TypeInv'
  <2>1. SeededWith(base[w]) \in Money
    BY SeededWithType DEF TypeInv, TypeOK
  <2>2. books' \in Money /\ seeded' \in BOOLEAN
    BY <1>8, <2>1, BooksType DEF SeedSave
  <2> QED
    BY <1>8, <2>2 DEF SeedSave, Goto, TypeInv, TypeOK, JobTypes, Labels, local
<1>9. ASSUME NEW w \in Writers, Prepare(w) PROVE TypeInv'
  <2>1. books' \in Money /\ seeded' \in BOOLEAN
    BY <1>9, BooksType DEF Prepare, TypeInv, TypeOK
  <2> QED
    BY <1>9, <2>1 DEF Prepare, Goto, TypeInv, TypeOK, JobTypes, Labels, Locked, local
<1>10. ASSUME NEW w \in Writers, PrepareConflict(w) PROVE TypeInv'
  BY <1>10, ConflictTypes DEF PrepareConflict, stores, TypeInv, TypeOK
<1>11. ASSUME NEW w \in Writers, Persist(w) PROVE TypeInv'
  BY <1>11, EmptyType DEF Persist, Stored, Goto, TypeInv, TypeOK, JobTypes, Labels
<1>12. ASSUME NEW w \in Writers, PersistFails(w) PROVE TypeInv'
  BY <1>12 DEF PersistFails, Stored, Goto, TypeInv, TypeOK, JobTypes, Labels, Locked
<1>13. ASSUME NEW w \in Writers, Recover(w) PROVE TypeInv'
  <2>1. Repaired(w) \in Money
    BY DEF Repaired, TypeInv, TypeOK
  <2>2. books' \in Money /\ seeded' \in BOOLEAN
    BY <1>13, <2>1, BooksType DEF Recover
  <2>3. CASE End(w, posted[w])
    BY <1>13, <2>2, <2>3, EmptyType
    DEF Recover, TypeInv, TypeOK, JobTypes, End, Goto, Labels
  <2>4. CASE /\ tries[w] < 2
             /\ tries' = [tries EXCEPT ![w] = @ + 1]
             /\ Goto(w, "reload")
             /\ UNCHANGED <<job, base, copy, fresh, posted, behind>>
    <3>1. tries' \in [Writers -> 0..2]
      BY <2>4 DEF TypeInv, TypeOK
    <3> QED
      BY <1>13, <2>2, <2>4, <3>1 DEF Recover, TypeInv, TypeOK, JobTypes, Goto, Labels
  <2> QED
    BY <1>13, <2>3, <2>4 DEF Recover, Conflict
<1>14. ASSUME NEW w \in Writers, RecoverFails(w) PROVE TypeInv'
  BY <1>14, EndTypes DEF RecoverFails, stores, TypeInv, TypeOK
<1>15. ASSUME NEW w \in Writers, Fail(w) PROVE TypeInv'
  BY <1>15, EndTypes DEF Fail, stores, TypeInv, TypeOK
<1>16. ASSUME NEW w \in Writers, Crash(w) PROVE TypeInv'
  <2>1. crashes' \in 0..MaxCrashes
    BY <1>16, BoundAssumption DEF Crash, TypeInv, TypeOK
  <2>2. lock' \in Writers \cup {None} /\ (posted[w] \/ lock = w) \in BOOLEAN
    BY <1>16 DEF Crash, TypeInv, TypeOK
  <2> QED
    BY <1>16, <2>1, <2>2, EndTypes DEF Crash, stores, TypeInv, TypeOK
<1>17. CASE SaveElsewhere
  BY <1>17 DEF SaveElsewhere, TypeInv, TypeOK, JobTypes, stores
<1> QED
  BY <1>1, <1>2, <1>3, <1>4, <1>5, <1>6, <1>7, <1>8, <1>9, <1>10, <1>11, <1>12,
     <1>13, <1>14, <1>15, <1>16, <1>17 DEF Next, Step

LEMMA TypeInit == Init => TypeInv
<1>1. 0 \in 0..MaxCrashes /\ 0 \in 0..2
  BY BoundAssumption
<1> QED
  BY <1>1, EmptyType DEF Init, TypeInv, TypeOK, JobTypes, Labels

\* Variables keep their types, for every set of writers and every amount.
THEOREM TypeCorrect == Spec => []TypeOK
<1>1. TypeInv /\ [Next]_vars => TypeInv'
  <2>1. ASSUME TypeInv, UNCHANGED vars PROVE TypeInv'
    BY <2>1 DEF TypeInv, TypeOK, JobTypes, vars, stores, local
  <2> QED
    BY <2>1, TypeStep
<1>2. TypeInv => TypeOK
  BY DEF TypeInv
<1> QED
  BY TypeInit, <1>1, <1>2, PTL DEF Spec

-----------------------------------------------------------------------------
(* The lock across the two commits.                                        *)

\* The lock names the only writer between the books' commit and the end of its save.
LockInv == \A w \in Writers : pc[w] \in Locked <=> lock = w

LEMMA Leaves ==
    ASSUME NEW w \in Writers,
           Conflict(w) \/ End(w, posted[w]) \/ End(w, TRUE) \/ End(w, posted[w] \/ lock = w)
    PROVE  \E l \in {"idle", "reload"} : Goto(w, l)
BY DEF Conflict, End

LEMMA LockKept ==
    ASSUME TypeInv, LockInv, NEW w \in Writers, NEW l, Goto(w, l),
           l \in Locked <=> pc[w] \in Locked, UNCHANGED lock
    PROVE  LockInv'
BY DEF LockInv, TypeInv, TypeOK, Goto

LEMMA LockGiven ==
    ASSUME TypeInv, LockInv, NEW w \in Writers, NEW l, Goto(w, l),
           l \notin Locked, pc[w] \in Locked, lock' = None
    PROVE  LockInv'
BY NoneAssumption DEF LockInv, TypeInv, TypeOK, Goto

LEMMA LockStep == ASSUME TypeInv, LockInv, Next PROVE LockInv'
<1>1. ASSUME NEW w \in Writers,
             \/ \E j \in Job : Begin(w, j)
             \/ Reload(w) \/ Seed(w) \/ Post(w) \/ Project(w) \/ Apply(w) \/ SeedSave(w)
      PROVE  LockInv'
  <2>1. PICK l \in Labels \ Locked :
            Goto(w, l) /\ pc[w] \notin Locked /\ UNCHANGED lock
    BY <1>1 DEF Begin, Reload, Seed, Post, Project, Apply, SeedSave, Labels, Locked
  <2> QED
    BY <2>1, LockKept
<1>2. ASSUME NEW w \in Writers, Check(w) \/ PrepareConflict(w) \/ Fail(w) PROVE LockInv'
  <2>1. PICK l \in {"idle", "reload", "seedSave"} :
            Goto(w, l) /\ pc[w] \notin Locked /\ UNCHANGED lock
    BY <1>2, Leaves DEF Check, PrepareConflict, Fail, Locked
  <2>2. l \notin Locked
    BY DEF Locked
  <2> QED
    BY <2>1, <2>2, LockKept
<1>3. ASSUME NEW w \in Writers, Prepare(w) PROVE LockInv'
  BY <1>3, NoneAssumption
  DEF Prepare, LockFree, Goto, LockInv, TypeInv, TypeOK, Locked
<1>4. ASSUME NEW w \in Writers, PersistFails(w) PROVE LockInv'
  <2>1. Goto(w, "recover") /\ pc[w] \in Locked /\ "recover" \in Locked /\ UNCHANGED lock
    BY <1>4 DEF PersistFails, Locked
  <2> QED
    BY <2>1, LockKept
<1>5. ASSUME NEW w \in Writers, Persist(w) \/ Recover(w) \/ RecoverFails(w) PROVE LockInv'
  <2>1. PICK l \in {"idle", "reload"} : Goto(w, l) /\ pc[w] \in Locked /\ lock' = None
    BY <1>5, Leaves DEF Persist, Recover, RecoverFails, Locked
  <2>2. l \notin Locked
    BY DEF Locked
  <2> QED
    BY <2>1, <2>2, LockGiven
<1>6. ASSUME NEW w \in Writers, Crash(w) PROVE LockInv'
  <2>1. Goto(w, "idle") /\ "idle" \notin Locked /\ lock' = IF lock = w THEN None ELSE lock
    BY <1>6 DEF Crash, End, Locked
  <2>2. CASE lock = w
    BY <2>1, <2>2, LockGiven DEF LockInv
  <2>3. CASE lock # w
    BY <2>1, <2>3, LockKept DEF LockInv
  <2> QED
    BY <2>2, <2>3
<1>7. CASE SaveElsewhere
  BY <1>7 DEF SaveElsewhere, LockInv
<1> QED
  BY <1>1, <1>2, <1>3, <1>4, <1>5, <1>6, <1>7 DEF Next, Step

\* A copy that still carries the stored revision was made from the stored document.
FreshInv == \A w \in Writers : fresh[w] => base[w] = doc

LEMMA FreshStep == ASSUME TypeInv, FreshInv, Next PROVE FreshInv'
<1>1. ASSUME NEW w \in Writers, End(w, posted[w]) \/ End(w, TRUE) \/ End(w, posted[w] \/ lock = w),
             UNCHANGED doc
      PROVE  FreshInv'
  BY <1>1 DEF End, FreshInv, TypeInv, TypeOK
<1>2. ASSUME NEW w \in Writers, Conflict(w), UNCHANGED doc PROVE FreshInv'
  BY <1>1, <1>2 DEF Conflict, FreshInv
<1>3. ASSUME NEW w \in Writers, (\E j \in Job : Begin(w, j)) \/ Reload(w) PROVE FreshInv'
  <2>1. PICK m : Load(w, m) /\ UNCHANGED doc
    BY <1>3 DEF Begin, Reload, stores
  <2> QED
    BY <2>1 DEF Load, FreshInv, TypeInv, TypeOK
<1>4. ASSUME NEW w \in Writers,
             Seed(w) \/ Post(w) \/ Project(w) \/ Apply(w) \/ SeedSave(w) \/ Prepare(w)
      PROVE  FreshInv'
  <2>1. UNCHANGED <<doc, base, fresh>>
    BY <1>4 DEF Seed, Post, Project, Apply, SeedSave, Prepare, local, stores
  <2> QED
    BY <2>1 DEF FreshInv
<1>5. ASSUME NEW w \in Writers, Check(w) PROVE FreshInv'
  <2>1. UNCHANGED doc /\ (Conflict(w) \/ UNCHANGED local)
    BY <1>5 DEF Check, stores
  <2> QED
    BY <2>1, <1>2 DEF FreshInv, local
<1>6. ASSUME NEW w \in Writers, PrepareConflict(w) \/ Recover(w) \/ RecoverFails(w) \/ Fail(w)
                                   \/ Crash(w)
      PROVE  FreshInv'
  BY <1>1, <1>2, <1>6 DEF PrepareConflict, Recover, RecoverFails, Fail, Crash, stores
<1>7. ASSUME NEW w \in Writers, Persist(w) PROVE FreshInv'
  BY <1>7 DEF Persist, FreshInv
<1>8. ASSUME NEW w \in Writers, PersistFails(w) PROVE FreshInv'
  BY <1>8 DEF PersistFails, FreshInv
<1>9. CASE SaveElsewhere
  BY <1>9 DEF SaveElsewhere, FreshInv
<1> QED
  BY <1>3, <1>4, <1>5, <1>6, <1>7, <1>8, <1>9 DEF Next, Step

\* Between the commits the books hold what is about to be saved, if it is a change.
PreparedInv ==
    \A w \in Writers : pc[w] = "persist" /\ copy[w] # doc => books = copy[w]

\* Nobody else touches the stores while a writer is between the commits.
LEMMA Excluded ==
    ASSUME TypeInv, LockInv, NEW x \in Writers, pc[x] \in Locked,
           NEW w \in Writers, w # x, Step(w)
    PROVE  UNCHANGED stores /\ pc'[x] = pc[x] /\ copy'[x] = copy[x]
<1>1. lock = x /\ ~LockFree /\ pc[w] \notin Locked
  BY NoneAssumption DEF LockInv, LockFree
<1>2. ~(\/ Seed(w) \/ Post(w) \/ Project(w) \/ Apply(w) \/ SeedSave(w) \/ Prepare(w)
        \/ PrepareConflict(w) \/ Persist(w) \/ PersistFails(w) \/ Recover(w) \/ RecoverFails(w))
  BY <1>1 DEF Seed, Post, Project, Apply, SeedSave, Prepare, PrepareConflict, Persist,
              PersistFails, Recover, RecoverFails, Locked
<1>3. CASE (\E j \in Job : Begin(w, j)) \/ Reload(w)
  BY <1>3 DEF Begin, Reload, Load, Goto, TypeInv, TypeOK
<1>4. CASE Check(w) \/ Fail(w) \/ Crash(w)
  BY <1>4 DEF Check, Fail, Crash, Conflict, End, Goto, TypeInv, TypeOK, local
<1> QED
  BY <1>2, <1>3, <1>4 DEF Step

LEMMA PreparedStep ==
    ASSUME TypeInv, LockInv, FreshInv, PreparedInv, Next PROVE PreparedInv'
<1> SUFFICES ASSUME NEW x \in Writers, (pc[x] = "persist")', (copy[x] # doc)'
             PROVE  (books = copy[x])'
  BY DEF PreparedInv
<1>1. CASE SaveElsewhere
  BY <1>1 DEF SaveElsewhere, PreparedInv, stores
<1>2. ASSUME NEW w \in Writers, w # x, Step(w) PROVE (books = copy[x])'
  <2>1. CASE pc[x] = "persist"
    BY <1>2, <2>1, Excluded DEF PreparedInv, Locked, stores
  <2>2. CASE pc[x] # "persist"
    BY <1>2, <2>2
    DEF Step, Begin, Reload, Seed, Post, Project, Apply, Check, SeedSave, Prepare,
        PrepareConflict, Persist, PersistFails, Recover, RecoverFails, Fail, Crash,
        Conflict, End, Goto, TypeInv, TypeOK
  <2> QED
    BY <2>1, <2>2
<1>3. CASE Step(x)
  <2>1. Prepare(x)
    BY <1>3
    DEF Step, Begin, Reload, Seed, Post, Project, Apply, Check, SeedSave,
        PrepareConflict, Persist, PersistFails, Recover, RecoverFails, Fail, Crash,
        Conflict, End, Goto, TypeInv, TypeOK
  <2>2. UNCHANGED <<doc, copy>> /\ (copy[x] = doc \/ BooksBecome(copy[x]))
    BY <2>1 DEF Prepare, local
  <2> QED
    BY <2>2 DEF BooksBecome
<1> QED
  BY <1>1, <1>2, <1>3 DEF Next

SaveInv == TypeInv /\ LockInv /\ FreshInv /\ PreparedInv

LEMMA SaveInvInit == Init => SaveInv
<1>1. Init => LockInv /\ FreshInv /\ PreparedInv
  BY NoneAssumption DEF Init, LockInv, FreshInv, PreparedInv, Locked
<1> QED
  BY TypeInit, <1>1 DEF SaveInv

LEMMA SaveInvStep == SaveInv /\ [Next]_vars => SaveInv'
<1>1. ASSUME SaveInv, UNCHANGED vars PROVE SaveInv'
  BY <1>1
  DEF SaveInv, TypeInv, TypeOK, JobTypes, LockInv, FreshInv, PreparedInv, vars, stores, local
<1>2. ASSUME SaveInv, Next PROVE SaveInv'
  BY <1>2, TypeStep, LockStep, FreshStep, PreparedStep DEF SaveInv
<1> QED
  BY <1>1, <1>2

\* Whenever saveInvestor changes the document's money, the books have committed
\* the same money before, and no other posting has come between.
THEOREM DocumentFollowsBooks == Spec => MoneyFollowsBooks
<1>1. ASSUME SaveInv, Next, doc' # doc PROVE books' = doc'
  <2>1. PICK w \in Writers : Persist(w) \/ PersistFails(w)
    BY <1>1
    DEF Next, Step, Begin, Reload, Seed, Post, Project, Apply, Check, SeedSave, Prepare,
        PrepareConflict, Recover, RecoverFails, Fail, Crash, SaveElsewhere, stores
  <2>2. pc[w] = "persist" /\ doc' = copy[w] /\ books' = books
    BY <1>1, <2>1 DEF Persist, PersistFails, Stored
  <2> QED
    BY <1>1, <2>2 DEF SaveInv, PreparedInv
<1>2. SaveInv /\ [Next]_vars => [doc' # doc => books' = doc']_vars
  BY <1>1
<1> QED
  BY SaveInvInit, SaveInvStep, <1>2, PTL DEF Spec, MoneyFollowsBooks

-----------------------------------------------------------------------------
(* What a writer has, by the point it has reached.                         *)

Saving == {"save", "seedSave", "prepare"} \cup Locked

JobInv ==
    \A w \in Writers :
        /\ pc[w] = "project" => job[w].kind = "post"
        /\ pc[w] = "reload" => job[w].kind = "import"
        /\ posted[w] => pc[w] # "idle"

CopyInv ==
    \A w \in Writers :
        /\ pc[w] \in {"seed", "apply"} => copy[w] = base[w] /\ job[w].kind # "edit"
        /\ pc[w] \in Saving /\ job[w].kind = "import" =>
               copy[w] = Applied(base[w], job[w].from)

\* Before the first entry, nothing has been posted and the document has not
\* changed since anybody loaded it.
UnseededInv ==
    ~seeded =>
        /\ books = Empty
        /\ \A w \in Writers : pc[w] # "idle" => base[w] = doc
        /\ \A w \in Writers :
               posted[w] \/ pc[w] \in {"apply", "project", "prepare"} \cup Locked => doc = Empty

LEMMA JobStep == ASSUME TypeInv, JobInv, CopyInv, Next PROVE JobInv'
<1>1. ASSUME NEW w \in Writers, \E j \in Job : Begin(w, j) PROVE JobInv'
  BY <1>1 DEF Begin, Goto, JobInv, TypeInv, TypeOK
<1>2. ASSUME NEW w \in Writers,
             Reload(w) \/ Seed(w) \/ Project(w) \/ SeedSave(w) \/ Prepare(w) \/ PersistFails(w)
      PROVE  JobInv'
  BY <1>2
  DEF Reload, Seed, Project, SeedSave, Prepare, PersistFails, Goto, JobInv, TypeInv, TypeOK, local
<1>3. ASSUME NEW w \in Writers, Post(w) \/ Apply(w) PROVE JobInv'
  BY <1>3 DEF Post, Apply, Goto, JobInv, TypeInv, TypeOK, local
<1>4. ASSUME NEW w \in Writers,
             Conflict(w) \/ End(w, posted[w]) \/ End(w, TRUE) \/ End(w, posted[w] \/ lock = w),
             pc[w] # "idle"
      PROVE  JobInv'
  BY <1>4 DEF Conflict, End, Goto, JobInv, TypeInv, TypeOK
<1>5. ASSUME NEW w \in Writers, Check(w) PROVE JobInv'
  BY <1>4, <1>5 DEF Check, Goto, JobInv, TypeInv, TypeOK, local
<1>6. ASSUME NEW w \in Writers,
             PrepareConflict(w) \/ Recover(w) \/ RecoverFails(w) \/ Fail(w) \/ Crash(w)
      PROVE  JobInv'
  BY <1>4, <1>6 DEF PrepareConflict, Recover, RecoverFails, Fail, Crash
<1>7. ASSUME NEW w \in Writers, Persist(w) PROVE JobInv'
  BY <1>7 DEF Persist, Goto, JobInv, TypeInv, TypeOK
<1>8. CASE SaveElsewhere
  BY <1>8 DEF SaveElsewhere, JobInv
<1> QED
  BY <1>1, <1>2, <1>3, <1>5, <1>6, <1>7, <1>8 DEF Next, Step

LEMMA CopyStep == ASSUME TypeInv, JobInv, CopyInv, Next PROVE CopyInv'
<1>1. ASSUME NEW w \in Writers, \E j \in Job : Begin(w, j) PROVE CopyInv'
  BY <1>1 DEF Begin, Load, Goto, CopyInv, TypeInv, TypeOK, Saving, Locked
<1>2. ASSUME NEW w \in Writers, Reload(w) PROVE CopyInv'
  BY <1>2 DEF Reload, Load, Goto, JobInv, CopyInv, TypeInv, TypeOK, Saving, Locked
<1>3. ASSUME NEW w \in Writers, Seed(w) \/ Post(w) PROVE CopyInv'
  BY <1>3 DEF Seed, Post, Goto, CopyInv, TypeInv, TypeOK, Saving, Locked, local
<1>4. ASSUME NEW w \in Writers, Project(w) PROVE CopyInv'
  BY <1>4 DEF Project, Goto, JobInv, CopyInv, TypeInv, TypeOK, Saving, Locked
<1>5. ASSUME NEW w \in Writers, Apply(w) PROVE CopyInv'
  <2>1. copy[w] = base[w]
    BY <1>5 DEF Apply, CopyInv
  <2>2. copy' = [copy EXCEPT ![w] = Applied(base[w], job[w].from)]
    BY <1>5, <2>1 DEF Apply
  <2> QED
    BY <1>5, <2>2 DEF Apply, Goto, CopyInv, TypeInv, TypeOK, Saving, Locked
<1>6. ASSUME NEW w \in Writers, SeedSave(w) \/ Prepare(w) \/ PersistFails(w) PROVE CopyInv'
  BY <1>6 DEF SeedSave, Prepare, PersistFails, Goto, CopyInv, TypeInv, TypeOK, Saving, Locked, local
<1>7. ASSUME NEW w \in Writers,
             Conflict(w) \/ End(w, posted[w]) \/ End(w, TRUE) \/ End(w, posted[w] \/ lock = w)
      PROVE  CopyInv'
  BY <1>7 DEF Conflict, End, Goto, CopyInv, TypeInv, TypeOK, Saving, Locked
<1>8. ASSUME NEW w \in Writers, Check(w) PROVE CopyInv'
  BY <1>7, <1>8 DEF Check, Goto, CopyInv, TypeInv, TypeOK, Saving, Locked, local
<1>9. ASSUME NEW w \in Writers,
             PrepareConflict(w) \/ Recover(w) \/ RecoverFails(w) \/ Fail(w) \/ Crash(w)
      PROVE  CopyInv'
  BY <1>7, <1>9 DEF PrepareConflict, Recover, RecoverFails, Fail, Crash
<1>10. ASSUME NEW w \in Writers, Persist(w) PROVE CopyInv'
  BY <1>10 DEF Persist, Goto, CopyInv, TypeInv, TypeOK, Saving, Locked
<1>11. CASE SaveElsewhere
  BY <1>11 DEF SaveElsewhere, CopyInv
<1> QED
  BY <1>1, <1>2, <1>3, <1>4, <1>5, <1>6, <1>8, <1>9, <1>10, <1>11 DEF Next, Step

LEMMA UnseededStep ==
    ASSUME TypeInv, CopyInv, PreparedInv, UnseededInv, Next PROVE UnseededInv'
<1> SUFFICES ASSUME ~seeded' PROVE UnseededInv'
  BY DEF UnseededInv
<1> DEFINE Early == {"apply", "project", "prepare"} \cup Locked
<1>1. ASSUME NEW w \in Writers, \/ \E j \in Job : Begin(w, j)
                                \/ Reload(w)
      PROVE  UnseededInv'
  <2>1. PICK l \in {"save", "seed"} : Goto(w, l) /\ base' = [base EXCEPT ![w] = doc]
    BY <1>1 DEF Begin, Reload, Load
  <2>2. UNCHANGED <<stores, posted>>
    BY <1>1 DEF Begin, Reload
  <2>3. l \notin Early /\ pc[w] \notin Early
    BY <1>1 DEF Begin, Reload, Locked
  <2> QED
    BY <2>1, <2>2, <2>3 DEF Goto, UnseededInv, TypeInv, TypeOK, stores
<1>2. ASSUME NEW w \in Writers, Seed(w) \/ SeedSave(w) PROVE UnseededInv'
  <2>1. PICK l \in {"apply", "prepare"} : Goto(w, l) /\ UNCHANGED <<doc, local, posted>>
    BY <1>2 DEF Seed, SeedSave
  <2>2. BooksBecome(SeededWith(base[w])) /\ pc[w] # "idle"
    BY <1>2 DEF Seed, SeedSave, CopyInv
  <2>3. ~seeded /\ books' = SeededWith(base[w]) /\ SeededWith(base[w]) = books
    BY <2>2 DEF BooksBecome, TypeInv, TypeOK
  <2>4. base[w] = doc /\ books = Empty
    BY <2>2, <2>3 DEF UnseededInv
  <2>5. doc = Empty
    BY <2>3, <2>4 DEF SeededWith
  <2> QED
    BY <2>1, <2>3, <2>4, <2>5 DEF Goto, UnseededInv, TypeInv, TypeOK, local
<1>3. ASSUME NEW w \in Writers, Post(w) PROVE UnseededInv'
  BY <1>3 DEF Post
<1>4. ASSUME NEW w \in Writers, Project(w) \/ Apply(w) \/ Prepare(w) PROVE UnseededInv'
  <2>1. PICK l : Goto(w, l) /\ pc[w] \in Early /\ UNCHANGED <<doc, base>>
    BY <1>4 DEF Project, Apply, Prepare, stores, local
  <2>2. ~seeded /\ books' = books
    BY <1>4 DEF Project, Apply, Prepare, BooksBecome, TypeInv, TypeOK, stores
  <2>3. doc = Empty /\ books = Empty /\ pc[w] # "idle"
    BY <2>1, <2>2 DEF UnseededInv, Locked
  <2> QED
    BY <2>1, <2>2, <2>3 DEF Goto, UnseededInv, TypeInv, TypeOK
<1>5. ASSUME NEW w \in Writers, UNCHANGED stores,
             Conflict(w) \/ End(w, posted[w]) \/ End(w, TRUE) \/ End(w, posted[w] \/ lock = w),
             pc[w] # "idle"
      PROVE  UnseededInv'
  BY <1>5 DEF Conflict, End, Goto, UnseededInv, TypeInv, TypeOK, stores, Locked
<1>6. ASSUME NEW w \in Writers, Check(w) PROVE UnseededInv'
  BY <1>5, <1>6 DEF Check, Goto, UnseededInv, TypeInv, TypeOK, local, stores, Locked
<1>7. ASSUME NEW w \in Writers, PrepareConflict(w) \/ RecoverFails(w) \/ Fail(w) \/ Crash(w)
      PROVE  UnseededInv'
  BY <1>5, <1>7 DEF PrepareConflict, RecoverFails, Fail, Crash
<1>8. ASSUME NEW w \in Writers, Recover(w) PROVE UnseededInv'
  <2>1. books' = books /\ seeded' = seeded
    BY <1>8 DEF Recover, BooksBecome, TypeInv, TypeOK
  <2>2. UNCHANGED stores
    BY <1>8, <2>1 DEF Recover, stores
  <2>3. (Conflict(w) \/ End(w, posted[w])) /\ pc[w] # "idle"
    BY <1>8 DEF Recover
  <2> QED
    BY <1>5, <2>2, <2>3
<1>9. ASSUME NEW w \in Writers, Persist(w) \/ PersistFails(w) PROVE UnseededInv'
  <2>1. pc[w] = "persist" /\ ~seeded /\ UNCHANGED <<books, seeded>> /\ doc' \in {doc, copy[w]}
    BY <1>9 DEF Persist, PersistFails, Stored, TypeInv, TypeOK
  <2>2. doc = Empty /\ books = Empty
    BY <2>1 DEF UnseededInv, Locked
  <2>3. doc' = doc
    BY <2>1, <2>2 DEF PreparedInv
  <2>4. PICK l \in {"idle", "recover"} : Goto(w, l)
    BY <1>9 DEF Persist, PersistFails
  <2>5. (\A x \in Writers : pc'[x] # "idle" => base'[x] = base[x])
    BY <1>9 DEF Persist, PersistFails, Goto, TypeInv, TypeOK
  <2> QED
    BY <2>1, <2>2, <2>3, <2>4, <2>5 DEF Goto, UnseededInv, TypeInv, TypeOK
<1>10. CASE SaveElsewhere
  BY <1>10 DEF SaveElsewhere, UnseededInv, stores
<1> QED
  BY <1>1, <1>2, <1>3, <1>4, <1>6, <1>7, <1>8, <1>9, <1>10 DEF Next, Step

-----------------------------------------------------------------------------
(* Every difference between books and document has a writer behind it.     *)

\* The cash of the books is what x has posted and will still save.
CashFrom(x) ==
    /\ posted[x]
    /\ \/ job[x].kind = "import" /\ job[x].from.cash = books.cash
       \/ /\ job[x].kind = "post"
          /\ pc[x] = "project" \/ ~fresh[x] \/ copy[x].cash = books.cash

HoldingsFrom(x) ==
    /\ posted[x]
    /\ job[x].kind = "import" /\ job[x].from.holdings = books.holdings

Explained ==
    /\ books.cash = doc.cash \/ \E x \in Writers : CashFrom(x)
    /\ books.holdings = doc.holdings \/ \E x \in Writers : HoldingsFrom(x)

\* The holder of the lock, if any, does not change the document's money.
Settled == LockFree \/ copy[lock] = doc

AgreeInv == seeded /\ ~behind /\ Settled => Explained

LEMMA EqualExplained == books = doc => Explained
BY DEF Explained

\* What explains a difference goes on doing so while its writer only moves on.
LEMMA MoveExplained ==
    ASSUME TypeInv, Explained, NEW w \in Writers, NEW l, Goto(w, l), pc[w] # "project",
           UNCHANGED <<doc, books, posted, job, copy>>,
           \A x \in Writers : fresh'[x] => fresh[x]
    PROVE  Explained'
<1>1. ASSUME NEW x \in Writers, CashFrom(x) PROVE CashFrom(x)'
  BY <1>1 DEF CashFrom, Goto, TypeInv, TypeOK
<1>2. ASSUME NEW x \in Writers, HoldingsFrom(x) PROVE HoldingsFrom(x)'
  BY <1>2 DEF HoldingsFrom
<1> QED
  BY <1>1, <1>2 DEF Explained

\* A call that ends with its postings unsaved leaves the stores behind.
LEMMA EndExplained ==
    ASSUME TypeInv, NEW w \in Writers, NEW p \in BOOLEAN, End(w, p), posted[w] => p,
           UNCHANGED <<doc, books>>, ~behind => Explained, ~behind'
    PROVE  Explained'
<1>1. CASE books' = doc'
  BY <1>1 DEF Explained
<1>2. CASE books' # doc'
  <2>1. Explained /\ ~posted[w]
    BY <1>2 DEF End, TypeInv, TypeOK
  <2>2. ASSUME NEW x \in Writers, CashFrom(x) PROVE CashFrom(x)'
    BY <2>1, <2>2 DEF CashFrom, End, Goto, TypeInv, TypeOK
  <2>3. ASSUME NEW x \in Writers, HoldingsFrom(x) PROVE HoldingsFrom(x)'
    BY <2>1, <2>3 DEF HoldingsFrom, End, Goto, TypeInv, TypeOK
  <2> QED
    BY <2>1, <2>2, <2>3 DEF Explained
<1> QED
  BY <1>1, <1>2

LEMMA ConflictExplained ==
    ASSUME TypeInv, NEW w \in Writers, Conflict(w), pc[w] # "project",
           UNCHANGED <<doc, books>>, ~behind => Explained, ~behind'
    PROVE  Explained'
<1>1. CASE End(w, posted[w])
  BY <1>1, EndExplained DEF TypeInv, TypeOK
<1>2. CASE ~End(w, posted[w])
  BY <1>2, MoveExplained DEF Conflict
<1> QED
  BY <1>1, <1>2

LEMMA ApplyExplained ==
    ASSUME TypeInv, NEW w \in Writers, Apply(w), Explained PROVE Explained'
<1>1. job[w].from \in Statement
  BY JobFields DEF Apply, TypeInv, TypeOK, JobTypes
<1>2. /\ books'.cash = IF job[w].from.cash = None THEN books.cash ELSE job[w].from.cash
      /\ books'.holdings =
             IF job[w].from.holdings = None THEN books.holdings ELSE job[w].from.holdings
  BY <1>1, AppliedType DEF Apply, BooksBecome, TypeInv, TypeOK
<1>3. posted' = [posted EXCEPT ![w] = TRUE] /\ UNCHANGED <<doc, job, fresh>>
      /\ job[w].kind = "import" /\ Goto(w, "save")
      /\ \A x \in Writers \ {w} : copy'[x] = copy[x]
  BY DEF Apply, TypeInv, TypeOK
<1>4. books'.cash = doc'.cash \/ \E x \in Writers : CashFrom(x)'
  <2>1. CASE job[w].from.cash # None
    <3>1. CashFrom(w)'
      BY <1>2, <1>3, <2>1 DEF CashFrom, TypeInv, TypeOK
    <3> QED
      BY <3>1
  <2>2. CASE job[w].from.cash = None
    <3>1. ASSUME NEW x \in Writers, CashFrom(x) PROVE CashFrom(x)'
      BY <1>2, <1>3, <2>2, <3>1 DEF CashFrom, Goto, TypeInv, TypeOK
    <3> QED
      BY <1>2, <1>3, <2>2, <3>1 DEF Explained
  <2> QED
    BY <2>1, <2>2
<1>5. books'.holdings = doc'.holdings \/ \E x \in Writers : HoldingsFrom(x)'
  <2>1. CASE job[w].from.holdings # None
    <3>1. HoldingsFrom(w)'
      BY <1>2, <1>3, <2>1 DEF HoldingsFrom, TypeInv, TypeOK
    <3> QED
      BY <3>1
  <2>2. CASE job[w].from.holdings = None
    <3>1. ASSUME NEW x \in Writers, HoldingsFrom(x) PROVE HoldingsFrom(x)'
      BY <1>2, <1>3, <2>2, <3>1 DEF HoldingsFrom, TypeInv, TypeOK
    <3> QED
      BY <1>2, <1>3, <2>2, <3>1 DEF Explained
  <2> QED
    BY <2>1, <2>2
<1> QED
  BY <1>4, <1>5 DEF Explained

LEMMA PostExplained ==
    ASSUME TypeInv, NEW w \in Writers, Post(w), Explained PROVE Explained'
<1>1. CashFrom(w)'
  BY DEF Post, Goto, CashFrom, TypeInv, TypeOK, local
<1>2. books'.holdings = books.holdings
  BY DEF Post, TypeInv, TypeOK, Money
<1>3. ASSUME NEW x \in Writers, HoldingsFrom(x) PROVE HoldingsFrom(x)'
  BY <1>2, <1>3 DEF Post, HoldingsFrom, TypeInv, TypeOK, local
<1>4. doc' = doc
  BY DEF Post
<1> QED
  BY <1>1, <1>2, <1>3, <1>4 DEF Explained

LEMMA ProjectExplained ==
    ASSUME TypeInv, JobInv, NEW w \in Writers, Project(w), Explained PROVE Explained'
<1>1. copy'[w].cash = books.cash /\ \A x \in Writers \ {w} : copy'[x] = copy[x]
  BY DEF Project, TypeInv, TypeOK, Money
<1>2. ASSUME NEW x \in Writers, CashFrom(x) PROVE CashFrom(x)'
  BY <1>1, <1>2 DEF Project, JobInv, CashFrom, Goto, TypeInv, TypeOK, stores
<1>3. ASSUME NEW x \in Writers, HoldingsFrom(x) PROVE HoldingsFrom(x)'
  BY <1>3 DEF Project, HoldingsFrom, stores
<1> QED
  BY <1>2, <1>3 DEF Explained, Project, stores

\* A save that leaves the document's money alone can only end a difference that
\* its own writer did not make.
LEMMA PersistExplained ==
    ASSUME TypeInv, FreshInv, CopyInv, NEW w \in Writers, Persist(w), copy[w] = doc, Explained
    PROVE  Explained'
<1>1. /\ pc[w] = "persist" /\ fresh[w] /\ base[w] = doc
      /\ UNCHANGED <<doc, books>>
      /\ fresh' = [x \in Writers |-> FALSE]
      /\ \A x \in Writers \ {w} : posted'[x] = posted[x] /\ job'[x] = job[x]
  BY DEF Persist, Stored, FreshInv, TypeInv, TypeOK
<1>2. job[w].kind = "import" => doc = Applied(doc, job[w].from) /\ job[w].from \in Statement
  <2>1. pc[w] \in Saving /\ pc[w] # "idle"
    BY <1>1 DEF Saving, Locked
  <2> QED
    BY <1>1, <2>1, JobFields DEF CopyInv, TypeInv, TypeOK, JobTypes
<1>3. doc \in Money /\ books \in Money
  BY DEF TypeInv, TypeOK
<1>4. CashFrom(w) => books.cash = doc.cash
  <2>1. CASE job[w].kind = "import"
    BY <1>2, <1>3, <2>1, AppliedType, NoneAssumption DEF CashFrom, Money
  <2>2. CASE job[w].kind # "import"
    BY <1>1, <2>2 DEF CashFrom
  <2> QED
    BY <2>1, <2>2
<1>5. HoldingsFrom(w) => books.holdings = doc.holdings
  BY <1>2, <1>3, AppliedType, NoneAssumption DEF HoldingsFrom, Money
<1>6. ASSUME NEW x \in Writers \ {w}, CashFrom(x) PROVE CashFrom(x)'
  BY <1>1, <1>6 DEF CashFrom
<1>7. ASSUME NEW x \in Writers \ {w}, HoldingsFrom(x) PROVE HoldingsFrom(x)'
  BY <1>1, <1>7 DEF HoldingsFrom
<1> QED
  BY <1>1, <1>4, <1>5, <1>6, <1>7 DEF Explained

BooksInv == SaveInv /\ JobInv /\ CopyInv /\ UnseededInv /\ AgreeInv

LEMMA AgreeStep == ASSUME BooksInv, Next PROVE AgreeInv'
<1> USE DEF BooksInv, SaveInv
<1> SUFFICES ASSUME seeded', ~behind', Settled' PROVE Explained'
  BY DEF AgreeInv
<1>1. ASSUME NEW w \in Writers, (\E j \in Job : Begin(w, j)) \/ Reload(w) PROVE Explained'
  <2>1. PICK m, l : Load(w, m) /\ Goto(w, l) /\ pc[w] # "project"
    BY <1>1 DEF Begin, Reload
  <2>2. UNCHANGED <<stores, lock, posted, behind>> /\ pc[w] \notin Locked
    BY <1>1 DEF Begin, Reload, Locked
  <2>3. Settled
    BY <2>1, <2>2 DEF Settled, LockFree, LockInv, Load, TypeInv, TypeOK, stores
  <2>4. Explained
    BY <2>2, <2>3 DEF AgreeInv, stores
  <2>5. \A x \in Writers : posted[x] => UNCHANGED <<job[x]>>
    BY <1>1 DEF Begin, Reload, JobInv, TypeInv, TypeOK
  <2>6. posted[w] => job[w].kind = "import"
    BY <1>1 DEF Begin, Reload, JobInv
  <2>7. \A x \in Writers \ {w} : pc'[x] = pc[x] /\ fresh'[x] = fresh[x] /\ copy'[x] = copy[x]
    BY <2>1 DEF Load, Goto, TypeInv, TypeOK
  <2>8. ASSUME NEW x \in Writers, CashFrom(x) PROVE CashFrom(x)'
    <3>1. CASE x = w
      BY <2>2, <2>5, <2>6, <2>8, <3>1 DEF CashFrom, stores
    <3>2. CASE x # w
      BY <2>2, <2>5, <2>7, <2>8, <3>2 DEF CashFrom, stores
    <3> QED
      BY <3>1, <3>2
  <2>9. ASSUME NEW x \in Writers, HoldingsFrom(x) PROVE HoldingsFrom(x)'
    BY <2>2, <2>5, <2>9 DEF HoldingsFrom, stores
  <2> QED
    BY <2>2, <2>4, <2>8, <2>9 DEF Explained, stores
<1>2. ASSUME NEW w \in Writers, Seed(w) \/ SeedSave(w) PROVE Explained'
  <2>1. PICK l : Goto(w, l) /\ pc[w] # "project" /\ LockFree /\ UNCHANGED <<doc, local, posted, behind>>
    BY <1>2 DEF Seed, SeedSave
  <2>2. BooksBecome(SeededWith(base[w])) /\ pc[w] # "idle"
    BY <1>2 DEF Seed, SeedSave, CopyInv
  <2>3. CASE seeded
    BY <2>1, <2>2, <2>3, MoveExplained DEF AgreeInv, Settled, SeededWith, BooksBecome, local
  <2>4. CASE ~seeded
    <3>1. books' = SeededWith(base[w]) /\ SeededWith(base[w]) # books
      BY <2>2, <2>4 DEF BooksBecome
    <3>2. books' = doc'
      BY <2>1, <2>2, <2>4, <3>1 DEF SeededWith, UnseededInv
    <3> QED
      BY <3>2 DEF Explained
  <2> QED
    BY <2>3, <2>4
<1>3. ASSUME NEW w \in Writers, Post(w) \/ Apply(w) \/ Project(w) PROVE Explained'
  <2>1. LockFree /\ UNCHANGED behind
    BY <1>3 DEF Post, Apply, Project
  <2>2. Explained
    <3>1. CASE seeded
      BY <2>1, <3>1 DEF AgreeInv, Settled
    <3>2. CASE ~seeded
      <4>1. pc[w] \in {"apply", "project", "prepare"} \cup Locked
        BY <1>3 DEF Post, Apply, Project
      <4> QED
        BY <3>2, <4>1, EqualExplained DEF UnseededInv
    <3> QED
      BY <3>1, <3>2
  <2> QED
    BY <1>3, <2>2, PostExplained, ApplyExplained, ProjectExplained
<1>4. ASSUME NEW w \in Writers, Check(w) \/ PrepareConflict(w) \/ Fail(w) PROVE Explained'
  <2>1. UNCHANGED <<stores, lock>> /\ pc[w] \notin Locked
    BY <1>4 DEF Check, PrepareConflict, Fail, Locked
  <2>2. \A x \in Writers \ {w} : copy'[x] = copy[x]
    BY <1>4 DEF Check, PrepareConflict, Fail, Conflict, End, local, TypeInv, TypeOK
  <2>3. Settled
    BY <2>1, <2>2 DEF Settled, LockFree, LockInv, TypeInv, TypeOK, stores
  <2>4. ~behind => Explained
    BY <2>1, <2>3 DEF AgreeInv, stores
  <2>5. CASE Fail(w)
    BY <2>1, <2>4, <2>5, EndExplained DEF Fail, stores, TypeInv, TypeOK
  <2>6. CASE Conflict(w) /\ pc[w] # "project"
    BY <2>1, <2>4, <2>6, ConflictExplained DEF stores
  <2>7. CASE Check(w) /\ ~Conflict(w)
    BY <2>1, <2>4, <2>7, MoveExplained DEF Check, local, stores
  <2> QED
    BY <1>4, <2>5, <2>6, <2>7 DEF Check, PrepareConflict
<1>5. ASSUME NEW w \in Writers, Prepare(w) PROVE Explained'
  <2>1. Goto(w, "persist") /\ pc[w] = "prepare" /\ lock' = w /\ LockFree
        /\ UNCHANGED <<doc, local, posted, behind>>
    BY <1>5 DEF Prepare
  <2>2. copy[w] = doc
    BY <2>1, NoneAssumption DEF Settled, LockFree, local
  <2>3. CASE BooksBecome(copy[w])
    BY <2>1, <2>2, <2>3 DEF BooksBecome, Explained
  <2>4. CASE UNCHANGED <<books, seeded>>
    BY <2>1, <2>4, MoveExplained DEF AgreeInv, Settled, local
  <2> QED
    BY <1>5, <2>3, <2>4 DEF Prepare
<1>6. ASSUME NEW w \in Writers, pc[w] \in Locked, copy[w] = doc, seeded, ~behind PROVE Explained
  BY <1>6 DEF LockInv, AgreeInv, Settled
<1>7. ASSUME NEW w \in Writers, Persist(w) PROVE Explained'
  <2>1. pc[w] = "persist" /\ doc' = copy[w] /\ UNCHANGED <<books, seeded>>
        /\ behind' = (behind /\ books # copy[w])
    BY <1>7 DEF Persist, Stored
  <2>2. CASE books = copy[w]
    BY <2>1, <2>2 DEF Explained
  <2>3. CASE books # copy[w]
    <3>1. copy[w] = doc /\ ~behind
      BY <2>1, <2>3 DEF PreparedInv
    <3> QED
      BY <1>6, <1>7, <2>1, <3>1, PersistExplained DEF Locked
  <2> QED
    BY <2>2, <2>3
<1>8. ASSUME NEW w \in Writers, PersistFails(w) PROVE Explained'
  <2>1. pc[w] = "persist" /\ Goto(w, "recover") /\ doc' \in {doc, copy[w]}
        /\ UNCHANGED <<books, seeded, lock, job, copy, posted, behind>>
        /\ \A x \in Writers : fresh'[x] => fresh[x]
    BY <1>8 DEF PersistFails, Stored
  <2>2. copy[w] = doc'
    BY <2>1, NoneAssumption DEF Settled, LockFree, LockInv, Locked
  <2>3. CASE copy[w] # doc
    BY <2>1, <2>2, <2>3 DEF PreparedInv, Explained
  <2>4. CASE copy[w] = doc
    BY <1>6, <2>1, <2>2, <2>4, MoveExplained DEF Locked
  <2> QED
    BY <2>3, <2>4
<1>9. ASSUME NEW w \in Writers, Recover(w) PROVE Explained'
  <2>1. pc[w] = "recover" /\ UNCHANGED doc /\ BooksBecome(Repaired(w))
        /\ (Conflict(w) \/ End(w, posted[w]))
    BY <1>9 DEF Recover
  <2>2. CASE copy[w] # doc
    BY <2>1, <2>2 DEF BooksBecome, Repaired, Explained
  <2>3. CASE copy[w] = doc
    <3>1. books' = books /\ seeded
      BY <2>1, <2>3 DEF BooksBecome, Repaired
    <3>2. ~behind => Explained
      BY <1>6, <2>1, <2>3, <3>1 DEF Locked
    <3> QED
      BY <2>1, <3>1, <3>2, ConflictExplained, EndExplained DEF TypeInv, TypeOK
  <2> QED
    BY <2>2, <2>3
<1>10. ASSUME NEW w \in Writers, RecoverFails(w) PROVE Explained'
  BY <1>10 DEF RecoverFails, End, Explained
<1>11. ASSUME NEW w \in Writers, Crash(w) PROVE Explained'
  <2>1. CASE lock = w
    BY <1>11, <2>1 DEF Crash, End, Explained
  <2>2. CASE lock # w
    <3>1. UNCHANGED <<stores, lock>> /\ End(w, posted[w])
      BY <1>11, <2>2 DEF Crash, End, TypeInv, TypeOK
    <3>2. Settled
      BY <2>2, <3>1 DEF Settled, LockFree, End, TypeInv, TypeOK, stores
    <3> QED
      BY <3>1, <3>2, EndExplained DEF AgreeInv, stores, TypeInv, TypeOK
  <2> QED
    BY <2>1, <2>2
<1>12. CASE SaveElsewhere
  <2>1. /\ UNCHANGED <<stores, lock, pc, job, copy, posted, behind>>
        /\ \A x \in Writers : ~fresh'[x]
    BY <1>12 DEF SaveElsewhere
  <2>2. Explained
    BY <2>1 DEF AgreeInv, Settled, LockFree, stores
  <2>3. ASSUME NEW x \in Writers, CashFrom(x) PROVE CashFrom(x)'
    BY <2>1, <2>3 DEF CashFrom, stores
  <2>4. ASSUME NEW x \in Writers, HoldingsFrom(x) PROVE HoldingsFrom(x)'
    BY <2>1, <2>4 DEF HoldingsFrom, stores
  <2> QED
    BY <2>1, <2>2, <2>3, <2>4 DEF Explained, stores
<1> QED
  BY <1>1, <1>2, <1>3, <1>4, <1>5, <1>7, <1>8, <1>9, <1>10, <1>11, <1>12 DEF Next, Step

LEMMA BooksInvInit == Init => BooksInv
<1> SUFFICES ASSUME Init PROVE JobInv /\ CopyInv /\ UnseededInv /\ AgreeInv
  BY SaveInvInit DEF BooksInv
<1> QED
  BY DEF Init, JobInv, CopyInv, UnseededInv, AgreeInv, Saving, Locked

LEMMA BooksInvStep == BooksInv /\ [Next]_vars => BooksInv'
<1>1. ASSUME BooksInv, UNCHANGED vars PROVE BooksInv'
  <2>1. SaveInv'
    BY <1>1, SaveInvStep DEF BooksInv
  <2>2. JobInv' /\ CopyInv' /\ UnseededInv'
    BY <1>1 DEF BooksInv, JobInv, CopyInv, UnseededInv, vars, stores, local
  <2>3. AgreeInv'
    BY <1>1
    DEF BooksInv, AgreeInv, Settled, LockFree, Explained, CashFrom, HoldingsFrom, vars, stores, local
  <2> QED
    BY <2>1, <2>2, <2>3 DEF BooksInv
<1>2. ASSUME BooksInv, Next PROVE BooksInv'
  BY <1>2, SaveInvStep, JobStep, CopyStep, UnseededStep, AgreeStep DEF BooksInv, SaveInv
<1> QED
  BY <1>1, <1>2

\* The books and the document hold the same money whenever the lock is free,
\* no writer is between its posting and its save and none has given up there:
\* lost races, refused saves, lost answers and repairs never set them apart.
THEOREM BooksAndDocumentAgree == Spec => []BooksAgree
<1>1. BooksInv => BooksAgree
  <2>1. SUFFICES ASSUME BooksInv, seeded, ~behind, LockFree, \A w \in Writers : ~posted[w]
                 PROVE  books = doc
    BY DEF BooksAgree
  <2>2. Explained
    BY <2>1 DEF BooksInv, AgreeInv, Settled
  <2>3. books.cash = doc.cash /\ books.holdings = doc.holdings
    BY <2>1, <2>2 DEF Explained, CashFrom, HoldingsFrom
  <2> QED
    BY <2>1, <2>3, SameMoney DEF BooksInv, SaveInv, TypeInv, TypeOK
<1> QED
  BY <1>1, BooksInvInit, BooksInvStep, PTL DEF Spec
=============================================================================
