---------------------------- MODULE InvestorBooks ----------------------------
(***************************************************************************)
(* The money of one investor, kept twice: in the investor document, saved  *)
(* under an optimistic revision, and in the books, a journal in a database *)
(* of its own.  No transaction spans the two.                              *)
(*                                                                         *)
(* saveInvestor commits a reconciliation of the books first, then saves    *)
(* the document, and holds the household's advisory lock across both; a    *)
(* failed save is followed by a repair of the books.  Cash tools and       *)
(* broker imports also post to the books before they call saveInvestor, in *)
(* transactions that hold the lock only for themselves.                    *)
(***************************************************************************)
EXTENDS Integers

CONSTANTS
    Writers,     \* requests, tools and syncs that save the document
    Holdings,    \* values of everything but the cash: positions and deposits
    NoHoldings,  \* an empty portfolio
    Deltas,      \* amounts a tool adds to the cash
    None,
    MaxCash,     \* bound: cash
    MaxCrashes   \* bound: process crashes

Money == [cash : 0..MaxCash, holdings : Holdings]
Empty == [cash |-> 0, holdings |-> NoHoldings]

\* A broker statement; None is a section it defers.
Statement == [cash : 0..MaxCash \cup {None}, holdings : Holdings \cup {None}]

\* What a writer wants: to save some money (the same, if it edits something else),
\* to post a change of the cash, or to import a statement.
Job == [kind : {"edit"}, to : Money] \cup [kind : {"post"}, by : Deltas]
         \cup [kind : {"import"}, from : Statement]

ASSUME MoneyAssumption ==
    /\ MaxCash \in Nat
    /\ NoHoldings \in Holdings
    /\ Deltas \subseteq Int
ASSUME NoneAssumption ==
    /\ None \notin Writers /\ None \notin Holdings
    /\ None \notin 0..MaxCash /\ None \notin Job
ASSUME BoundAssumption == MaxCrashes \in Nat

VARIABLES
    doc,      \* the money in the investor document
    books,    \* the balances of the journal
    seeded,   \* the journal has an entry
    lock,     \* the writer that holds the household lock across two commits
    pc,       \* where each writer is
    job,      \* what it is doing
    base,     \* the money it loaded
    copy,     \* the money it is going to save
    fresh,    \* its copy still carries the stored revision
    tries,    \* revision conflicts its import has met
    crashes

\* Observer variables.
VARIABLES
    posted,   \* the writer has posted to the books and not saved the document yet
    behind    \* a writer has given up after it posted, or could not repair the
              \* books, and the document has not caught up since

stores == <<doc, books, seeded>>
local == <<job, base, copy, fresh, tries>>
vars == <<stores, lock, pc, local, crashes, posted, behind>>

Locked == {"persist", "recover"}
Labels == {"idle", "reload", "seed", "apply", "project", "save", "seedSave",
           "prepare"} \cup Locked

-----------------------------------------------------------------------------
\* Mutant: the lock is given back with the books' commit.
LockNotKept == TRUE

LockFree == lock = None

\* ensureBooksSeeded: a journal without an entry opens with the given money.
SeededWith(m) == IF ~seeded /\ m # Empty THEN m ELSE books

\* A set-to-target reconciliation; a journal that was empty stays empty if
\* there is nothing to post.
BooksBecome(m) == /\ books' = m
                  /\ seeded' = (seeded \/ m # books)

\* The sections of a statement replace those of the money; deferred ones stay.
Applied(m, s) ==
    [cash |-> IF s.cash = None THEN m.cash ELSE s.cash,
     holdings |-> IF s.holdings = None THEN m.holdings ELSE s.holdings]

\* Mutant: cash is not checked.
AnyBalance(d) == TRUE

Sufficient(d) == books.cash + d >= 0

\* Mutant: the books stay where the failed save had put them.
Unrepaired(w) == books

\* withHouseholdPostCommit's recovery, from the money of the failed save to the
\* money that is actually stored.
Repaired(w) == IF copy[w] # doc THEN doc ELSE books

Goto(w, l) == pc' = [pc EXCEPT ![w] = l]

Load(w, money) ==
    /\ base' = [base EXCEPT ![w] = doc]
    /\ copy' = [copy EXCEPT ![w] = money]
    /\ fresh' = [fresh EXCEPT ![w] = TRUE]

\* The call is over.  "posts" says that its postings are left without a save.
End(w, posts) ==
    /\ Goto(w, "idle")
    /\ job' = [job EXCEPT ![w] = None]
    /\ base' = [base EXCEPT ![w] = Empty]
    /\ copy' = [copy EXCEPT ![w] = Empty]
    /\ fresh' = [fresh EXCEPT ![w] = FALSE]
    /\ tries' = [tries EXCEPT ![w] = 0]
    /\ posted' = [posted EXCEPT ![w] = FALSE]
    /\ behind' = ((behind \/ posts) /\ books' # doc')

\* A revision conflict: an import starts again from the stored document, three
\* times in all; everything else fails.
Conflict(w) ==
    \/ /\ job[w].kind = "import" /\ tries[w] < 2
       /\ tries' = [tries EXCEPT ![w] = @ + 1]
       /\ Goto(w, "reload")
       /\ UNCHANGED <<job, base, copy, fresh, posted, behind>>
    \/ /\ ~(job[w].kind = "import" /\ tries[w] < 2)
       /\ End(w, posted[w])

-----------------------------------------------------------------------------
Init ==
    /\ doc \in Money
    /\ books = Empty /\ seeded = FALSE
    /\ lock = None
    /\ pc = [w \in Writers |-> "idle"]
    /\ job = [w \in Writers |-> None]
    /\ base = [w \in Writers |-> Empty]
    /\ copy = [w \in Writers |-> Empty]
    /\ fresh = [w \in Writers |-> FALSE]
    /\ tries = [w \in Writers |-> 0]
    /\ crashes = 0
    /\ posted = [w \in Writers |-> FALSE]
    /\ behind = FALSE

\* loadInvestor, and the change that is made to the copy.
Begin(w, j) ==
    /\ pc[w] = "idle"
    /\ job' = [job EXCEPT ![w] = j]
    /\ \/ j.kind = "edit" /\ Load(w, j.to) /\ Goto(w, "save")
       \/ j.kind # "edit" /\ Load(w, doc) /\ Goto(w, "seed")
    /\ UNCHANGED <<stores, lock, tries, crashes, posted, behind>>

Reload(w) ==
    /\ pc[w] = "reload"
    /\ Load(w, doc)
    /\ Goto(w, "seed")
    /\ UNCHANGED <<stores, lock, job, tries, crashes, posted, behind>>

-----------------------------------------------------------------------------
(* Postings ahead of the save.  Each is a transaction under the lock.       *)

Seed(w) ==
    /\ pc[w] = "seed"
    /\ LockFree
    /\ BooksBecome(SeededWith(copy[w]))
    /\ Goto(w, "apply")
    /\ UNCHANGED <<doc, lock, local, crashes, posted, behind>>

\* A cash tool posts its amount ...
Post(w) ==
    /\ pc[w] = "apply"
    /\ job[w].kind = "post"
    /\ LockFree
    /\ Sufficient(job[w].by)
    /\ books.cash + job[w].by <= MaxCash
    /\ books' = [books EXCEPT !.cash = @ + job[w].by]
    /\ seeded' = TRUE
    /\ posted' = [posted EXCEPT ![w] = TRUE]
    /\ Goto(w, "project")
    /\ UNCHANGED <<doc, lock, local, crashes, behind>>

\* ... and then takes the books' cash into its copy of the document.
Project(w) ==
    /\ pc[w] = "project"
    /\ LockFree
    /\ copy' = [copy EXCEPT ![w].cash = books.cash]
    /\ Goto(w, "save")
    /\ UNCHANGED <<stores, lock, job, base, fresh, tries, crashes, posted, behind>>

\* applyBrokerStatement: books and copy both become what the statement says.
Apply(w) ==
    /\ pc[w] = "apply"
    /\ job[w].kind = "import"
    /\ LockFree
    /\ BooksBecome(Applied(books, job[w].from))
    /\ copy' = [copy EXCEPT ![w] = Applied(@, job[w].from)]
    /\ posted' = [posted EXCEPT ![w] = TRUE]
    /\ Goto(w, "save")
    /\ UNCHANGED <<doc, lock, job, base, fresh, tries, crashes, behind>>

-----------------------------------------------------------------------------
(* saveInvestor.                                                           *)

\* The stored revision is compared before the books are touched ...
Check(w) ==
    /\ pc[w] = "save"
    /\ UNCHANGED <<stores, lock, crashes>>
    /\ \/ /\ fresh[w]
          /\ Goto(w, "seedSave")
          /\ UNCHANGED <<local, posted, behind>>
       \/ /\ ~fresh[w]
          /\ Conflict(w)

\* ... which are seeded from the document as stored then.
SeedSave(w) ==
    /\ pc[w] = "seedSave"
    /\ LockFree
    /\ BooksBecome(SeededWith(base[w]))
    /\ Goto(w, "prepare")
    /\ UNCHANGED <<doc, lock, local, crashes, posted, behind>>

\* Under the lock the revision is compared again and the books are reconciled to
\* the money about to be saved, unless it is the stored money.  (Stored rows also
\* carry dates, so rows written by a posting may count as changed when the
\* amounts are the same.)
Prepare(w) ==
    /\ pc[w] = "prepare"
    /\ LockFree
    /\ fresh[w]
    /\ \/ copy[w] = doc /\ UNCHANGED <<books, seeded>>
       \/ (copy[w] # doc \/ posted[w]) /\ BooksBecome(copy[w])
    /\ lock' = w
    /\ Goto(w, "persist")
    /\ UNCHANGED <<doc, local, crashes, posted, behind>>

PrepareConflict(w) ==
    /\ pc[w] = "prepare"
    /\ LockFree
    /\ ~fresh[w]
    /\ UNCHANGED <<stores, lock, crashes>>
    /\ Conflict(w)

\* The books are committed; now the document is.
Stored(w) ==
    /\ fresh[w]
    /\ doc' = copy[w]

Persist(w) ==
    /\ pc[w] = "persist"
    /\ Stored(w)
    /\ lock' = None
    /\ Goto(w, "idle")
    /\ job' = [job EXCEPT ![w] = None]
    /\ base' = [base EXCEPT ![w] = Empty]
    /\ copy' = [copy EXCEPT ![w] = Empty]
    /\ fresh' = [x \in Writers |-> FALSE]
    /\ tries' = [tries EXCEPT ![w] = 0]
    /\ posted' = [posted EXCEPT ![w] = FALSE]
    /\ behind' = (behind /\ books # copy[w])
    /\ UNCHANGED <<books, seeded, crashes>>

\* The save is refused or fails, or succeeds and its answer is lost.
PersistFails(w) ==
    /\ pc[w] = "persist"
    /\ \/ UNCHANGED <<doc, fresh>>
       \/ Stored(w) /\ fresh' = [x \in Writers |-> FALSE]
    /\ Goto(w, "recover")
    /\ UNCHANGED <<books, seeded, lock, job, base, copy, tries, crashes, posted, behind>>

\* The books go back to the money actually stored; then the error is reported,
\* a revision conflict as one.
Recover(w) ==
    /\ pc[w] = "recover"
    /\ BooksBecome(Repaired(w))
    /\ lock' = None
    /\ UNCHANGED <<doc, crashes>>
    /\ \/ ~fresh[w] /\ Conflict(w)
       \/ End(w, posted[w])

RecoverFails(w) ==
    /\ pc[w] = "recover"
    /\ lock' = None
    /\ UNCHANGED <<stores, crashes>>
    /\ End(w, TRUE)

-----------------------------------------------------------------------------
\* Any error of the databases, the statement or the amounts before the two commits.
Fail(w) ==
    /\ pc[w] \notin Locked \cup {"idle"}
    /\ UNCHANGED <<stores, lock, crashes>>
    /\ End(w, posted[w])

\* A save of something else that does not go through saveInvestor.
SaveElsewhere ==
    /\ fresh' = [w \in Writers |-> FALSE]
    /\ UNCHANGED <<stores, lock, pc, job, base, copy, tries, crashes, posted, behind>>

\* The process dies: its transaction and its lock go with it.
Crash(w) ==
    /\ pc[w] # "idle"
    /\ crashes < MaxCrashes
    /\ crashes' = crashes + 1
    /\ lock' = IF lock = w THEN None ELSE lock
    /\ UNCHANGED stores
    /\ End(w, posted[w] \/ lock = w)

Step(w) ==
    \/ \E j \in Job : Begin(w, j)
    \/ Reload(w) \/ Seed(w) \/ Post(w) \/ Project(w) \/ Apply(w)
    \/ Check(w) \/ SeedSave(w) \/ Prepare(w) \/ PrepareConflict(w)
    \/ Persist(w) \/ PersistFails(w) \/ Recover(w) \/ RecoverFails(w)
    \/ Fail(w) \/ Crash(w)

Next == (\E w \in Writers : Step(w)) \/ SaveElsewhere

Spec == Init /\ [][Next]_vars

-----------------------------------------------------------------------------
(* Properties.                                                             *)

\* Types of all variables.
TypeOK ==
    /\ doc \in Money /\ books \in Money
    /\ seeded \in BOOLEAN
    /\ lock \in Writers \cup {None}
    /\ pc \in [Writers -> Labels]
    /\ job \in [Writers -> Job \cup {None}]
    /\ base \in [Writers -> Money]
    /\ copy \in [Writers -> Money]
    /\ fresh \in [Writers -> BOOLEAN]
    /\ tries \in [Writers -> 0..2]
    /\ crashes \in 0..MaxCrashes
    /\ posted \in [Writers -> BOOLEAN]
    /\ behind \in BOOLEAN

\* Books and document hold the same money whenever no save or posting is under
\* way, unless a writer gave up between its posting and its save or could not
\* repair the books: lost races, refused saves, lost answers and seeding from a
\* document that is changing never set them apart.
BooksAgree ==
    seeded /\ ~behind /\ LockFree /\ (\A w \in Writers : ~posted[w]) => books = doc

\* Whenever the document's money changes, the books already hold the new money:
\* no posting of another writer gets between the two commits of saveInvestor.
MoneyFollowsBooks == [][doc' # doc => books' = doc']_vars
=============================================================================
