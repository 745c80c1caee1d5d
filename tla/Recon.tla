-------------------------------- MODULE Recon --------------------------------
(***************************************************************************)
(* The reconciliation of a household with its statements (src/src/recon):  *)
(* a session in the investor document walks the custody channels; for each *)
(* a statement is compared line by line with the document, the user        *)
(* decides every line, and the lines taken are applied.                    *)
(*                                                                         *)
(* Every tool loads the document, works on its copy and saves it under the *)
(* revision it loaded, so a tool without an await in between is one step   *)
(* here.  Applying posts each cash line to the books in a transaction of   *)
(* its own first, and other tools post and save meanwhile.                 *)
(***************************************************************************)
EXTENDS Integers, Sequences, SequencesExt

CONSTANTS
  Walk,         \* the channels, in the order of the walk
  Currencies,   \* lines of cash
  Deposits,     \* lines of deposits
  Lots,         \* lines of lots
  Holdings,     \* what each sleeve may hold at first, 0 for no row
  Statements,   \* what its statements may say of each item
  Jobs,         \* calls of apply_recon_channel at work
  None,         \* no row on a statement, no decision, no session
  MaxAmount,    \* bound on what is in a sleeve
  MaxStarts,    \* bound on the sessions started
  MaxOthers     \* bound on the postings and edits of other tools

Sleeves == ToSet(Walk)
Funds == Currencies \cup Deposits
Items == Funds \cup Lots

ASSUME ReconAssumption ==
  /\ Walk \in Seq(Sleeves)
  /\ Walk # <<>>
  /\ Currencies \cap Deposits = {} /\ Lots \cap Funds = {}
  /\ None \notin Int
  /\ Holdings \in [Sleeves -> SUBSET [Items -> Nat]]
  /\ Statements \in [Sleeves -> SUBSET [Items -> Int \cup {None}]]
  /\ MaxAmount \in Nat
  /\ MaxStarts \in Nat
  /\ MaxOthers \in Nat

VARIABLES
  held,     \* what the stored document holds per sleeve and item; 0: no row
  recon,    \* the session in the stored document: per sleeve its status and lines
  ledger,   \* balances of cash and deposits in the books
  job,      \* what each call that applies has loaded, and what it has left to do
  starts, others    \* counters for the bounds

vars == <<held, recon, ledger, job, starts, others>>

-----------------------------------------------------------------------------
(* Lines, sleeves and sessions.  The decision "skip" does what "keep" does.   *)

Line == [books : Int, statement : Int \cup {None}, decision : {None, "keep", "take"}]
Sleeve == [status : {"pending", "compared", "applied", "skipped"}, lines : [Items -> Line]]

(* An item without a row on either side has no line. *)
Listed(line) == line.books # 0 \/ line.statement # None
IsMatch(books, statement) == statement = (IF books = 0 THEN None ELSE books)

NoLine == [books |-> 0, statement |-> None, decision |-> None]
Pending == [status |-> "pending", lines |-> [i \in Items |-> NoLine]]

Open(session, s) == session[s].status \notin {"applied", "skipped"}
Done(session) == \A s \in Sleeves : ~Open(session, s)
Current(session) == SelectSeq(Walk, LAMBDA s : Open(session, s))[1]

CompareChannel(s, statement) ==
  [i \in Items |-> [books |-> held[s][i], statement |-> statement[i],
                    decision |-> IF IsMatch(held[s][i], statement[i]) THEN "keep" ELSE None]]

Undecided(lines) == {i \in Items : Listed(lines[i]) /\ lines[i].decision = None}

\* Mutant: what the user keeps is written as well.
Decided(lines) == {i \in Items : Listed(lines[i]) /\ lines[i].decision # None}
Takes(lines) == {i \in Items : Listed(lines[i]) /\ lines[i].decision = "take"}

(* A statement may come from a connector unchecked; reading the session back *)
(* refuses debit cash and lots that are not held long.                       *)
Readable(session) ==
  \A s \in Sleeves, i \in Items :
    LET amount == session[s].lines[i].statement
    IN  amount # None => amount >= 0 /\ (i \in Lots => amount > 0)

InSession == recon # None /\ Readable(recon)

-----------------------------------------------------------------------------
(* Tools without an await between load and save.  Their saves change no      *)
(* money, so the books are not reconciled; copies loaded before go stale.    *)

Superseded == job' = [j \in Jobs |-> IF job[j] = None THEN None
                                     ELSE [job[j] EXCEPT !.fresh = FALSE]]
SaveSession(session) ==
  /\ recon' = session
  /\ Superseded
  /\ UNCHANGED <<held, ledger, others>>

StartRecon(restart) ==
  /\ recon # None => Readable(recon) /\ (Done(recon) \/ restart)
  /\ starts < MaxStarts
  /\ starts' = starts + 1
  /\ SaveSession([s \in Sleeves |-> Pending])

SourceReconStatement(s, statement) ==
  /\ InSession
  /\ Open(recon, s)
  /\ LET lines == CompareChannel(s, statement)
         left  == Undecided(lines)
     IN  SaveSession([recon EXCEPT ![s] = [status |-> IF left = {} THEN "applied" ELSE "compared",
                                           lines |-> lines]])
  /\ UNCHANGED starts

DecideReconLine(i, decision) ==
  /\ InSession
  /\ ~Done(recon)
  /\ LET s == Current(recon)
     IN  /\ recon[s].status = "compared"
         /\ Listed(recon[s].lines[i])
         /\ SaveSession([recon EXCEPT ![s].lines[i].decision = decision])
  /\ UNCHANGED starts

SkipReconChannel(s) ==
  /\ InSession
  /\ ~Done(recon)
  /\ recon[s].status # "applied"
  /\ SaveSession([recon EXCEPT ![s].status = "skipped"])
  /\ UNCHANGED starts

-----------------------------------------------------------------------------
(* Applying a sleeve.                                                         *)

Wanted(line) == IF line.statement = None THEN 0 ELSE line.statement

(* Lots and deposits are taken into the copy at once. *)
TakenInto(sleeve, lines) ==
  [i \in Items |-> IF i \in Takes(lines) \ Currencies THEN Wanted(lines[i]) ELSE sleeve[i]]

(* Whether books, document and compared lines agree: for the properties only. *)
Agreed(s) == /\ \A t \in Sleeves, i \in Funds : ledger[t][i] = held[t][i]
             /\ \A i \in Takes(recon[s].lines) : recon[s].lines[i].books = held[s][i]

ApplyReconChannel(j, s) ==
  /\ job[j] = None
  /\ InSession
  /\ recon[s].status = "compared"
  /\ Undecided(recon[s].lines) = {}
  /\ job' = [job EXCEPT ![j] =
       [sleeve |-> s,
        lines  |-> recon[s].lines,
        copy   |-> [held EXCEPT ![s] = TakenInto(@, recon[s].lines)],
        todo   |-> Takes(recon[s].lines) \cap Currencies,
        fresh  |-> TRUE,
        calm   |-> Agreed(s)]]
  /\ UNCHANGED <<held, recon, ledger, starts, others>>

(* syncBooksProjectionsToState: cash and deposits of all sleeves. *)
Projected(copy, books) ==
  [s \in Sleeves |-> [i \in Items |-> IF i \in Funds THEN books[s][i] ELSE copy[s][i]]]

\* Mutant: the amount of the statement is posted on top.
WholeAmount(line) == Wanted(line)
Delta(line) == Wanted(line) - line.books

\* Mutant: an adjustment is posted whatever the balance is by now.
AnyBalance(balance, line) ==
  line.books = 0 => balance = 0 /\ Wanted(line) > 0
(* An opening needs an empty sleeve; an adjustment may lower it to zero only. *)
Postable(balance, line) ==
  IF line.books = 0 THEN balance = 0 /\ Wanted(line) > 0
  ELSE Delta(line) < 0 => balance + Delta(line) >= 0

PostCashLine(j, c) ==
  LET s    == job[j].sleeve
      line == job[j].lines[c]
  IN  /\ job[j] # None
      /\ c \in job[j].todo
      /\ IF Delta(line) = 0
         THEN /\ job' = [job EXCEPT ![j].todo = @ \ {c}]
              /\ UNCHANGED ledger
         ELSE /\ Postable(ledger[s][c], line)
              /\ ledger[s][c] + Delta(line) <= MaxAmount
              /\ ledger' = [ledger EXCEPT ![s][c] = @ + Delta(line)]
              /\ job' = [k \in Jobs |->
                   IF k = j THEN [job[j] EXCEPT !.todo = @ \ {c},
                                                !.copy = Projected(@, ledger')]
                   ELSE IF job[k] = None THEN None ELSE [job[k] EXCEPT !.calm = FALSE]]
      /\ UNCHANGED <<held, recon, starts, others>>

(* A save whose copy is not the latest is refused; one that changes money    *)
(* brings the books in line first.                                           *)
\* Mutant: the copy overwrites whatever is stored.
EvenStale(j) == TRUE
Latest(j) == job[j].fresh

ApplySave(j) ==
  /\ job[j] # None
  /\ job[j].todo = {}
  /\ Latest(j)
  /\ held' = job[j].copy
  /\ ledger' = IF held' = held THEN ledger
               ELSE [s \in Sleeves |-> [i \in Funds |-> held'[s][i]]]
  /\ recon' = [recon EXCEPT ![job[j].sleeve] = [status |-> "applied", lines |-> job[j].lines]]
  /\ job' = [k \in Jobs |-> IF k = j \/ job[k] = None THEN None
                            ELSE [job[k] EXCEPT !.fresh = FALSE]]
  /\ UNCHANGED <<starts, others>>

(* A refused line, a conflict, a failed save: what was posted stays posted. *)
Abandon(j) ==
  /\ job[j] # None
  /\ job' = [job EXCEPT ![j] = None]
  /\ UNCHANGED <<held, recon, ledger, starts, others>>

-----------------------------------------------------------------------------
(* Other tools, on cash and on lots.                                          *)

Disturbed(stale) ==
  job' = [j \in Jobs |-> IF job[j] = None THEN None
            ELSE [job[j] EXCEPT !.calm = FALSE, !.fresh = @ /\ ~stale]]

(* A cash tool: its posting is projected and saved, or its save is lost. *)
CashTool(s, c, delta, saved) ==
  /\ others < MaxOthers
  /\ others' = others + 1
  /\ ledger[s][c] + delta \in 0 .. MaxAmount
  /\ ledger' = [ledger EXCEPT ![s][c] = @ + delta]
  /\ held' = IF saved THEN Projected(held, ledger') ELSE held
  /\ Disturbed(saved)
  /\ UNCHANGED <<recon, starts>>

(* An edit of a lot: the books are brought back to the document it saves. *)
EditLot(s, l, units) ==
  /\ others < MaxOthers
  /\ others' = others + 1
  /\ held[s][l] # units
  /\ held' = [held EXCEPT ![s][l] = units]
  /\ ledger' = [t \in Sleeves |-> [i \in Funds |-> held[t][i]]]
  /\ Disturbed(TRUE)
  /\ UNCHANGED <<recon, starts>>

-----------------------------------------------------------------------------
Init ==
  /\ held \in {h \in [Sleeves -> UNION {Holdings[s] : s \in Sleeves}] :
               \A s \in Sleeves : h[s] \in Holdings[s]}
  /\ ledger = [s \in Sleeves |-> [i \in Funds |-> held[s][i]]]
  /\ recon = None
  /\ job = [j \in Jobs |-> None]
  /\ starts = 0
  /\ others = 0

Next ==
  \/ \E restart \in BOOLEAN : StartRecon(restart)
  \/ \E s \in Sleeves :
       \/ \E statement \in Statements[s] : SourceReconStatement(s, statement)
       \/ SkipReconChannel(s)
       \/ \E j \in Jobs : ApplyReconChannel(j, s)
       \/ \E c \in Currencies, delta \in {-1, 1}, saved \in BOOLEAN : CashTool(s, c, delta, saved)
       \/ \E l \in Lots, units \in 0 .. MaxAmount : EditLot(s, l, units)
  \/ \E i \in Items, decision \in {"keep", "take"} : DecideReconLine(i, decision)
  \/ \E j \in Jobs :
       \/ \E c \in Currencies : PostCashLine(j, c)
       \/ ApplySave(j)
       \/ Abandon(j)

Spec == Init /\ [][Next]_vars

-----------------------------------------------------------------------------
(***************************************************************************)
(* Types: no posting of a reconciliation takes a sleeve below zero.        *)
(***************************************************************************)
TypeOK ==
  /\ held \in [Sleeves -> [Items -> Nat]]
  /\ ledger \in [Sleeves -> [Funds -> Nat]]
  /\ recon \in [Sleeves -> Sleeve] \cup {None}
  /\ job \in [Jobs -> {None} \cup [sleeve : Sleeves, lines : [Items -> Line],
                                   copy : [Sleeves -> [Items -> Nat]],
                                   todo : SUBSET Currencies, fresh : BOOLEAN, calm : BOOLEAN]]
  /\ starts \in Nat /\ others \in Nat

(***************************************************************************)
(* A sleeve that is finished stays as it is until the walk is started      *)
(* anew (session.ts:98, apply.ts:102): neither a late apply of an earlier  *)
(* session nor a decision taken meanwhile opens it or rewrites its lines.  *)
(***************************************************************************)
FinishedStay ==
  [][recon # None /\ starts' = starts
       => \A s \in Sleeves : ~Open(recon, s) => recon'[s] = recon[s]]_vars

(***************************************************************************)
(* "journal only the lines the user took" (channel-recon-flow-design.md:9): *)
(* where books and document agreed with the compared lines and nobody else *)
(* posted meanwhile, an apply changes what was taken and nothing else, in  *)
(* its own sleeve and, for all its projections, in the others.             *)
(***************************************************************************)
OnlyTakes ==
  [][\A j \in Jobs : ApplySave(j) /\ job[j].calm =>
       \A s \in Sleeves, i \in Items :
         held'[s][i] # held[s][i]
           => s = job[j].sleeve /\ job[j].lines[i].decision = "take"]_vars

(***************************************************************************)
(* "take (statement wins)" (tools/recon.ts:194): where books and document  *)
(* agreed with the compared lines and nobody else posted meanwhile, an     *)
(* applied sleeve holds what the statement says of every line taken.       *)
(***************************************************************************)
Wins(j, i) == held'[job[j].sleeve][i] = Wanted(job[j].lines[i])
TakesWin ==
  [][\A j \in Jobs : ApplySave(j) /\ job[j].calm =>
       \A i \in Takes(job[j].lines) : Wins(j, i)]_vars

(***************************************************************************)
(* The same as far as the code keeps it: for deposits only where no cash   *)
(* line of the sleeve was posted, since each posting brings the deposits   *)
(* of the books back into the copy (apply.ts:191-209, service.ts:124).     *)
(***************************************************************************)
CashMoved(lines) == \E c \in Takes(lines) \cap Currencies : Delta(lines[c]) # 0
TakesWinApart ==
  [][\A j \in Jobs : ApplySave(j) /\ job[j].calm =>
       \A i \in Takes(job[j].lines) :
         (i \in Deposits => ~CashMoved(job[j].lines)) => Wins(j, i)]_vars
=============================================================================
