---------------------------- MODULE Recon_proofs ----------------------------
(* Proofs about Recon: types, that finished sleeves stay as they are, and   *)
(* what an apply writes.                                                    *)
EXTENDS Recon, TLAPS

ApplyJob == [sleeve : Sleeves, lines : [Items -> Line], copy : [Sleeves -> [Items -> Nat]],
             todo : SUBSET Currencies, fresh : BOOLEAN, calm : BOOLEAN]

-----------------------------------------------------------------------------
(* The parts of the state that the operations build.                         *)

LEMMA ItemSets == /\ Currencies \subseteq Items /\ Deposits \subseteq Items /\ Lots \subseteq Items
                  /\ Currencies \subseteq Funds /\ Funds \subseteq Items
BY DEF Items, Funds

LEMMA SupersededType ==
    ASSUME TypeOK, Superseded PROVE job' \in [Jobs -> {None} \cup ApplyJob]
<1>1. ASSUME NEW j \in Jobs, job[j] # None
      PROVE  [job[j] EXCEPT !.fresh = FALSE] \in ApplyJob
  BY <1>1 DEF TypeOK, ApplyJob
<1> QED
  BY <1>1 DEF Superseded

LEMMA DisturbedType ==
    ASSUME TypeOK, NEW stale \in BOOLEAN, Disturbed(stale)
    PROVE  job' \in [Jobs -> {None} \cup ApplyJob]
<1>1. ASSUME NEW j \in Jobs, job[j] # None
      PROVE  [job[j] EXCEPT !.calm = FALSE, !.fresh = @ /\ ~stale] \in ApplyJob
  <2>1. job[j] \in ApplyJob
    BY <1>1 DEF TypeOK, ApplyJob
  <2>2. (job[j].fresh /\ ~stale) \in BOOLEAN
    OBVIOUS
  <2> QED
    BY <2>1, <2>2 DEF ApplyJob
<1> QED
  BY <1>1 DEF Disturbed

LEMMA SaveSessionType ==
    ASSUME TypeOK, NEW session, session \in [Sleeves -> Sleeve], SaveSession(session),
           starts' \in Nat
    PROVE  TypeOK'
BY SupersededType DEF SaveSession, TypeOK, ApplyJob

LEMMA SleevesType ==
    ASSUME TypeOK, recon # None PROVE recon \in [Sleeves -> Sleeve]
BY DEF TypeOK

LEMMA CompareType ==
    ASSUME TypeOK, NEW s \in Sleeves, NEW statement \in Statements[s]
    PROVE  CompareChannel(s, statement) \in [Items -> Line]
<1>1. statement \in [Items -> Int \cup {None}]
  BY ReconAssumption
<1>2. \A i \in Items : held[s][i] \in Int
  BY DEF TypeOK
<1> QED
  BY <1>1, <1>2 DEF CompareChannel, Line

LEMMA WantedType ==
    ASSUME TypeOK, InSession, NEW s \in Sleeves, NEW i \in Items
    PROVE  Wanted(recon[s].lines[i]) \in Nat
<1>1. recon[s].lines[i].statement \in Int \cup {None}
  BY SleevesType DEF InSession, Sleeve, Line
<1>2. recon[s].lines[i].statement # None => recon[s].lines[i].statement >= 0
  BY DEF InSession, Readable
<1> QED
  BY <1>1, <1>2 DEF Wanted

LEMMA DeltaType ==
    ASSUME NEW line \in Line
    PROVE  Delta(line) \in Int /\ Wanted(line) \in Int /\ line.books \in Int
           /\ (line.books = 0 => Delta(line) = Wanted(line))
BY DEF Delta, Wanted, Line

LEMMA ProjectedType ==
    ASSUME NEW copy \in [Sleeves -> [Items -> Nat]], NEW books \in [Sleeves -> [Funds -> Nat]]
    PROVE  Projected(copy, books) \in [Sleeves -> [Items -> Nat]]
BY DEF Projected

LEMMA FundsType ==
    ASSUME NEW sleeves \in [Sleeves -> [Items -> Nat]]
    PROVE  [s \in Sleeves |-> [i \in Funds |-> sleeves[s][i]]] \in [Sleeves -> [Funds -> Nat]]
BY ItemSets

-----------------------------------------------------------------------------
(* Types.                                                                    *)

LEMMA StartType ==
    ASSUME TypeOK, NEW restart \in BOOLEAN, StartRecon(restart) PROVE TypeOK'
<1>1. [s \in Sleeves |-> Pending] \in [Sleeves -> Sleeve]
  BY DEF Pending, NoLine, Sleeve, Line
<1> QED
  BY <1>1, SaveSessionType DEF StartRecon, TypeOK

LEMMA SourceType ==
    ASSUME TypeOK, NEW s \in Sleeves, NEW statement \in Statements[s],
           SourceReconStatement(s, statement)
    PROVE  TypeOK'
<1> DEFINE lines == CompareChannel(s, statement)
           status == IF Undecided(lines) = {} THEN "applied" ELSE "compared"
           next == [recon EXCEPT ![s] = [status |-> status, lines |-> lines]]
<1>1. recon \in [Sleeves -> Sleeve]
  BY SleevesType DEF SourceReconStatement, InSession
<1>2. next \in [Sleeves -> Sleeve]
  <2>1. [status |-> status, lines |-> lines] \in Sleeve
    BY CompareType DEF Sleeve
  <2> QED
    BY <1>1, <2>1
<1>3. SaveSession(next) /\ starts' = starts
  BY DEF SourceReconStatement
<1> QED
  BY <1>2, <1>3, SaveSessionType DEF TypeOK

LEMMA DecideType ==
    ASSUME TypeOK, NEW i \in Items, NEW decision \in {"keep", "take"},
           DecideReconLine(i, decision)
    PROVE  TypeOK'
<1> DEFINE s == Current(recon)
           next == [recon EXCEPT ![s].lines[i].decision = decision]
<1>1. recon \in [Sleeves -> Sleeve]
  BY SleevesType DEF DecideReconLine, InSession
<1>2. next \in [Sleeves -> Sleeve]
  <2>1. CASE s \in Sleeves
    <3>1. [recon[s].lines[i] EXCEPT !.decision = decision] \in Line
      BY <1>1, <2>1 DEF Sleeve, Line
    <3>2. [recon[s] EXCEPT !.lines[i].decision = decision] \in Sleeve
      BY <1>1, <2>1, <3>1 DEF Sleeve
    <3> QED
      BY <1>1, <2>1, <3>2
  <2>2. CASE s \notin Sleeves
    BY <1>1, <2>2
  <2> QED
    BY <2>1, <2>2
<1>3. SaveSession(next) /\ starts' = starts
  BY DEF DecideReconLine
<1> QED
  BY <1>2, <1>3, SaveSessionType DEF TypeOK

LEMMA SkipType ==
    ASSUME TypeOK, NEW s \in Sleeves, SkipReconChannel(s) PROVE TypeOK'
<1>1. recon \in [Sleeves -> Sleeve]
  BY SleevesType DEF SkipReconChannel, InSession
<1>2. [recon EXCEPT ![s].status = "skipped"] \in [Sleeves -> Sleeve]
  BY <1>1 DEF Sleeve
<1> QED
  BY <1>2, SaveSessionType DEF SkipReconChannel, TypeOK

LEMMA ApplyType ==
    ASSUME TypeOK, NEW j \in Jobs, NEW s \in Sleeves, ApplyReconChannel(j, s) PROVE TypeOK'
<1>1. InSession /\ recon \in [Sleeves -> Sleeve]
  BY SleevesType DEF ApplyReconChannel, InSession
<1>2. TakenInto(held[s], recon[s].lines) \in [Items -> Nat]
  BY <1>1, WantedType DEF TakenInto, TypeOK
<1>3. [held EXCEPT ![s] = TakenInto(@, recon[s].lines)] \in [Sleeves -> [Items -> Nat]]
  BY <1>2 DEF TypeOK
<1>4. Agreed(s) \in BOOLEAN
  BY DEF Agreed
<1>5. recon[s].lines \in [Items -> Line]
  BY <1>1 DEF Sleeve
<1>6. job' \in [Jobs -> {None} \cup ApplyJob]
  <2> DEFINE new == [sleeve |-> s, lines |-> recon[s].lines,
                     copy |-> [held EXCEPT ![s] = TakenInto(@, recon[s].lines)],
                     todo |-> Takes(recon[s].lines) \cap Currencies,
                     fresh |-> TRUE, calm |-> Agreed(s)]
  <2>1. new \in ApplyJob
    BY <1>3, <1>4, <1>5 DEF ApplyJob
  <2>2. job' = [job EXCEPT ![j] = new]
    BY DEF ApplyReconChannel
  <2> HIDE DEF new
  <2> QED
    BY <2>1, <2>2 DEF TypeOK, ApplyJob
<1> QED
  BY <1>6 DEF ApplyReconChannel, TypeOK, ApplyJob

LEMMA PostType ==
    ASSUME TypeOK, NEW j \in Jobs, NEW c \in Currencies, PostCashLine(j, c)
    PROVE  TypeOK' /\ recon' = recon
<1> DEFINE s == job[j].sleeve
           line == job[j].lines[c]
<1>1. job[j] \in ApplyJob /\ c \in Funds /\ c \in Items
  BY ItemSets DEF PostCashLine, TypeOK, ApplyJob
<1>2. s \in Sleeves /\ line \in Line /\ job[j].copy \in [Sleeves -> [Items -> Nat]]
      /\ job[j].todo \ {c} \in SUBSET Currencies
  BY <1>1 DEF ApplyJob
<1>3. UNCHANGED <<held, recon, starts, others>>
  BY DEF PostCashLine
<1>4. CASE Delta(line) = 0
  <2>1. job' = [job EXCEPT ![j].todo = @ \ {c}] /\ ledger' = ledger
    BY <1>4 DEF PostCashLine
  <2>2. [job[j] EXCEPT !.todo = @ \ {c}] \in ApplyJob
    BY <1>1 DEF ApplyJob
  <2> QED
    BY <1>3, <2>1, <2>2 DEF TypeOK, ApplyJob
<1>5. CASE Delta(line) # 0
  <2>1. /\ Postable(ledger[s][c], line)
        /\ ledger' = [ledger EXCEPT ![s][c] = @ + Delta(line)]
        /\ job' = [k \in Jobs |->
             IF k = j THEN [job[j] EXCEPT !.todo = @ \ {c}, !.copy = Projected(@, ledger')]
             ELSE IF job[k] = None THEN None ELSE [job[k] EXCEPT !.calm = FALSE]]
    BY <1>5 DEF PostCashLine
  <2>2. ledger[s][c] + Delta(line) \in Nat
    <3>1. ledger[s][c] \in Nat
      BY <1>1, <1>2 DEF TypeOK
    <3> QED
      BY <1>2, <2>1, <3>1, DeltaType DEF Postable
  <2>3. ledger' \in [Sleeves -> [Funds -> Nat]]
    BY <1>1, <1>2, <2>1, <2>2 DEF TypeOK
  <2>4. Projected(job[j].copy, ledger') \in [Sleeves -> [Items -> Nat]]
    BY <1>2, <2>3, ProjectedType
  <2>5. [job[j] EXCEPT !.todo = @ \ {c}, !.copy = Projected(@, ledger')] \in ApplyJob
    BY <1>1, <2>4 DEF ApplyJob
  <2>6. \A k \in Jobs : job[k] # None => [job[k] EXCEPT !.calm = FALSE] \in ApplyJob
    BY DEF TypeOK, ApplyJob
  <2>7. job' \in [Jobs -> {None} \cup ApplyJob]
    BY <2>1, <2>5, <2>6
  <2> QED
    BY <1>3, <2>3, <2>7 DEF TypeOK, ApplyJob
<1> QED
  BY <1>3, <1>4, <1>5

LEMMA SaveType ==
    ASSUME TypeOK, NEW j \in Jobs, ApplySave(j), recon # None PROVE TypeOK'
<1>1. job[j] \in ApplyJob
  BY DEF ApplySave, TypeOK, ApplyJob
<1>2. held' \in [Sleeves -> [Items -> Nat]]
  BY <1>1 DEF ApplySave, ApplyJob
<1>3. ledger' \in [Sleeves -> [Funds -> Nat]]
  BY <1>2, FundsType DEF ApplySave, TypeOK
<1>4. recon' \in [Sleeves -> Sleeve]
  <2>1. [status |-> "applied", lines |-> job[j].lines] \in Sleeve
    BY <1>1 DEF ApplyJob, Sleeve
  <2> QED
    BY <2>1, SleevesType DEF ApplySave
<1>5. job' \in [Jobs -> {None} \cup ApplyJob]
  <2>1. \A k \in Jobs : job[k] # None => [job[k] EXCEPT !.fresh = FALSE] \in ApplyJob
    BY DEF TypeOK, ApplyJob
  <2> QED
    BY <2>1 DEF ApplySave
<1> QED
  BY <1>2, <1>3, <1>4, <1>5 DEF ApplySave, TypeOK, ApplyJob

LEMMA CashToolType ==
    ASSUME TypeOK, NEW s \in Sleeves, NEW c \in Currencies, NEW delta \in {-1, 1},
           NEW saved \in BOOLEAN, CashTool(s, c, delta, saved)
    PROVE  TypeOK'
<1>1. ledger' \in [Sleeves -> [Funds -> Nat]]
  <2>1. ledger[s][c] + delta \in Nat
    BY ReconAssumption DEF CashTool
  <2> QED
    BY <2>1 DEF CashTool, TypeOK
<1>2. held' \in [Sleeves -> [Items -> Nat]]
  BY <1>1, ProjectedType DEF CashTool, TypeOK
<1>3. job' \in [Jobs -> {None} \cup ApplyJob]
  BY DisturbedType DEF CashTool
<1>4. others' \in Nat /\ UNCHANGED <<recon, starts>>
  BY DEF CashTool, TypeOK
<1> QED
  BY <1>1, <1>2, <1>3, <1>4 DEF TypeOK, ApplyJob

LEMMA EditType ==
    ASSUME TypeOK, NEW s \in Sleeves, NEW l \in Lots, NEW units \in 0 .. MaxAmount,
           EditLot(s, l, units)
    PROVE  TypeOK'
<1>1. units \in Nat
  BY ReconAssumption
<1>2. held' \in [Sleeves -> [Items -> Nat]]
  BY <1>1 DEF EditLot, TypeOK
<1>3. ledger' \in [Sleeves -> [Funds -> Nat]]
  BY FundsType DEF EditLot, TypeOK
<1>4. job' \in [Jobs -> {None} \cup ApplyJob]
  BY DisturbedType DEF EditLot
<1> QED
  BY <1>2, <1>3, <1>4 DEF EditLot, TypeOK, ApplyJob
-----------------------------------------------------------------------------
(* An apply whose copy is the latest has its sleeve still compared: whatever *)
(* touched the session since has superseded the copy.                        *)

LatestOpen == \A j \in Jobs : job[j] # None /\ job[j].fresh =>
                recon # None /\ recon[job[j].sleeve].status = "compared"

IInv == TypeOK /\ LatestOpen

LEMMA TypeStep == ASSUME IInv, [Next]_vars PROVE TypeOK'
<1>1. CASE \E restart \in BOOLEAN : StartRecon(restart)
  BY <1>1, StartType DEF IInv
<1>2. ASSUME NEW s \in Sleeves, NEW statement \in Statements[s],
             SourceReconStatement(s, statement)
      PROVE  TypeOK'
  BY <1>2, SourceType DEF IInv
<1>3. ASSUME NEW s \in Sleeves, SkipReconChannel(s) PROVE TypeOK'
  BY <1>3, SkipType DEF IInv
<1>4. ASSUME NEW s \in Sleeves, NEW j \in Jobs, ApplyReconChannel(j, s) PROVE TypeOK'
  BY <1>4, ApplyType DEF IInv
<1>5. ASSUME NEW s \in Sleeves, NEW c \in Currencies, NEW delta \in {-1, 1},
             NEW saved \in BOOLEAN, CashTool(s, c, delta, saved)
      PROVE  TypeOK'
  BY <1>5, CashToolType DEF IInv
<1>6. ASSUME NEW s \in Sleeves, NEW l \in Lots, NEW units \in 0 .. MaxAmount,
             EditLot(s, l, units)
      PROVE  TypeOK'
  BY <1>6, EditType DEF IInv
<1>7. ASSUME NEW i \in Items, NEW decision \in {"keep", "take"}, DecideReconLine(i, decision)
      PROVE  TypeOK'
  BY <1>7, DecideType DEF IInv
<1>8. ASSUME NEW j \in Jobs, NEW c \in Currencies, PostCashLine(j, c) PROVE TypeOK'
  BY <1>8, PostType DEF IInv
<1>9. ASSUME NEW j \in Jobs, ApplySave(j) PROVE TypeOK'
  <2>1. recon # None
    BY <1>9 DEF IInv, LatestOpen, ApplySave, Latest
  <2> QED
    BY <1>9, <2>1, SaveType DEF IInv
<1>10. ASSUME NEW j \in Jobs, Abandon(j) PROVE TypeOK'
  BY <1>10 DEF IInv, TypeOK, Abandon
<1>11. CASE UNCHANGED vars
  BY <1>11 DEF IInv, TypeOK, vars
<1> QED
  BY <1>1, <1>2, <1>3, <1>4, <1>5, <1>6, <1>7, <1>8, <1>9, <1>10, <1>11 DEF Next

LEMMA OpenStep == ASSUME IInv, [Next]_vars PROVE LatestOpen'
<1> SUFFICES ASSUME NEW j \in Jobs, job'[j] # None, job'[j].fresh
             PROVE  recon' # None /\ recon'[job'[j].sleeve].status = "compared"
  BY DEF LatestOpen
<1> USE DEF IInv, TypeOK
<1>1. ASSUME NEW session, SaveSession(session) PROVE FALSE
  BY <1>1 DEF SaveSession, Superseded
<1>2. CASE \E restart \in BOOLEAN : StartRecon(restart)
  BY <1>1, <1>2 DEF StartRecon
<1>3. ASSUME NEW s \in Sleeves, NEW statement \in Statements[s],
             SourceReconStatement(s, statement)
      PROVE  FALSE
  BY <1>1, <1>3 DEF SourceReconStatement
<1>4. ASSUME NEW s \in Sleeves, SkipReconChannel(s) PROVE FALSE
  BY <1>1, <1>4 DEF SkipReconChannel
<1>5. ASSUME NEW i \in Items, NEW decision \in {"keep", "take"}, DecideReconLine(i, decision)
      PROVE  FALSE
  BY <1>1, <1>5 DEF DecideReconLine
<1>6. ASSUME NEW s \in Sleeves, NEW k \in Jobs, ApplyReconChannel(k, s)
      PROVE  recon' # None /\ recon'[job'[j].sleeve].status = "compared"
  BY <1>6 DEF ApplyReconChannel, InSession, LatestOpen
<1>7. ASSUME NEW stale \in BOOLEAN, Disturbed(stale), UNCHANGED recon
      PROVE  recon' # None /\ recon'[job'[j].sleeve].status = "compared"
  BY <1>7 DEF Disturbed, LatestOpen
<1>8. ASSUME NEW s \in Sleeves, NEW c \in Currencies, NEW delta \in {-1, 1},
             NEW saved \in BOOLEAN, CashTool(s, c, delta, saved)
      PROVE  recon' # None /\ recon'[job'[j].sleeve].status = "compared"
  BY <1>7, <1>8 DEF CashTool
<1>9. ASSUME NEW s \in Sleeves, NEW l \in Lots, NEW units \in 0 .. MaxAmount,
             EditLot(s, l, units)
      PROVE  recon' # None /\ recon'[job'[j].sleeve].status = "compared"
  BY <1>7, <1>9 DEF EditLot
<1>10. ASSUME NEW k \in Jobs, NEW c \in Currencies, PostCashLine(k, c)
       PROVE  recon' # None /\ recon'[job'[j].sleeve].status = "compared"
  <2>1. /\ job[j] # None /\ recon' = recon
        /\ job'[j].fresh = job[j].fresh /\ job'[j].sleeve = job[j].sleeve
    <3>1. recon' = recon /\ job[k] # None
      BY <1>10 DEF PostCashLine
    <3>2. CASE Delta(job[k].lines[c]) = 0
      <4>1. job' = [job EXCEPT ![k].todo = @ \ {c}]
        BY <1>10, <3>2 DEF PostCashLine
      <4> QED
        BY <3>1, <4>1
    <3>3. CASE Delta(job[k].lines[c]) # 0
      <4>1. job' = [i \in Jobs |->
              IF i = k THEN [job[k] EXCEPT !.todo = @ \ {c}, !.copy = Projected(@, ledger')]
              ELSE IF job[i] = None THEN None ELSE [job[i] EXCEPT !.calm = FALSE]]
        BY <1>10, <3>3 DEF PostCashLine
      <4>2. CASE j = k
        BY <3>1, <4>1, <4>2
      <4>3. CASE j # k
        BY <3>1, <4>1, <4>3
      <4> QED
        BY <4>2, <4>3
    <3> QED
      BY <3>2, <3>3
  <2> QED
    BY <2>1 DEF LatestOpen
<1>11. ASSUME NEW k \in Jobs, ApplySave(k) PROVE FALSE
  BY <1>11 DEF ApplySave
<1>12. ASSUME NEW k \in Jobs, Abandon(k)
       PROVE  recon' # None /\ recon'[job'[j].sleeve].status = "compared"
  BY <1>12 DEF Abandon, LatestOpen
<1>13. CASE UNCHANGED vars
  BY <1>13 DEF vars, LatestOpen
<1> QED
  BY <1>2, <1>3, <1>4, <1>5, <1>6, <1>8, <1>9, <1>10, <1>11, <1>12, <1>13 DEF Next

LEMMA InitOK == Init => IInv
<1> SUFFICES ASSUME Init PROVE IInv
  OBVIOUS
<1>1. held \in [Sleeves -> [Items -> Nat]]
  BY ReconAssumption DEF Init
<1> QED
  BY <1>1, FundsType DEF Init, IInv, TypeOK, LatestOpen

(***************************************************************************)
(* No posting and no apply of a reconciliation leaves a sleeve below zero, *)
(* whatever was posted between the comparison and the apply: each is       *)
(* refused instead (post.ts:219-227 guards the amounts of apply.ts:191).   *)
(***************************************************************************)
THEOREM ReconTyped == Spec => []TypeOK
<1>1. IInv /\ [Next]_vars => IInv'
  BY TypeStep, OpenStep DEF IInv
<1> QED
  BY <1>1, InitOK, PTL DEF Spec, IInv

-----------------------------------------------------------------------------
(* Finished sleeves.                                                         *)

Kept == recon # None /\ starts' = starts
          => \A s \in Sleeves : ~Open(recon, s) => recon'[s] = recon[s]

LEMMA KeptStep == ASSUME IInv, [Next]_vars PROVE Kept
<1> SUFFICES ASSUME recon # None, starts' = starts, NEW t \in Sleeves, ~Open(recon, t)
             PROVE  recon'[t] = recon[t]
  BY DEF Kept
<1>0. recon \in [Sleeves -> Sleeve]
  BY SleevesType DEF IInv
<1>1. CASE \E restart \in BOOLEAN : StartRecon(restart)
  BY <1>1 DEF StartRecon, IInv, TypeOK
<1>2. ASSUME NEW s \in Sleeves, NEW statement \in Statements[s],
             SourceReconStatement(s, statement)
      PROVE  recon'[t] = recon[t]
  BY <1>0, <1>2 DEF SourceReconStatement, SaveSession
<1>3. ASSUME NEW s \in Sleeves, SkipReconChannel(s) PROVE recon'[t] = recon[t]
  <2>1. recon' = [recon EXCEPT ![s].status = "skipped"] /\ recon[s].status # "applied"
    BY <1>3 DEF SkipReconChannel, SaveSession
  <2>2. recon[t].status = "skipped" \/ t # s
    BY <2>1 DEF Open
  <2> QED
    BY <1>0, <2>1, <2>2 DEF Sleeve
<1>4. ASSUME NEW i \in Items, NEW decision \in {"keep", "take"}, DecideReconLine(i, decision)
      PROVE  recon'[t] = recon[t]
  <2>1. /\ recon[Current(recon)].status = "compared"
        /\ recon' = [recon EXCEPT ![Current(recon)].lines[i].decision = decision]
    BY <1>4 DEF DecideReconLine, SaveSession
  <2>2. t # Current(recon)
    BY <2>1 DEF Open
  <2> QED
    BY <1>0, <2>1, <2>2
<1>5. ASSUME NEW j \in Jobs, ApplySave(j) PROVE recon'[t] = recon[t]
  <2>1. recon[job[j].sleeve].status = "compared"
    BY <1>5 DEF ApplySave, Latest, IInv, LatestOpen
  <2>2. t # job[j].sleeve
    BY <2>1 DEF Open
  <2> QED
    BY <1>0, <1>5, <2>2 DEF ApplySave
<1>6. CASE UNCHANGED recon
  BY <1>6
<1> QED
  BY <1>1, <1>2, <1>3, <1>4, <1>5, <1>6
     DEF Next, ApplyReconChannel, CashTool, EditLot, PostCashLine, Abandon, vars

(***************************************************************************)
(* A sleeve that is finished stays as it is until the walk is started anew *)
(* (session.ts:98, apply.ts:102), with any number of applies at work.      *)
(***************************************************************************)
THEOREM FinishedSleevesStay == Spec => FinishedStay
<1>1. IInv /\ [Next]_vars => IInv'
  BY TypeStep, OpenStep DEF IInv
<1>2. IInv /\ [Next]_vars => [Kept]_vars
  BY KeptStep
<1> QED
  BY <1>1, <1>2, InitOK, PTL DEF Spec, FinishedStay, Kept

-----------------------------------------------------------------------------
(* What an apply has done so far, as long as nobody else posts or saves.     *)

Posted(w) == (Takes(w.lines) \cap Currencies) \ w.todo

\* The books of the sleeve have the posted lines of the statement, all else is the document's.
BooksOf(w, h, b) ==
  \A t \in Sleeves, i \in Funds :
    b[t][i] = IF t = w.sleeve /\ i \in Posted(w) THEN Wanted(w.lines[i]) ELSE h[t][i]

\* The copy differs from the document in lines taken: it has every lot and every posted
\* line, and every deposit unless a posting has brought back those of the books.
CopyOf(w, h) ==
  /\ \A t \in Sleeves, i \in Items :
       t # w.sleeve \/ i \notin Takes(w.lines) => w.copy[t][i] = h[t][i]
  /\ \A i \in Takes(w.lines) : i \in Lots \/ i \in Posted(w)
       => w.copy[w.sleeve][i] = Wanted(w.lines[i])
  /\ \A i \in w.todo : w.copy[w.sleeve][i] = h[w.sleeve][i]
  /\ ~CashMoved(w.lines) => \A i \in Takes(w.lines) \cap Deposits :
                              w.copy[w.sleeve][i] = Wanted(w.lines[i])

Undisturbed(w, h, b) ==
  /\ w.todo \subseteq Takes(w.lines) \cap Currencies
  /\ \A i \in Takes(w.lines) : w.lines[i].books = h[w.sleeve][i]
  /\ BooksOf(w, h, b)
  /\ CopyOf(w, h)

CalmInv == \A j \in Jobs : job[j] # None /\ job[j].fresh /\ job[j].calm
                             => Undisturbed(job[j], held, ledger)

LEMMA NothingToPost ==
    ASSUME NEW w \in ApplyJob, NEW h, NEW b, Undisturbed(w, h, b),
           NEW c \in w.todo, Delta(w.lines[c]) = 0
    PROVE  Undisturbed([w EXCEPT !.todo = @ \ {c}], h, b)
<1> DEFINE v == [w EXCEPT !.todo = @ \ {c}]
<1>1. /\ v.todo = w.todo \ {c} /\ v.lines = w.lines /\ v.sleeve = w.sleeve /\ v.copy = w.copy
      /\ c \in Takes(w.lines) /\ c \in Currencies /\ c \in Items /\ c \in Funds
      /\ w.sleeve \in Sleeves /\ w.lines[c] \in Line
  BY ItemSets DEF ApplyJob, Undisturbed
<1>2. Posted(v) = Posted(w) \cup {c}
  BY <1>1 DEF Posted
<1>3. Wanted(w.lines[c]) = h[w.sleeve][c]
  <2>1. w.lines[c].books = h[w.sleeve][c]
    BY <1>1 DEF Undisturbed
  <2>2. Wanted(w.lines[c]) = w.lines[c].books
    BY <1>1, DeltaType DEF Delta
  <2> QED
    BY <2>1, <2>2
<1> HIDE DEF v
<1>4. BooksOf(v, h, b)
  BY <1>1, <1>2, <1>3 DEF Undisturbed, BooksOf
<1>5. CopyOf(v, h)
  BY <1>1, <1>2, <1>3 DEF Undisturbed, CopyOf
<1> QED
  BY <1>1, <1>4, <1>5 DEF Undisturbed, v

LEMMA OnePosting ==
    ASSUME NEW w \in ApplyJob, NEW h \in [Sleeves -> [Items -> Nat]],
           NEW b \in [Sleeves -> [Funds -> Nat]], Undisturbed(w, h, b),
           NEW c \in w.todo, Delta(w.lines[c]) # 0,
           NEW b2, b2 = [b EXCEPT ![w.sleeve][c] = @ + Delta(w.lines[c])]
    PROVE  Undisturbed([w EXCEPT !.todo = @ \ {c}, !.copy = Projected(@, b2)], h, b2)
<1> DEFINE v == [w EXCEPT !.todo = @ \ {c}, !.copy = Projected(@, b2)]
<1>1. /\ v.todo = w.todo \ {c} /\ v.lines = w.lines /\ v.sleeve = w.sleeve
      /\ v.copy = Projected(w.copy, b2)
      /\ c \in Takes(w.lines) /\ c \in Currencies /\ c \in Items /\ c \in Funds
      /\ w.sleeve \in Sleeves /\ w.lines[c] \in Line
  BY ItemSets DEF ApplyJob, Undisturbed
<1>2. Posted(v) = Posted(w) \cup {c} /\ c \notin Posted(w)
  BY <1>1 DEF Posted
<1>3. b2[w.sleeve][c] = Wanted(w.lines[c])
  <2>1. b[w.sleeve][c] = h[w.sleeve][c]
    BY <1>1, <1>2 DEF Undisturbed, BooksOf
  <2>2. w.lines[c].books = h[w.sleeve][c]
    BY <1>1 DEF Undisturbed
  <2>3. b2[w.sleeve][c] = b[w.sleeve][c] + Delta(w.lines[c])
    BY <1>1
  <2>4. Wanted(w.lines[c]) \in Int /\ w.lines[c].books \in Int
    BY <1>1, DeltaType
  <2> QED
    BY <2>1, <2>2, <2>3, <2>4 DEF Delta
<1>4. \A t \in Sleeves, i \in Funds : t # w.sleeve \/ i # c => b2[t][i] = b[t][i]
  BY <1>1
<1>5. CashMoved(w.lines)
  BY <1>1 DEF CashMoved
<1>6. \A t \in Sleeves, i \in Items :
        v.copy[t][i] = IF i \in Funds THEN b2[t][i] ELSE w.copy[t][i]
  BY <1>1 DEF Projected
<1> HIDE DEF v
<1>7. BooksOf(v, h, b2)
  <2> SUFFICES ASSUME NEW t \in Sleeves, NEW i \in Funds
               PROVE  b2[t][i] = IF t = w.sleeve /\ i \in Posted(v) THEN Wanted(w.lines[i])
                                 ELSE h[t][i]
    BY <1>1 DEF BooksOf
  <2>1. CASE t = w.sleeve /\ i = c
    BY <1>2, <1>3, <2>1
  <2>2. CASE ~(t = w.sleeve /\ i = c)
    <3>1. b2[t][i] = b[t][i]
      BY <1>4, <2>2
    <3>2. b[t][i] = IF t = w.sleeve /\ i \in Posted(w) THEN Wanted(w.lines[i]) ELSE h[t][i]
      BY DEF Undisturbed, BooksOf
    <3> QED
      BY <1>2, <2>2, <3>1, <3>2
  <2> QED
    BY <2>1, <2>2
<1>8. CopyOf(v, h)
  <2>1. ASSUME NEW t \in Sleeves, NEW i \in Items, t # w.sleeve \/ i \notin Takes(w.lines)
        PROVE  v.copy[t][i] = h[t][i]
    <3>1. CASE i \in Funds
      <4>1. ~(t = w.sleeve /\ i \in Posted(v))
        BY <1>1, <1>2, <2>1 DEF Posted
      <4> QED
        BY <1>1, <1>6, <1>7, <3>1, <4>1 DEF BooksOf
    <3>2. CASE i \notin Funds
      BY <1>6, <2>1, <3>2 DEF Undisturbed, CopyOf
    <3> QED
      BY <3>1, <3>2
  <2>2. ASSUME NEW i \in Takes(w.lines), i \in Lots \/ i \in Posted(v)
        PROVE  v.copy[w.sleeve][i] = Wanted(w.lines[i])
    <3>1. i \in Items
      BY DEF Takes
    <3>2. CASE i \in Posted(v)
      <4>1. i \in Funds
        BY <3>2, ItemSets DEF Posted
      <4> QED
        BY <1>1, <1>6, <1>7, <3>1, <3>2, <4>1 DEF BooksOf
    <3>3. CASE i \in Lots
      <4>1. i \notin Funds
        BY <3>3, ReconAssumption
      <4> QED
        BY <1>1, <1>6, <3>1, <3>3, <4>1 DEF Undisturbed, CopyOf
    <3> QED
      BY <2>2, <3>2, <3>3
  <2>3. ASSUME NEW i \in v.todo PROVE v.copy[w.sleeve][i] = h[w.sleeve][i]
    <3>1. i \in Funds /\ i \in Items /\ i \notin Posted(v)
      BY <1>1, ItemSets DEF Undisturbed, Posted
    <3> QED
      BY <1>1, <1>6, <1>7, <3>1 DEF BooksOf
  <2> QED
    BY <1>1, <1>5, <2>1, <2>2, <2>3 DEF CopyOf
<1> QED
  BY <1>1, <1>7, <1>8 DEF Undisturbed, v

LEMMA FirstLines ==
    ASSUME TypeOK, NEW j \in Jobs, NEW s \in Sleeves, ApplyReconChannel(j, s), Agreed(s)
    PROVE  Undisturbed(job'[j], held, ledger)
<1> DEFINE lines == recon[s].lines
           v == [sleeve |-> s, lines |-> lines, copy |-> [held EXCEPT ![s] = TakenInto(@, lines)],
                 todo |-> Takes(lines) \cap Currencies, fresh |-> TRUE, calm |-> Agreed(s)]
<1>1. job'[j] = v
  BY DEF ApplyReconChannel, TypeOK
<1>2. v.sleeve = s /\ v.lines = lines /\ v.todo = Takes(lines) \cap Currencies
  OBVIOUS
<1>3. \A t \in Sleeves, i \in Items :
        v.copy[t][i] = IF t = s /\ i \in Takes(lines) \ Currencies THEN Wanted(lines[i])
                       ELSE held[t][i]
  BY DEF TypeOK, TakenInto
<1> HIDE DEF v, lines
<1>4. Posted(v) = {} /\ Takes(lines) \subseteq Items
  BY <1>2 DEF Posted, Takes
<1>5. BooksOf(v, held, ledger)
  BY <1>4 DEF BooksOf, Agreed
<1>6. CopyOf(v, held)
  <2>1. \A i \in Takes(lines) : i \in Lots \/ i \in Deposits => i \notin Currencies
    BY ReconAssumption, ItemSets
  <2> QED
    BY <1>2, <1>3, <1>4, <2>1 DEF CopyOf
<1>7. \A i \in Takes(lines) : lines[i].books = held[s][i]
  BY DEF Agreed, lines
<1> QED
  BY <1>1, <1>2, <1>5, <1>6, <1>7 DEF Undisturbed

CalmOK == IInv /\ CalmInv

LEMMA CalmStep == ASSUME CalmOK, [Next]_vars PROVE CalmInv'
<1> SUFFICES ASSUME NEW j \in Jobs, job'[j] # None, job'[j].fresh, job'[j].calm
             PROVE  Undisturbed(job'[j], held', ledger')
  BY DEF CalmInv
<1>0. TypeOK /\ job[j] \in {None} \cup ApplyJob
  BY DEF CalmOK, IInv, TypeOK, ApplyJob
<1>1. ASSUME NEW session, SaveSession(session) PROVE FALSE
  BY <1>1 DEF SaveSession, Superseded
<1>2. ASSUME NEW stale \in BOOLEAN, Disturbed(stale) PROVE FALSE
  <2>1. job[j] # None /\ job'[j] = [job[j] EXCEPT !.calm = FALSE, !.fresh = @ /\ ~stale]
    BY <1>2 DEF Disturbed
  <2>2. job'[j].calm = FALSE
    BY <1>0, <2>1 DEF ApplyJob
  <2> QED
    BY <2>2
<1>3. ASSUME UNCHANGED <<held, ledger>>, job'[j] = job[j]
      PROVE  Undisturbed(job'[j], held', ledger')
  BY <1>3 DEF CalmOK, CalmInv
<1>4. ASSUME NEW s \in Sleeves, NEW k \in Jobs, ApplyReconChannel(k, s)
      PROVE  Undisturbed(job'[j], held', ledger')
  <2>1. UNCHANGED <<held, ledger>>
    BY <1>4 DEF ApplyReconChannel
  <2>2. CASE j = k
    <3>1. job'[j].calm = Agreed(s)
      BY <1>4, <2>2 DEF ApplyReconChannel, CalmOK, IInv, TypeOK
    <3> QED
      BY <1>0, <1>4, <2>1, <2>2, <3>1, FirstLines
  <2>3. CASE j # k
    BY <1>3, <1>4, <2>1, <2>3 DEF ApplyReconChannel, CalmOK, IInv, TypeOK
  <2> QED
    BY <2>2, <2>3
<1>5. ASSUME NEW k \in Jobs, NEW c \in Currencies, PostCashLine(k, c)
      PROVE  Undisturbed(job'[j], held', ledger')
  <2>1. held' = held /\ job[k] # None /\ c \in job[k].todo
    BY <1>5 DEF PostCashLine
  <2>2. job[k] \in ApplyJob
    BY <2>1 DEF CalmOK, IInv, TypeOK, ApplyJob
  <2>3. CASE Delta(job[k].lines[c]) = 0
    <3>1. job' = [job EXCEPT ![k].todo = @ \ {c}] /\ ledger' = ledger
      BY <1>5, <2>3 DEF PostCashLine
    <3>2. CASE j = k
      <4>1. job'[j] = [job[k] EXCEPT !.todo = @ \ {c}]
        BY <3>1, <3>2 DEF CalmOK, IInv, TypeOK
      <4>2. job[k].fresh /\ job[k].calm
        BY <2>2, <3>2, <4>1 DEF ApplyJob
      <4>3. Undisturbed(job[k], held, ledger)
        BY <2>1, <4>2 DEF CalmOK, CalmInv
      <4> QED
        BY <2>1, <2>2, <2>3, <3>1, <4>1, <4>3, NothingToPost
    <3>3. CASE j # k
      BY <1>3, <2>1, <3>1, <3>3 DEF CalmOK, IInv, TypeOK
    <3> QED
      BY <3>2, <3>3
  <2>4. CASE Delta(job[k].lines[c]) # 0
    <3>1. /\ ledger' = [ledger EXCEPT ![job[k].sleeve][c] = @ + Delta(job[k].lines[c])]
          /\ job' = [i \in Jobs |->
               IF i = k THEN [job[k] EXCEPT !.todo = @ \ {c}, !.copy = Projected(@, ledger')]
               ELSE IF job[i] = None THEN None ELSE [job[i] EXCEPT !.calm = FALSE]]
      BY <1>5, <2>4 DEF PostCashLine
    <3>2. CASE j = k
      <4>1. job'[j] = [job[k] EXCEPT !.todo = @ \ {c}, !.copy = Projected(@, ledger')]
        BY <3>1, <3>2
      <4>2. job[k].fresh /\ job[k].calm
        BY <2>2, <3>2, <4>1 DEF ApplyJob
      <4>3. Undisturbed(job[k], held, ledger)
        BY <2>1, <4>2 DEF CalmOK, CalmInv
      <4>4. held \in [Sleeves -> [Items -> Nat]] /\ ledger \in [Sleeves -> [Funds -> Nat]]
        BY <1>0 DEF TypeOK
      <4> QED
        BY <2>1, <2>2, <2>4, <3>1, <4>1, <4>3, <4>4, OnePosting
    <3>3. CASE j # k
      BY <1>0, <3>1, <3>3 DEF ApplyJob
    <3> QED
      BY <3>2, <3>3
  <2> QED
    BY <2>3, <2>4
<1>6. ASSUME NEW k \in Jobs, ApplySave(k) PROVE FALSE
  BY <1>0, <1>6 DEF ApplySave, ApplyJob
<1>7. ASSUME NEW k \in Jobs, Abandon(k) PROVE Undisturbed(job'[j], held', ledger')
  BY <1>3, <1>7 DEF Abandon, CalmOK, IInv, TypeOK
<1>8. CASE UNCHANGED vars
  BY <1>3, <1>8 DEF vars
<1> QED
  BY <1>1, <1>2, <1>4, <1>5, <1>6, <1>7, <1>8
     DEF Next, StartRecon, SourceReconStatement, SkipReconChannel, DecideReconLine,
         CashTool, EditLot

LEMMA CalmKept == Init /\ [][Next]_vars => []CalmOK
<1>1. Init => CalmOK
  BY InitOK DEF CalmOK, CalmInv, Init
<1>2. CalmOK /\ [Next]_vars => CalmOK'
  BY TypeStep, OpenStep, CalmStep DEF CalmOK, IInv
<1> QED
  BY <1>1, <1>2, PTL

\* A save that is accepted finds its lines posted and the copy as CopyOf says.
LEMMA SavedCopy ==
    ASSUME CalmOK, NEW j \in Jobs, ApplySave(j), job[j].calm
    PROVE  /\ job[j] \in ApplyJob
           /\ held' = job[j].copy /\ CopyOf(job[j], held)
           /\ Posted(job[j]) = Takes(job[j].lines) \cap Currencies
<1>1. job[j] # None /\ job[j].fresh /\ job[j].todo = {} /\ held' = job[j].copy
  BY DEF ApplySave, Latest
<1>2. Undisturbed(job[j], held, ledger) /\ job[j] \in ApplyJob
  BY <1>1 DEF CalmOK, CalmInv, IInv, TypeOK, ApplyJob
<1> QED
  BY <1>1, <1>2 DEF Undisturbed, Posted

(***************************************************************************)
(* An apply of a sleeve whose books and document agreed, and in which      *)
(* nobody else posted, writes the lines that were taken and nothing else   *)
(* (apply.ts:164-211), though each of its postings brings the cash and     *)
(* deposits of all sleeves into the copy.                                  *)
(***************************************************************************)
THEOREM AppliesOnlyTakes == Spec => OnlyTakes
<1> DEFINE Only == \A j \in Jobs : ApplySave(j) /\ job[j].calm =>
                     \A s \in Sleeves, i \in Items :
                       held'[s][i] # held[s][i]
                         => s = job[j].sleeve /\ job[j].lines[i].decision = "take"
<1>1. CalmOK /\ [Next]_vars => Only
  <2> SUFFICES ASSUME CalmOK, NEW j \in Jobs, ApplySave(j), job[j].calm,
                      NEW s \in Sleeves, NEW i \in Items, held'[s][i] # held[s][i]
               PROVE  s = job[j].sleeve /\ job[j].lines[i].decision = "take"
    OBVIOUS
  <2>1. s = job[j].sleeve /\ i \in Takes(job[j].lines)
    BY SavedCopy DEF CopyOf
  <2> QED
    BY <2>1 DEF Takes
<1>2. CalmOK /\ [Next]_vars => [Only]_vars
  BY <1>1
<1> QED
  BY <1>2, CalmKept, PTL DEF Spec, OnlyTakes

(***************************************************************************)
(* After such an apply every lot and every currency taken holds what the   *)
(* statement says, and every deposit too where no cash line was posted     *)
(* (apply.ts:191-209, service.ts:116-127).                                 *)
(***************************************************************************)
THEOREM StatementWinsApart == Spec => TakesWinApart
<1> DEFINE Win == \A j \in Jobs : ApplySave(j) /\ job[j].calm =>
                    \A i \in Takes(job[j].lines) :
                      (i \in Deposits => ~CashMoved(job[j].lines)) => Wins(j, i)
<1>1. CalmOK /\ [Next]_vars => Win
  <2> SUFFICES ASSUME CalmOK, NEW j \in Jobs, ApplySave(j), job[j].calm,
                      NEW i \in Takes(job[j].lines),
                      i \in Deposits => ~CashMoved(job[j].lines)
               PROVE  Wins(j, i)
    OBVIOUS
  <2>1. i \in Lots \/ i \in Posted(job[j]) \/ i \in Deposits
    BY SavedCopy DEF Takes, Items, Funds
  <2>2. job[j].copy[job[j].sleeve][i] = Wanted(job[j].lines[i])
    BY <2>1, SavedCopy DEF CopyOf
  <2> QED
    BY <2>2, SavedCopy DEF Wins
<1>2. CalmOK /\ [Next]_vars => [Win]_vars
  BY <1>1
<1> QED
  BY <1>2, CalmKept, PTL DEF Spec, TakesWinApart
=============================================================================
