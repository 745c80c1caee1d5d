---------------------------- MODULE Signup_proofs ----------------------------
(* Proofs about Signup: types, and what the locks and the recorded attempts  *)
(* keep although calls interleave and fail.                                  *)
EXTENDS Signup, SequenceTheorems, TLAPS

RowStages  == {"approve_row", "approve_mail", "approving"}
MailStages == {"approve_mail", "approving"}
SendStages == {"sending", "delivering", "recording"}

-----------------------------------------------------------------------------
(* The inductive invariant.                                                   *)

StoredIn(stored, f) == stored[Reference[f]] # None /\ stored[Reference[f]].form = f
Clash(stored, f, slot) ==
  \E r \in References \ {Reference[f]} :
    stored[r] # None /\ stored[r].status = "approved" /\ stored[r].slot = slot
Taken(known, e) == \E a \in DOMAIN known : known[a].email = e
Settles(row) == row = None \/ row.mail \in {"not_queued", "pending", "failed"}

(* What a call may rely on where it stands, since it holds its locks. *)
CallOK(k, stored, known, closed, taken, allowed) ==
  LET f == k.what
      r == Reference[k.what]
  IN  /\ k.at = "saving" => (Day[f] \in closed => StoredIn(stored, f))
      /\ k.at \in RowStages =>
           /\ StoredIn(stored, f) /\ stored[r].status = "submitted"
           /\ Renewal(f) <=> k.slot = None
      /\ k.at = "approving" =>
           /\ ~Renewal(f) /\ Clash(stored, f, k.slot) => k.ack
           /\ k.id = None => ~Taken(known, Email[f])
      /\ k.at \in {"approved"} \cup SendStages =>
           StoredIn(stored, f) /\ stored[r].status = "approved"
      /\ k.at \in {"sending", "delivering"} => taken[r] <= allowed[r]
      /\ k.at \in {"delivering", "recording"} =>
           stored[r].mail = "sending" /\ stored[r].attempt = k.id
      /\ k.at = "recording" =>
           k.answer # None /\ (k.answer = "rejected" => taken[r] <= allowed[r])

CallsOK == \A c \in Calls :
  call[c] # None => CallOK(call[c], rows, accounts, disabled, delivered, resent)

(* No two calls hold one lock. *)
Apart(k, l) ==
  /\ k.at \in RowStages /\ l.at \in RowStages => Reference[k.what] # Reference[l.what]
  /\ k.at \in MailStages /\ l.at \in MailStages => Email[k.what] # Email[l.what]
  /\ k.at = "approving" /\ l.at = "approving" /\ ~Renewal(k.what) /\ ~Renewal(l.what) =>
       k.slot # l.slot
  /\ k.at \in SendStages /\ l.at \in SendStages => Reference[k.what] # Reference[l.what]

LocksApart == \A c, d \in Calls :
  c # d /\ call[c] # None /\ call[d] # None => Apart(call[c], call[d])

(* A submission before its approval has no session and no mail; the provider *)
(* has taken no more than was allowed, and one less while nothing is in doubt. *)
RowsOK == \A r \in References :
  /\ rows[r] # None => Reference[rows[r].form] = r
  /\ rows[r] # None /\ rows[r].status = "submitted" =>
       rows[r].slot = None /\ rows[r].mail = "not_queued"
  /\ delivered[r] <= 1 + resent[r]
  /\ Settles(rows[r]) => delivered[r] <= resent[r]
  /\ notified[r] <= 1 /\ (rows[r] = None => notified[r] = 0)

Inv ==
  /\ TypeOK /\ CallsOK /\ LocksApart /\ RowsOK
  /\ OneAccountPerAddress /\ DoubleBookingSeen

-----------------------------------------------------------------------------
(* Types.                                                                     *)

LEMMA FormsTyped ==
    ASSUME NEW f \in Forms
    PROVE  /\ Reference[f] \in References /\ Email[f] \in Emails
           /\ ~Renewal(f) => Day[f] \in Days
BY DEF References, Emails, Days, Renewal

LEMMA CallsTyped ==
    ASSUME TypeOK, NEW c \in Calls, call[c] # None
    PROVE  call[c] \in Call /\ Form(c) \in Forms /\ Reference[Form(c)] \in References
BY FormsTyped DEF TypeOK, Call, Form

LEMMA EndsTyped ==
    ASSUME TypeOK, NEW c \in Calls, Ends(c) PROVE call' \in [Calls -> Call \cup {None}]
BY DEF TypeOK, Ends

LEMMA GoesTyped ==
    ASSUME TypeOK, NEW c \in Calls, call[c] # None, NEW stage \in Stages, Goes(c, stage)
    PROVE  call' \in [Calls -> Call \cup {None}]
<1>1. call[c] \in Call
  BY CallsTyped
<1>2. [call[c] EXCEPT !.at = stage] \in Call
  BY <1>1 DEF Call
<1> QED
  BY <1>2 DEF TypeOK, Goes

LEMMA BeginsTyped ==
    ASSUME TypeOK, NEW c \in Calls, NEW stage \in Stages, NEW f \in Forms,
           NEW slot \in Slots \cup {None}, NEW ack \in BOOLEAN, NEW id \in Nat \cup {None},
           Begins(c, stage, f, slot, ack, id)
    PROVE  call' \in [Calls -> Call \cup {None}]
<1>1. [at |-> stage, what |-> f, slot |-> slot, ack |-> ack, id |-> id, answer |-> None] \in Call
  BY DEF Call
<1> QED
  BY <1>1 DEF TypeOK, Begins

LEMMA AppendTyped ==
    ASSUME TypeOK, NEW e \in Emails, NewAccount(e) PROVE accounts' \in Seq(Account)
<1>1. [email |-> e, active |-> TRUE] \in Account
  BY DEF Account
<1> QED
  BY <1>1, AppendProperties DEF TypeOK, NewAccount

LEMMA StoredTyped ==
    ASSUME TypeOK, NEW f \in Forms, rows[Reference[f]] # None
    PROVE  rows[Reference[f]] \in Row
BY FormsTyped DEF TypeOK

LEMMA SaveType ==
    ASSUME TypeOK, NEW c \in Calls, SaveCommit(c) PROVE TypeOK'
<1> DEFINE f == Form(c)
<1>1. f \in Forms /\ Reference[f] \in References
  BY CallsTyped DEF SaveCommit, At
<1>2. Submitted(f) \in Row
  BY <1>1 DEF Submitted, Row, MailStatuses
<1>3. rows' \in [References -> Row \cup {None}]
  BY <1>1, <1>2 DEF SaveCommit, TypeOK
<1>4. notified' \in [References -> Nat]
  BY <1>1 DEF SaveCommit, TypeOK
<1> QED
  BY <1>3, <1>4, EndsTyped DEF SaveCommit, TypeOK

LEMMA CommitType ==
    ASSUME TypeOK, CallsOK, NEW c \in Calls, ApproveCommit(c) PROVE TypeOK'
<1> DEFINE f == Form(c)
           account == IF call[c].id = None THEN Len(accounts) + 1 ELSE call[c].id
<1>0. /\ call[c] # None /\ call[c].at = "approving"
      /\ call[c] \in Call /\ f \in Forms /\ Reference[f] \in References /\ Email[f] \in Emails
  BY CallsTyped, FormsTyped DEF ApproveCommit, At
<1>1. account \in Accounts
  BY DEF ApproveCommit
<1>2. rows[Reference[f]] \in Row
  BY <1>0, StoredTyped DEF CallsOK, CallOK, StoredIn, RowStages, Form
<1>3. Approved(c, account) \in Row
  BY <1>0, <1>1, <1>2 DEF Approved, Stored, Row, MailStatuses, Call
<1>4. rows' = [rows EXCEPT ![Reference[f]] = Approved(c, account)]
  BY DEF ApproveCommit
<1>5. rows' \in [References -> Row \cup {None}]
  BY <1>0, <1>3, <1>4 DEF TypeOK
<1>6. accounts' \in Seq(Account)
  BY <1>0, AppendTyped DEF ApproveCommit, TypeOK
<1>7. [call[c] EXCEPT !.at = "approved", !.ack = FALSE, !.id = None] \in Call
  BY <1>0 DEF Call, Stages
<1>8. call' \in [Calls -> Call \cup {None}]
  BY <1>7 DEF ApproveCommit, TypeOK
<1>9. warned' \subseteq References
  BY <1>0 DEF ApproveCommit, TypeOK
<1> QED
  BY <1>5, <1>6, <1>8, <1>9 DEF ApproveCommit, TypeOK

LEMMA MarkType ==
    ASSUME TypeOK, CallsOK, NEW c \in Calls, SendMark(c) PROVE TypeOK'
<1> DEFINE f == Form(c)
<1>0. /\ call[c] # None /\ call[c].at = "sending"
      /\ call[c] \in Call /\ f \in Forms /\ Reference[f] \in References
  BY CallsTyped DEF SendMark, At
<1>1. attempts' = attempts + 1 /\ attempts' \in Nat
  BY DEF SendMark, TypeOK
<1>2. rows[Reference[f]] \in Row
  BY <1>0, StoredTyped DEF CallsOK, CallOK, StoredIn, SendStages, Form
<1>3. Marked(c) \in Row
  BY <1>0, <1>1, <1>2 DEF Marked, Stored, Row, MailStatuses
<1>4. rows' = [rows EXCEPT ![Reference[f]] = Marked(c)]
  BY DEF SendMark
<1>5. rows' \in [References -> Row \cup {None}]
  BY <1>0, <1>3, <1>4 DEF TypeOK
<1>6. [call[c] EXCEPT !.at = "delivering", !.id = attempts'] \in Call
  BY <1>0, <1>1 DEF Call, Stages
<1>7. call' \in [Calls -> Call \cup {None}]
  BY <1>6 DEF SendMark, TypeOK
<1> QED
  BY <1>1, <1>5, <1>7 DEF SendMark, TypeOK

LEMMA DeliverType ==
    ASSUME TypeOK, NEW c \in Calls, NEW taken \in BOOLEAN,
           NEW answer \in {"accepted", "rejected", "unknown"}, Deliver(c, taken, answer)
    PROVE  TypeOK'
<1>0. call[c] # None /\ call[c] \in Call /\ Reference[Form(c)] \in References
  BY CallsTyped DEF Deliver, At
<1>1. [call[c] EXCEPT !.at = "recording", !.answer = answer] \in Call
  BY <1>0 DEF Call, Stages
<1>2. call' \in [Calls -> Call \cup {None}]
  BY <1>1 DEF Deliver, TypeOK
<1>3. delivered' \in [References -> Nat]
  BY <1>0 DEF Deliver, TypeOK
<1> QED
  BY <1>2, <1>3 DEF Deliver, TypeOK

LEMMA RecordType ==
    ASSUME TypeOK, CallsOK, NEW c \in Calls, SendRecord(c) PROVE TypeOK'
<1> DEFINE f == Form(c)
<1>0. /\ call[c] # None /\ call[c].at = "recording"
      /\ call[c] \in Call /\ f \in Forms /\ Reference[f] \in References
  BY CallsTyped DEF SendRecord, At
<1>1. rows[Reference[f]] \in Row /\ call[c].answer \in {"accepted", "rejected", "unknown"}
  BY <1>0, StoredTyped DEF CallsOK, CallOK, StoredIn, SendStages, Form, Call
<1>2. Outcome[call[c].answer] \in MailStatuses
  BY <1>1 DEF Outcome, MailStatuses
<1>3. [rows[Reference[f]] EXCEPT !.mail = Outcome[call[c].answer]] \in Row
  BY <1>1, <1>2 DEF Row
<1>4. rows' \in [References -> Row \cup {None}]
  BY <1>0, <1>3 DEF SendRecord, TypeOK
<1> QED
  BY <1>4, EndsTyped DEF SendRecord, TypeOK

LEMMA NextType == TypeOK /\ CallsOK /\ [Next]_vars => TypeOK'
<1> SUFFICES ASSUME TypeOK, CallsOK, [Next]_vars PROVE TypeOK'
  OBVIOUS
<1>1. ASSUME NEW c \in Calls, SaveCommit(c) PROVE TypeOK'
  BY <1>1, SaveType
<1>2. ASSUME NEW c \in Calls, ApproveMail(c) PROVE TypeOK'
  <2>1. call[c] # None /\ Goes(c, "approve_mail")
    BY <1>2 DEF ApproveMail, At
  <2>2. call' \in [Calls -> Call \cup {None}]
    BY <2>1, GoesTyped DEF Stages
  <2> QED
    BY <1>2, <2>2 DEF ApproveMail, TypeOK
<1>3. ASSUME NEW c \in Calls, ApproveDecide(c) PROVE TypeOK'
  <2>1. call[c] # None /\ (Goes(c, "approving") \/ Ends(c))
    BY <1>3 DEF ApproveDecide, At
  <2>2. call' \in [Calls -> Call \cup {None}]
    BY <2>1, GoesTyped, EndsTyped DEF Stages
  <2> QED
    BY <1>3, <2>2 DEF ApproveDecide, TypeOK
<1>4. ASSUME NEW c \in Calls, ApproveCommit(c) PROVE TypeOK'
  BY <1>4, CommitType
<1>5. ASSUME NEW c \in Calls, NEW configured \in BOOLEAN, SendAfterApproval(c, configured)
      PROVE  TypeOK'
  <2>1. call[c] # None /\ (Goes(c, "sending") \/ Ends(c))
    BY <1>5 DEF SendAfterApproval, At
  <2>2. call' \in [Calls -> Call \cup {None}]
    BY <2>1, GoesTyped, EndsTyped DEF Stages
  <2> QED
    BY <1>5, <2>2 DEF SendAfterApproval, TypeOK
<1>6. ASSUME NEW c \in Calls, SendMark(c) PROVE TypeOK'
  BY <1>6, MarkType
<1>7. ASSUME NEW c \in Calls, NEW taken \in BOOLEAN,
             NEW answer \in {"accepted", "rejected", "unknown"}, Deliver(c, taken, answer)
      PROVE  TypeOK'
  BY <1>7, DeliverType
<1>8. ASSUME NEW c \in Calls, SendRecord(c) PROVE TypeOK'
  BY <1>8, RecordType
<1>9. ASSUME NEW c \in Calls, NEW f \in Forms, SaveBegin(c, f) PROVE TypeOK'
  <2>1. call' \in [Calls -> Call \cup {None}]
    BY <1>9, BeginsTyped DEF SaveBegin, Stages
  <2> QED
    BY <1>9, <2>1 DEF SaveBegin, TypeOK
<1>10. ASSUME NEW c \in Calls, NEW f \in Forms, NEW slot \in Slots \cup {None}, NEW ack \in BOOLEAN,
              NEW link \in DOMAIN accounts \cup {None}, ApproveBegin(c, f, slot, ack, link)
       PROVE  TypeOK'
  <2>1. link \in Nat \cup {None}
    BY DEF TypeOK
  <2>2. call' \in [Calls -> Call \cup {None}]
    BY <1>10, <2>1, BeginsTyped DEF ApproveBegin, Stages
  <2> QED
    BY <1>10, <2>2 DEF ApproveBegin, TypeOK
<1>11. ASSUME NEW c \in Calls, NEW f \in Forms, NEW ack \in BOOLEAN, SendBegin(c, f, ack)
       PROVE  TypeOK'
  <2>1. call' \in [Calls -> Call \cup {None}]
    BY <1>11, BeginsTyped DEF SendBegin, Stages
  <2>2. resent' \in [References -> Nat]
    BY <1>11, FormsTyped DEF SendBegin, TypeOK
  <2> QED
    BY <1>11, <2>1, <2>2 DEF SendBegin, TypeOK
<1>12. ASSUME NEW c \in Calls, Fail(c) PROVE TypeOK'
  BY <1>12, EndsTyped DEF Fail, TypeOK
<1>13. ASSUME NEW d \in Days, NEW enabled \in BOOLEAN, SetDateEnabled(d, enabled) PROVE TypeOK'
  BY <1>13 DEF SetDateEnabled, TypeOK
<1>14. ASSUME NEW e \in Emails, Register(e) PROVE TypeOK'
  BY <1>14, AppendTyped DEF Register, TypeOK
<1>15. CASE UNCHANGED vars
  BY <1>15 DEF vars, TypeOK
<1> QED
  BY <1>1, <1>2, <1>3, <1>4, <1>5, <1>6, <1>7, <1>8, <1>9, <1>10, <1>11, <1>12, <1>13, <1>14,
     <1>15 DEF Next, Step

-----------------------------------------------------------------------------
(* Locks.                                                                     *)

LEMMA FreeMeans ==
    ASSUME TypeOK, NEW d \in Calls, call[d] # None
    PROVE  /\ \A f \in Forms : Free(RowLock(f)) /\ call[d].at \in RowStages
                => Reference[call[d].what] # Reference[f]
           /\ \A e \in Emails : Free(<<"mail", e>>) /\ call[d].at \in MailStages
                => Email[call[d].what] # e
           /\ \A s \in Slots : Free(SlotLock(s)) /\ call[d].at = "approving" /\ ~Renewal(call[d].what)
                => call[d].slot # s
           /\ \A f \in Forms : Free(SendLock(f)) /\ call[d].at \in SendStages
                => Reference[call[d].what] # Reference[f]
           /\ \A day \in Days : Free(<<"day", day>>) /\ call[d].at = "saving" /\ ~Renewal(call[d].what)
                => Day[call[d].what] # day
<1> DEFINE k == call[d]
<1>1. d \in Working
  BY DEF Working
<1>2. k.at \in RowStages => RowLock(k.what) \in Holds(k)
  BY DEF Holds, RowStages
<1>3. k.at \in MailStages => MailLock(k.what) \in Holds(k)
  BY DEF Holds, MailStages
<1>4. k.at = "approving" /\ ~Renewal(k.what) => SlotLock(k.slot) \in Holds(k)
  BY DEF Holds
<1>5. k.at \in SendStages => SendLock(k.what) \in Holds(k)
  BY DEF Holds, SendStages
<1>6. k.at = "saving" /\ ~Renewal(k.what) => DayLock(k.what) \in Holds(k)
  BY DEF Holds
<1>7. \A f \in Forms : Free(RowLock(f)) /\ k.at \in RowStages => Reference[k.what] # Reference[f]
  BY <1>1, <1>2 DEF Free, RowLock
<1>8. \A e \in Emails : Free(<<"mail", e>>) /\ k.at \in MailStages => Email[k.what] # e
  BY <1>1, <1>3 DEF Free, MailLock
<1>9. \A s \in Slots : Free(SlotLock(s)) /\ k.at = "approving" /\ ~Renewal(k.what) => k.slot # s
  BY <1>1, <1>4 DEF Free
<1>10. \A f \in Forms : Free(SendLock(f)) /\ k.at \in SendStages => Reference[k.what] # Reference[f]
  BY <1>1, <1>5 DEF Free, SendLock
<1>11. \A day \in Days : Free(<<"day", day>>) /\ k.at = "saving" /\ ~Renewal(k.what)
         => Day[k.what] # day
  BY <1>1, <1>6 DEF Free, DayLock
<1> QED
  BY <1>7, <1>8, <1>9, <1>10, <1>11

LEMMA ApartSymmetric == ASSUME NEW k, NEW l, Apart(k, l) PROVE Apart(l, k)
BY DEF Apart

LEMMA MovedApart ==
    ASSUME TypeOK, LocksApart, NEW c \in Calls, NEW x, call' = [call EXCEPT ![c] = x],
           x = None \/ \A d \in Calls \ {c} : call[d] # None => Apart(x, call[d])
    PROVE  LocksApart'
<1> SUFFICES ASSUME NEW a \in Calls, NEW b \in Calls, a # b, call'[a] # None, call'[b] # None
             PROVE  Apart(call'[a], call'[b])
  BY DEF LocksApart, Apart
<1>1. \A d \in Calls : call'[d] = IF d = c THEN x ELSE call[d]
  BY DEF TypeOK
<1>2. CASE a = c
  BY <1>1, <1>2
<1>3. CASE b = c
  BY <1>1, <1>3, ApartSymmetric
<1>4. CASE a # c /\ b # c
  BY <1>1, <1>4 DEF LocksApart
<1> QED
  BY <1>2, <1>3, <1>4

LEMMA NextApart == TypeOK /\ CallsOK /\ LocksApart /\ [Next]_vars => LocksApart'
<1> SUFFICES ASSUME TypeOK, CallsOK, LocksApart, [Next]_vars PROVE LocksApart'
  OBVIOUS
<1>a. ASSUME NEW c \in Calls, Ends(c) PROVE LocksApart'
  BY <1>a, MovedApart DEF Ends
<1>b. ASSUME call' = call PROVE LocksApart'
  BY <1>b DEF LocksApart, Apart
<1>1. ASSUME NEW c \in Calls, SaveCommit(c) \/ SendRecord(c) \/ Fail(c) PROVE LocksApart'
  BY <1>1, <1>a DEF SaveCommit, SendRecord, Fail
<1>2. ASSUME NEW c \in Calls, ApproveMail(c) PROVE LocksApart'
  <2> DEFINE x == [call[c] EXCEPT !.at = "approve_mail"]
  <2>1. call[c] # None /\ call[c] \in Call /\ call[c].at = "approve_row" /\ Email[Form(c)] \in Emails
    BY <1>2, CallsTyped, FormsTyped DEF ApproveMail, At
  <2>2. x.at = "approve_mail" /\ x.what = Form(c)
    BY <2>1 DEF Call, Form
  <2>3. ASSUME NEW d \in Calls \ {c}, call[d] # None PROVE Apart(x, call[d])
    <3>1. Apart(call[c], call[d])
      BY <2>1, <2>3 DEF LocksApart
    <3>2. call[d].at \in MailStages => Email[call[d].what] # Email[Form(c)]
      BY <1>2, <2>1, <2>3, FreeMeans DEF ApproveMail, MailHeld, MailLock
    <3> QED
      BY <2>1, <2>2, <3>1, <3>2 DEF Apart, Form, RowStages, SendStages
  <2>4. call' = [call EXCEPT ![c] = x]
    BY <1>2 DEF ApproveMail, Goes
  <2> QED
    BY <2>3, <2>4, MovedApart
<1>3. ASSUME NEW c \in Calls, ApproveDecide(c) PROVE LocksApart'
  <2> DEFINE x == [call[c] EXCEPT !.at = "approving"]
  <2>1. call[c] # None /\ call[c] \in Call /\ call[c].at = "approve_mail"
    BY <1>3, CallsTyped DEF ApproveDecide, At
  <2>2. x.at = "approving" /\ x.what = Form(c) /\ x.slot = call[c].slot
    BY <2>1 DEF Call, Form
  <2>a. ~Renewal(Form(c)) => call[c].slot \in Slots /\ Free(SlotLock(call[c].slot))
    <3>1. Renewal(Form(c)) <=> call[c].slot = None
      BY <2>1 DEF CallsOK, CallOK, RowStages, Form
    <3> QED
      BY <1>3, <2>1, <3>1 DEF ApproveDecide, SlotHeld, Call
  <2>3. ASSUME NEW d \in Calls \ {c}, call[d] # None PROVE Apart(x, call[d])
    <3>1. Apart(call[c], call[d])
      BY <2>1, <2>3 DEF LocksApart
    <3>2. ~Renewal(Form(c)) /\ call[d].at = "approving" /\ ~Renewal(call[d].what)
            => call[c].slot # call[d].slot
      BY <2>a, <2>3, FreeMeans
    <3> QED
      BY <2>1, <2>2, <3>1, <3>2 DEF Apart, Form, RowStages, MailStages, SendStages
  <2> QED
    BY <1>3, <1>a, <2>3, MovedApart DEF ApproveDecide, Goes
<1>4. ASSUME NEW c \in Calls, ApproveCommit(c) PROVE LocksApart'
  <2> DEFINE x == [call[c] EXCEPT !.at = "approved", !.ack = FALSE, !.id = None]
  <2>1. call[c] # None /\ call[c] \in Call
    BY <1>4, CallsTyped DEF ApproveCommit, At
  <2>2. x.at = "approved"
    BY <2>1 DEF Call
  <2>3. \A d \in Calls \ {c} : call[d] # None => Apart(x, call[d])
    BY <2>2 DEF Apart, RowStages, MailStages, SendStages
  <2>4. call' = [call EXCEPT ![c] = x]
    BY <1>4 DEF ApproveCommit
  <2> QED
    BY <2>3, <2>4, MovedApart
<1>5. ASSUME NEW c \in Calls, NEW configured \in BOOLEAN, SendAfterApproval(c, configured)
      PROVE  LocksApart'
  <2> DEFINE x == [call[c] EXCEPT !.at = "sending"]
  <2>1. call[c] # None /\ call[c] \in Call /\ Form(c) \in Forms
    BY <1>5, CallsTyped DEF SendAfterApproval, At
  <2>2. x.at = "sending" /\ x.what = Form(c)
    BY <2>1 DEF Call, Form
  <2>3. Free(SendLock(Form(c))) => \A d \in Calls \ {c} : call[d] # None => Apart(x, call[d])
    <3>1. ASSUME Free(SendLock(Form(c))), NEW d \in Calls \ {c}, call[d] # None
          PROVE  call[d].at \in SendStages => Reference[call[d].what] # Reference[Form(c)]
      BY <2>1, <3>1, FreeMeans
    <3> QED
      BY <2>2, <3>1 DEF Apart, RowStages, MailStages
  <2> QED
    BY <1>5, <1>a, <2>3, MovedApart DEF SendAfterApproval, SendTry, Goes
<1>6. ASSUME NEW c \in Calls, SendMark(c) PROVE LocksApart'
  <2> DEFINE x == [call[c] EXCEPT !.at = "delivering", !.id = attempts']
  <2>1. call[c] # None /\ call[c] \in Call /\ call[c].at = "sending"
    BY <1>6, CallsTyped DEF SendMark, At
  <2>2. x.at = "delivering" /\ x.what = call[c].what
    BY <2>1 DEF Call
  <2>3. \A d \in Calls \ {c} : call[d] # None => Apart(x, call[d])
    BY <2>1, <2>2 DEF LocksApart, Apart, RowStages, MailStages, SendStages
  <2>4. call' = [call EXCEPT ![c] = x]
    BY <1>6 DEF SendMark
  <2> QED
    BY <2>3, <2>4, MovedApart
<1>7. ASSUME NEW c \in Calls, NEW taken \in BOOLEAN,
             NEW answer \in {"accepted", "rejected", "unknown"}, Deliver(c, taken, answer)
      PROVE  LocksApart'
  <2> DEFINE x == [call[c] EXCEPT !.at = "recording", !.answer = answer]
  <2>1. call[c] # None /\ call[c] \in Call /\ call[c].at = "delivering"
    BY <1>7, CallsTyped DEF Deliver, At
  <2>2. x.at = "recording" /\ x.what = call[c].what
    BY <2>1 DEF Call
  <2>3. \A d \in Calls \ {c} : call[d] # None => Apart(x, call[d])
    BY <2>1, <2>2 DEF LocksApart, Apart, RowStages, MailStages, SendStages
  <2>4. call' = [call EXCEPT ![c] = x]
    BY <1>7 DEF Deliver
  <2> QED
    BY <2>3, <2>4, MovedApart
<1>8. ASSUME NEW c \in Calls, NEW f \in Forms, SaveBegin(c, f) PROVE LocksApart'
  <2> DEFINE x == [at |-> "saving", what |-> f, slot |-> None, ack |-> FALSE, id |-> None,
                   answer |-> None]
  <2>1. \A d \in Calls \ {c} : call[d] # None => Apart(x, call[d])
    BY DEF Apart, RowStages, MailStages, SendStages
  <2>2. call' = [call EXCEPT ![c] = x]
    BY <1>8 DEF SaveBegin, Begins
  <2> QED
    BY <2>1, <2>2, MovedApart
<1>9. ASSUME NEW c \in Calls, NEW f \in Forms, NEW slot \in Slots \cup {None}, NEW ack \in BOOLEAN,
             NEW link \in DOMAIN accounts \cup {None}, ApproveBegin(c, f, slot, ack, link)
      PROVE  LocksApart'
  <2> DEFINE x == [at |-> "approve_row", what |-> f, slot |-> slot, ack |-> ack, id |-> link,
                   answer |-> None]
  <2>1. ASSUME NEW d \in Calls \ {c}, call[d] # None PROVE Apart(x, call[d])
    <3>1. call[d].at \in RowStages => Reference[call[d].what] # Reference[f]
      BY <1>9, <2>1, FreeMeans DEF ApproveBegin
    <3> QED
      BY <3>1 DEF Apart, MailStages, SendStages
  <2>2. call' = [call EXCEPT ![c] = x]
    BY <1>9 DEF ApproveBegin, Begins
  <2> QED
    BY <2>1, <2>2, MovedApart
<1>10. ASSUME NEW c \in Calls, NEW f \in Forms, NEW ack \in BOOLEAN, SendBegin(c, f, ack)
       PROVE  LocksApart'
  <2> DEFINE x == [at |-> "sending", what |-> f, slot |-> None, ack |-> ack, id |-> None,
                   answer |-> None]
  <2>1. ASSUME NEW d \in Calls \ {c}, call[d] # None PROVE Apart(x, call[d])
    <3>1. call[d].at \in SendStages => Reference[call[d].what] # Reference[f]
      BY <1>10, <2>1, FreeMeans DEF SendBegin, SendTry
    <3> QED
      BY <3>1 DEF Apart, RowStages, MailStages
  <2>2. call' = [call EXCEPT ![c] = x]
    BY <1>10 DEF SendBegin, Begins
  <2> QED
    BY <2>1, <2>2, MovedApart
<1>11. ASSUME NEW d \in Days, NEW enabled \in BOOLEAN, SetDateEnabled(d, enabled) PROVE LocksApart'
  BY <1>11, <1>b DEF SetDateEnabled
<1>12. ASSUME NEW e \in Emails, Register(e) PROVE LocksApart'
  BY <1>12, <1>b DEF Register
<1>13. CASE UNCHANGED vars
  BY <1>13, <1>b DEF vars
<1> QED
  BY <1>1, <1>2, <1>3, <1>4, <1>5, <1>6, <1>7, <1>8, <1>9, <1>10, <1>11, <1>12, <1>13
     DEF Next, Step

-----------------------------------------------------------------------------
(* What a call relies on, when it moves and when others do.                   *)

LEMMA CallsMoved ==
    ASSUME TypeOK, NEW c \in Calls, NEW x, call' = [call EXCEPT ![c] = x],
           x = None \/ CallOK(x, rows', accounts', disabled', delivered', resent'),
           \A d \in Calls \ {c} : call[d] # None =>
             CallOK(call[d], rows', accounts', disabled', delivered', resent')
    PROVE  CallsOK'
<1>1. \A d \in Calls : call'[d] = IF d = c THEN x ELSE call[d]
  BY DEF TypeOK
<1> QED
  BY <1>1 DEF CallsOK, CallOK

(* A step that changes nothing the others rely on. *)
LEMMA CallsAlone ==
    ASSUME TypeOK, CallsOK, NEW c \in Calls, NEW x, call' = [call EXCEPT ![c] = x],
           UNCHANGED <<rows, accounts, disabled, delivered, resent>>,
           x = None \/ CallOK(x, rows, accounts, disabled, delivered, resent)
    PROVE  CallsOK'
<1>1. \A d \in Calls : call'[d] = IF d = c THEN x ELSE call[d]
  BY DEF TypeOK
<1> QED
  BY <1>1 DEF CallsOK, CallOK

LEMMA SaveCalls ==
    ASSUME TypeOK, CallsOK, NEW c \in Calls, SaveCommit(c) PROVE CallsOK'
<1> DEFINE f == Form(c)
<1>1. f \in Forms /\ Reference[f] \in References
  BY CallsTyped DEF SaveCommit, At
<1>2. \A r \in References : rows[r] # None => rows'[r] = rows[r]
  BY <1>1 DEF SaveCommit, IsNew, TypeOK
<1>3. \A r \in References : rows[r] = None /\ rows'[r] # None => rows'[r].status = "submitted"
  BY <1>1 DEF SaveCommit, IsNew, Submitted, TypeOK
<1>4. ASSUME NEW d \in Calls, call[d] # None
      PROVE  CallOK(call[d], rows', accounts', disabled', delivered', resent')
  <2>1. CallOK(call[d], rows, accounts, disabled, delivered, resent)
    BY <1>4 DEF CallsOK
  <2>2. call[d].what \in Forms /\ Reference[call[d].what] \in References
    BY <1>4, CallsTyped DEF Form
  <2>3. \A slot : Clash(rows', call[d].what, slot) => Clash(rows, call[d].what, slot)
    BY <1>2, <1>3 DEF Clash
  <2>4. StoredIn(rows, call[d].what) => rows'[Reference[call[d].what]] = rows[Reference[call[d].what]]
    BY <1>2, <2>2 DEF StoredIn
  <2>5. UNCHANGED <<accounts, disabled, delivered, resent>>
    BY DEF SaveCommit
  <2> QED
    BY <2>1, <2>3, <2>4, <2>5 DEF CallOK, StoredIn, RowStages, SendStages
<1> QED
  BY <1>4, CallsMoved DEF SaveCommit, Ends

LEMMA CommitCalls ==
    ASSUME TypeOK, CallsOK, LocksApart, NEW c \in Calls, ApproveCommit(c) PROVE CallsOK'
<1> DEFINE f == Form(c)
           account == IF call[c].id = None THEN Len(accounts) + 1 ELSE call[c].id
           row == Approved(c, account)
           x == [call[c] EXCEPT !.at = "approved", !.ack = FALSE, !.id = None]
<1>1. /\ call[c] # None /\ call[c].at = "approving" /\ call[c].what = f
      /\ call[c] \in Call /\ f \in Forms /\ Reference[f] \in References /\ Email[f] \in Emails
  BY CallsTyped, FormsTyped DEF ApproveCommit, At, Form
<1>2. /\ StoredIn(rows, f) /\ rows[Reference[f]].status = "submitted"
      /\ Renewal(f) <=> call[c].slot = None
  BY <1>1 DEF CallsOK, CallOK, RowStages
<1>3. rows[Reference[f]] \in Row
  BY <1>1, <1>2, StoredTyped DEF StoredIn
<1>4. row.form = f /\ row.status = "approved" /\ row.slot = call[c].slot /\ row # None
  <2>1. row = [rows[Reference[f]] EXCEPT !.status = "approved", !.account = account,
                                         !.slot = call[c].slot, !.mail = "pending"]
    BY DEF Approved, Stored
  <2>2. row.form = f /\ row.status = "approved" /\ row.slot = call[c].slot
    BY <1>2, <1>3, <2>1 DEF StoredIn, Row
  <2>3. row \in Row
    BY <1>1, <1>3, <2>1 DEF Row, MailStatuses, Call, ApproveCommit
  <2> QED
    BY <2>2, <2>3, NoneAssumption
<1>5. rows' = [rows EXCEPT ![Reference[f]] = row]
  BY DEF ApproveCommit
<1>6. \A r \in References : rows'[r] = IF r = Reference[f] THEN row ELSE rows[r]
  BY <1>5 DEF TypeOK
<1>7. x.at = "approved" /\ x.what = f
  BY <1>1 DEF Call
<1>8. CallOK(x, rows', accounts', disabled', delivered', resent')
  BY <1>1, <1>4, <1>6, <1>7 DEF CallOK, StoredIn, RowStages, SendStages
<1>9. ASSUME NEW d \in Calls \ {c}, call[d] # None
      PROVE  CallOK(call[d], rows', accounts', disabled', delivered', resent')
  <2> DEFINE k == call[d]
  <2>1. CallOK(k, rows, accounts, disabled, delivered, resent)
    BY <1>9 DEF CallsOK
  <2>2. k.what \in Forms /\ Reference[k.what] \in References
    BY <1>9, CallsTyped DEF Form
  <2>3. Apart(k, call[c])
    BY <1>1, <1>9 DEF LocksApart
  <2>4. StoredIn(rows, k.what) => StoredIn(rows', k.what)
    BY <1>2, <1>4, <1>6, <2>2 DEF StoredIn
  <2>5. k.at \in RowStages \cup SendStages =>
          rows'[Reference[k.what]] = rows[Reference[k.what]]
    <3>1. CASE k.at \in RowStages
      BY <1>1, <1>6, <2>2, <2>3, <3>1 DEF Apart, RowStages
    <3>2. CASE k.at \in SendStages
      <4>1. rows[Reference[k.what]].status = "approved"
        BY <2>1, <3>2 DEF CallOK
      <4> QED
        BY <1>2, <1>6, <2>2, <4>1
    <3> QED
      BY <3>1, <3>2
  <2>6. k.at = "approved" => rows'[Reference[k.what]].status = "approved"
    BY <1>4, <1>6, <2>1, <2>2 DEF CallOK
  <2>7. k.at = "approving" /\ ~Renewal(k.what) /\ Clash(rows', k.what, k.slot)
          => Clash(rows, k.what, k.slot)
    <3> SUFFICES ASSUME k.at = "approving", ~Renewal(k.what), NEW r \in References \ {Reference[k.what]},
                        rows'[r] # None, rows'[r].status = "approved", rows'[r].slot = k.slot
                 PROVE  Clash(rows, k.what, k.slot)
      BY DEF Clash
    <3>1. k.slot # None
      BY <2>1 DEF CallOK, RowStages
    <3>2. call[c].slot # k.slot
      BY <1>1, <1>2, <2>3, <3>1 DEF Apart
    <3>3. r # Reference[f]
      BY <1>4, <1>6, <3>2
    <3> QED
      BY <1>6, <3>3 DEF Clash
  <2>8. k.at = "approving" /\ Taken(accounts', Email[k.what]) => Taken(accounts, Email[k.what])
    <3> SUFFICES ASSUME k.at = "approving", NEW a \in DOMAIN accounts', accounts'[a].email = Email[k.what]
                 PROVE  Taken(accounts, Email[k.what])
      BY DEF Taken
    <3>1. Email[k.what] # Email[f]
      BY <1>1, <2>3 DEF Apart, MailStages
    <3>2. CASE accounts' = accounts
      BY <3>2 DEF Taken
    <3>3. CASE NewAccount(Email[f])
      BY <3>1, <3>3 DEF Taken, NewAccount, TypeOK
    <3> QED
      BY <3>2, <3>3 DEF ApproveCommit
  <2>9. UNCHANGED <<disabled, delivered, resent>>
    BY DEF ApproveCommit
  <2> QED
    BY <2>1, <2>4, <2>5, <2>6, <2>7, <2>8, <2>9 DEF CallOK, RowStages, SendStages
<1>10. call' = [call EXCEPT ![c] = x]
  BY DEF ApproveCommit
<1> QED
  BY <1>8, <1>9, <1>10, CallsMoved

(* A change of the mail of a submission by the call that holds its send lock. *)
LEMMA OthersMailed ==
    ASSUME TypeOK, CallsOK, LocksApart, NEW c \in Calls, call[c] # None, call[c].at \in SendStages,
           NEW row, row # None, row.form = rows[Reference[Form(c)]].form,
           row.status = rows[Reference[Form(c)]].status, row.slot = rows[Reference[Form(c)]].slot,
           rows' = [rows EXCEPT ![Reference[Form(c)]] = row] \/ rows' = rows,
           \A r \in References : r # Reference[Form(c)] => delivered'[r] = delivered[r],
           UNCHANGED <<accounts, disabled, resent>>,
           NEW d \in Calls \ {c}, call[d] # None
    PROVE  CallOK(call[d], rows', accounts', disabled', delivered', resent')
<1> DEFINE f == Form(c)
           k == call[d]
<1>1. f \in Forms /\ Reference[f] \in References /\ call[c].what = f
  BY CallsTyped DEF Form
<1>2. StoredIn(rows, f) /\ rows[Reference[f]].status = "approved"
  BY <1>1 DEF CallsOK, CallOK
<1>3. \A r \in References : rows'[r] = rows[r] \/ (r = Reference[f] /\ rows'[r] = row)
  BY DEF TypeOK
<1>4. CallOK(k, rows, accounts, disabled, delivered, resent)
  BY DEF CallsOK
<1>5. k.what \in Forms /\ Reference[k.what] \in References
  BY CallsTyped DEF Form
<1>6. Apart(k, call[c])
  BY DEF LocksApart
<1>7. StoredIn(rows, k.what) => StoredIn(rows', k.what)
  BY <1>3, <1>5 DEF StoredIn
<1>8. rows'[Reference[k.what]].status = rows[Reference[k.what]].status
  BY <1>3, <1>5
<1>9. k.at \in SendStages => Reference[k.what] # Reference[f]
  BY <1>1, <1>6 DEF Apart
<1>10. k.at \in SendStages => /\ rows'[Reference[k.what]] = rows[Reference[k.what]]
                              /\ delivered'[Reference[k.what]] = delivered[Reference[k.what]]
  BY <1>3, <1>5, <1>9
<1>11. \A slot : Clash(rows', k.what, slot) => Clash(rows, k.what, slot)
  BY <1>2, <1>3 DEF Clash, StoredIn
<1> QED
  BY <1>4, <1>7, <1>8, <1>10, <1>11 DEF CallOK, RowStages, SendStages

LEMMA SendingRow ==
    ASSUME TypeOK, CallsOK, NEW c \in Calls, call[c] # None, call[c].at \in SendStages
    PROVE  /\ call[c] \in Call /\ Form(c) = call[c].what
           /\ Form(c) \in Forms /\ Reference[Form(c)] \in References
           /\ StoredIn(rows, Form(c)) /\ Stored(c) = rows[Reference[Form(c)]]
           /\ Stored(c) \in Row /\ Stored(c) # None
           /\ Stored(c).form = Form(c) /\ Stored(c).status = "approved"
<1>1. /\ call[c] \in Call /\ Form(c) = call[c].what
      /\ Form(c) \in Forms /\ Reference[Form(c)] \in References
  BY CallsTyped DEF Form
<1>2. StoredIn(rows, Form(c)) /\ rows[Reference[Form(c)]].status = "approved"
  BY <1>1 DEF CallsOK, CallOK
<1> QED
  BY <1>1, <1>2, StoredTyped DEF StoredIn, Stored

LEMMA MarkedRow ==
    ASSUME TypeOK, CallsOK, NEW c \in Calls, SendMark(c)
    PROVE  /\ rows' = [rows EXCEPT ![Reference[Form(c)]] = Marked(c)]
           /\ Marked(c) # None /\ Marked(c).mail = "sending" /\ Marked(c).attempt = attempts'
           /\ Marked(c).form = Stored(c).form /\ Marked(c).status = Stored(c).status
           /\ Marked(c).slot = Stored(c).slot
<1>1. Stored(c) \in Row
  BY SendingRow DEF SendMark, At, SendStages
<1>2. attempts' \in Nat
  BY DEF SendMark, TypeOK
<1>3. Marked(c) \in Row
  BY <1>1, <1>2 DEF Marked, Row, MailStatuses
<1>4. Marked(c).mail = "sending" /\ Marked(c).attempt = attempts' /\ Marked(c).form = Stored(c).form
      /\ Marked(c).status = Stored(c).status /\ Marked(c).slot = Stored(c).slot
  BY <1>1 DEF Marked, Row
<1> QED
  BY <1>3, <1>4, NoneAssumption DEF SendMark

LEMMA MarkCalls ==
    ASSUME TypeOK, CallsOK, LocksApart, NEW c \in Calls, SendMark(c) PROVE CallsOK'
<1> DEFINE x == [call[c] EXCEPT !.at = "delivering", !.id = attempts']
           f == Form(c)
<1>1. call[c] # None /\ call[c].at = "sending"
  BY DEF SendMark, At
<1>2. /\ call[c] \in Call /\ call[c].what = f /\ Reference[f] \in References
      /\ Stored(c) = rows[Reference[f]] /\ Stored(c).form = f /\ Stored(c).status = "approved"
  BY <1>1, SendingRow DEF SendStages
<1>3. x.at = "delivering" /\ x.what = f /\ x.id = attempts'
  BY <1>2 DEF Call
<1>4. rows'[Reference[f]] = Marked(c)
  BY <1>2, MarkedRow DEF TypeOK
<1>5. delivered[Reference[f]] <= resent[Reference[f]]
  BY <1>1, <1>2 DEF CallsOK, CallOK
<1>6. UNCHANGED <<accounts, disabled, delivered, resent>>
  BY DEF SendMark
<1>7. CallOK(x, rows', accounts', disabled', delivered', resent')
  BY <1>2, <1>3, <1>4, <1>5, <1>6, MarkedRow DEF CallOK, StoredIn, RowStages, SendStages
<1>8. ASSUME NEW d \in Calls \ {c}, call[d] # None
      PROVE  CallOK(call[d], rows', accounts', disabled', delivered', resent')
  BY <1>1, <1>2, <1>6, <1>8, MarkedRow, OthersMailed DEF SendStages
<1>9. call' = [call EXCEPT ![c] = x]
  BY DEF SendMark
<1> QED
  BY <1>7, <1>8, <1>9, CallsMoved

LEMMA DeliverCalls ==
    ASSUME TypeOK, CallsOK, LocksApart, NEW c \in Calls, NEW taken \in BOOLEAN,
           NEW answer \in {"accepted", "rejected", "unknown"}, Deliver(c, taken, answer)
    PROVE  CallsOK'
<1> DEFINE x == [call[c] EXCEPT !.at = "recording", !.answer = answer]
           f == Form(c)
<1>1. call[c] # None /\ call[c].at = "delivering"
  BY DEF Deliver, At
<1>2. /\ call[c] \in Call /\ call[c].what = f /\ Reference[f] \in References
      /\ StoredIn(rows, f) /\ Stored(c) = rows[Reference[f]] /\ Stored(c) # None
      /\ Stored(c).form = f /\ Stored(c).status = "approved"
  BY <1>1, SendingRow DEF SendStages
<1>3. x.at = "recording" /\ x.what = f /\ x.id = call[c].id /\ x.answer = answer
  BY <1>2 DEF Call
<1>4. UNCHANGED <<rows, accounts, disabled, resent>>
  BY DEF Deliver
<1>5. /\ delivered[Reference[f]] <= resent[Reference[f]]
      /\ rows[Reference[f]].mail = "sending" /\ rows[Reference[f]].attempt = call[c].id
  BY <1>1, <1>2 DEF CallsOK, CallOK
<1>6. answer = "rejected" => delivered' = delivered
  BY DEF Deliver
<1>7. answer # None
  BY SignupAssumption
<1>8. CallOK(x, rows', accounts', disabled', delivered', resent')
  BY <1>2, <1>3, <1>4, <1>5, <1>6, <1>7 DEF CallOK, StoredIn, RowStages, SendStages
<1>9. \A r \in References : r # Reference[f] => delivered'[r] = delivered[r]
  BY <1>2 DEF Deliver, TypeOK
<1>10. ASSUME NEW d \in Calls \ {c}, call[d] # None
       PROVE  CallOK(call[d], rows', accounts', disabled', delivered', resent')
  BY <1>1, <1>2, <1>4, <1>9, <1>10, OthersMailed DEF SendStages
<1>11. call' = [call EXCEPT ![c] = x]
  BY DEF Deliver
<1> QED
  BY <1>8, <1>10, <1>11, CallsMoved

(* What the answer makes of the submission. *)
LEMMA RecordedRow ==
    ASSUME TypeOK, CallsOK, NEW c \in Calls, SendRecord(c)
    PROVE  \E row : /\ row # None /\ row.form = Stored(c).form /\ row.status = Stored(c).status
                    /\ row.slot = Stored(c).slot
                    /\ row.mail = Outcome[call[c].answer]
                    /\ row.mail \in {"sent", "failed", "unknown"}
                    /\ row.mail = "failed" <=> call[c].answer = "rejected"
                    /\ rows' = [rows EXCEPT ![Reference[Form(c)]] = row]
<1> DEFINE f == Form(c)
           row == [Stored(c) EXCEPT !.mail = Outcome[call[c].answer]]
<1>1. call[c] # None /\ call[c].at = "recording"
  BY DEF SendRecord, At
<1>2. /\ call[c] \in Call /\ call[c].what = f /\ Reference[f] \in References
      /\ Stored(c) = rows[Reference[f]] /\ Stored(c) \in Row
  BY <1>1, SendingRow DEF SendStages
<1>3. call[c].answer # None /\ rows[Reference[f]].attempt = call[c].id
  BY <1>1, <1>2 DEF CallsOK, CallOK
<1>4. call[c].answer \in {"accepted", "rejected", "unknown"}
  BY <1>2, <1>3 DEF Call
<1>5. /\ Outcome[call[c].answer] \in {"sent", "failed", "unknown"}
      /\ Outcome[call[c].answer] = "failed" <=> call[c].answer = "rejected"
  BY <1>4 DEF Outcome
<1>6. row \in Row
  BY <1>2, <1>5 DEF Row, MailStatuses
<1>7. row.form = Stored(c).form /\ row.status = Stored(c).status /\ row.slot = Stored(c).slot
      /\ row.mail = Outcome[call[c].answer]
  BY <1>2 DEF Row
<1>8. rows' = [rows EXCEPT ![Reference[f]].mail = Outcome[call[c].answer]]
  BY <1>2, <1>3 DEF SendRecord
<1>9. rows' = [rows EXCEPT ![Reference[f]] = row]
  BY <1>2, <1>8
<1> QED
  BY <1>5, <1>6, <1>7, <1>9, NoneAssumption

LEMMA RecordCalls ==
    ASSUME TypeOK, CallsOK, LocksApart, NEW c \in Calls, SendRecord(c) PROVE CallsOK'
<1>1. call[c] # None /\ call[c].at \in SendStages /\ Ends(c)
  BY DEF SendRecord, At, SendStages
<1>2. Stored(c) = rows[Reference[Form(c)]] /\ Stored(c) # None
  BY <1>1, SendingRow
<1>3. UNCHANGED <<accounts, disabled, delivered, resent>>
  BY DEF SendRecord
<1>4. PICK row : /\ row # None /\ row.form = Stored(c).form /\ row.status = Stored(c).status
                 /\ row.slot = Stored(c).slot
                 /\ rows' = [rows EXCEPT ![Reference[Form(c)]] = row]
  BY RecordedRow
<1>5. ASSUME NEW d \in Calls \ {c}, call[d] # None
      PROVE  CallOK(call[d], rows', accounts', disabled', delivered', resent')
  BY <1>1, <1>2, <1>3, <1>4, <1>5, OthersMailed
<1> QED
  BY <1>1, <1>5, CallsMoved DEF Ends

LEMMA DecideCalls ==
    ASSUME TypeOK, CallsOK, NEW c \in Calls, ApproveDecide(c) PROVE CallsOK'
<1> DEFINE f == Form(c)
           k == call[c]
           x == [k EXCEPT !.at = "approving"]
<1>1. k # None /\ k.at = "approve_mail" /\ k \in Call /\ k.what = f
  BY CallsTyped DEF ApproveDecide, At, Form
<1>2. /\ x.at = "approving" /\ x.what = f /\ x.slot = k.slot /\ x.ack = k.ack /\ x.id = k.id
  BY <1>1 DEF Call
<1>3. UNCHANGED <<rows, accounts, disabled, delivered, resent>>
  BY DEF ApproveDecide
<1>4. StoredIn(rows, f) /\ rows[Reference[f]].status = "submitted" /\ (Renewal(f) <=> k.slot = None)
  BY <1>1 DEF CallsOK, CallOK, RowStages
<1>5. CASE Ends(c)
  BY <1>3, <1>5, CallsAlone DEF Ends
<1>6. CASE (Related(f) \/ Conflict(f, k.slot) => k.ack) /\ Settled(f, k.id) /\ Goes(c, "approving")
  <2>1. ~Renewal(f) /\ Clash(rows, f, k.slot) => k.ack
    BY <1>6 DEF Conflict, Others, Clash
  <2>2. k.id = None => ~Taken(accounts, Email[f])
    BY <1>6, SignupAssumption DEF Settled, Holders, Taken, TypeOK
  <2>3. CallOK(x, rows, accounts, disabled, delivered, resent)
    BY <1>2, <1>4, <2>1, <2>2 DEF CallOK, RowStages, SendStages
  <2> QED
    BY <1>3, <1>6, <2>3, CallsAlone DEF Goes
<1> QED
  BY <1>5, <1>6 DEF ApproveDecide

LEMMA AfterCalls ==
    ASSUME TypeOK, CallsOK, RowsOK, NEW c \in Calls, NEW configured \in BOOLEAN,
           SendAfterApproval(c, configured)
    PROVE  CallsOK'
<1> DEFINE f == Form(c)
           k == call[c]
           x == [k EXCEPT !.at = "sending"]
<1>1. k # None /\ k.at = "approved" /\ k \in Call /\ k.what = f /\ Reference[f] \in References
  BY CallsTyped DEF SendAfterApproval, At, Form
<1>2. x.at = "sending" /\ x.what = f
  BY <1>1 DEF Call
<1>3. UNCHANGED <<rows, accounts, disabled, delivered, resent>>
  BY DEF SendAfterApproval
<1>4. StoredIn(rows, f) /\ rows[Reference[f]].status = "approved"
  BY <1>1 DEF CallsOK, CallOK
<1>5. CASE Ends(c)
  BY <1>3, <1>5, CallsAlone DEF Ends
<1>6. CASE Sendable(Stored(c), FALSE) /\ Goes(c, "sending")
  <2>1. rows[Reference[f]] \in Row
    BY <1>4, CallsTyped, StoredTyped DEF StoredIn, SendAfterApproval, At
  <2>2. Settles(rows[Reference[f]])
    BY <1>6, <2>1 DEF Sendable, InDoubt, Stored, Settles, Row, MailStatuses
  <2>3. delivered[Reference[f]] <= resent[Reference[f]]
    BY <1>1, <2>2 DEF RowsOK
  <2>4. CallOK(x, rows, accounts, disabled, delivered, resent)
    BY <1>2, <1>4, <2>3 DEF CallOK, RowStages, SendStages
  <2> QED
    BY <1>3, <1>6, <2>4, CallsAlone DEF Goes
<1> QED
  BY <1>5, <1>6 DEF SendAfterApproval

LEMMA SendCalls ==
    ASSUME TypeOK, CallsOK, RowsOK, NEW c \in Calls, NEW f \in Forms, NEW ack \in BOOLEAN,
           SendBegin(c, f, ack)
    PROVE  CallsOK' /\ \A r \in References : resent[r] <= resent'[r]
<1> DEFINE r == Reference[f]
           x == [at |-> "sending", what |-> f, slot |-> None, ack |-> ack, id |-> None,
                 answer |-> None]
<1>1. r \in References /\ rows[r] # None /\ rows[r].form = f /\ rows[r].status = "approved"
  BY FormsTyped DEF SendBegin, IsStored, Sendable
<1>2. UNCHANGED <<rows, accounts, disabled, delivered>>
  BY DEF SendBegin
<1>3. \A q \in References : resent[q] <= resent'[q]
  BY <1>1 DEF SendBegin, TypeOK
<1>4. delivered[r] <= resent'[r]
  <2>1. CASE InDoubt(rows[r])
    <3>1. resent'[r] = resent[r] + 1
      BY <1>1, <2>1 DEF SendBegin, TypeOK
    <3>2. delivered[r] <= 1 + resent[r]
      BY <1>1 DEF RowsOK
    <3> QED
      BY <1>1, <3>1, <3>2 DEF TypeOK
  <2>2. CASE ~InDoubt(rows[r])
    <3>1. rows[r] \in Row /\ rows[r].mail # "sent"
      BY <1>1, StoredTyped DEF SendBegin, Sendable
    <3>2. Settles(rows[r])
      BY <2>2, <3>1 DEF InDoubt, Settles, Row, MailStatuses
    <3>3. delivered[r] <= resent[r]
      BY <1>1, <3>2 DEF RowsOK
    <3> QED
      BY <1>1, <2>2, <3>3 DEF SendBegin
  <2> QED
    BY <2>1, <2>2
<1>5. CallOK(x, rows', accounts', disabled', delivered', resent')
  BY <1>1, <1>2, <1>4 DEF CallOK, StoredIn, RowStages, SendStages
<1>6. ASSUME NEW d \in Calls \ {c}, call[d] # None
      PROVE  CallOK(call[d], rows', accounts', disabled', delivered', resent')
  <2>1. CallOK(call[d], rows, accounts, disabled, delivered, resent)
    BY <1>6 DEF CallsOK
  <2>2. Reference[call[d].what] \in References
    BY <1>6, CallsTyped DEF Form
  <2>3. delivered[Reference[call[d].what]] <= resent[Reference[call[d].what]]
          => delivered[Reference[call[d].what]] <= resent'[Reference[call[d].what]]
    <3>1. /\ delivered[Reference[call[d].what]] \in Nat /\ resent[Reference[call[d].what]] \in Nat
          /\ resent'[Reference[call[d].what]] \in Nat
      BY <1>1, <2>2 DEF TypeOK, SendBegin
    <3> QED
      BY <1>3, <2>2, <3>1
  <2> QED
    BY <1>2, <2>1, <2>3 DEF CallOK
<1>7. call' = [call EXCEPT ![c] = x]
  BY DEF SendBegin, Begins
<1> QED
  BY <1>3, <1>5, <1>6, <1>7, CallsMoved

LEMMA ClosedCalls ==
    ASSUME TypeOK, CallsOK, NEW day \in Days, NEW enabled \in BOOLEAN, SetDateEnabled(day, enabled)
    PROVE  CallsOK'
<1> SUFFICES ASSUME NEW d \in Calls, call[d] # None
             PROVE  CallOK(call[d], rows, accounts, disabled', delivered, resent)
  BY DEF CallsOK, CallOK, SetDateEnabled
<1>1. CallOK(call[d], rows, accounts, disabled, delivered, resent)
  BY DEF CallsOK
<1>2. call[d].at = "saving" /\ Day[call[d].what] \in disabled' => Day[call[d].what] \in disabled
  <2> SUFFICES ASSUME call[d].at = "saving", Day[call[d].what] = day
               PROVE  FALSE
    BY DEF SetDateEnabled
  <2>1. ~Renewal(call[d].what)
    BY DEF Renewal, Days
  <2>2. Free(<<"day", day>>)
    BY DEF SetDateEnabled
  <2> QED
    BY <2>1, <2>2, FreeMeans
<1> QED
  BY <1>1, <1>2 DEF CallOK

LEMMA RegisterCalls ==
    ASSUME TypeOK, CallsOK, NEW e \in Emails, Register(e) PROVE CallsOK'
<1> SUFFICES ASSUME NEW d \in Calls, call[d] # None
             PROVE  CallOK(call[d], rows, accounts', disabled, delivered, resent)
  BY DEF CallsOK, CallOK, Register
<1>1. CallOK(call[d], rows, accounts, disabled, delivered, resent)
  BY DEF CallsOK
<1>2. call[d].at = "approving" /\ Taken(accounts', Email[call[d].what])
        => Taken(accounts, Email[call[d].what])
  <2> SUFFICES ASSUME call[d].at = "approving", NEW a \in DOMAIN accounts',
                      accounts'[a].email = Email[call[d].what]
               PROVE  Taken(accounts, Email[call[d].what])
    BY DEF Taken
  <2>1. Email[call[d].what] # e
    <3>1. Free(<<"mail", e>>)
      BY DEF Register
    <3> QED
      BY <3>1, FreeMeans DEF MailStages
  <2> QED
    BY <2>1 DEF Register, NewAccount, Taken, TypeOK
<1> QED
  BY <1>1, <1>2 DEF CallOK

LEMMA NextCalls == TypeOK /\ CallsOK /\ LocksApart /\ RowsOK /\ [Next]_vars => CallsOK'
<1> SUFFICES ASSUME TypeOK, CallsOK, LocksApart, RowsOK, [Next]_vars PROVE CallsOK'
  OBVIOUS
<1>1. ASSUME NEW c \in Calls, SaveCommit(c) PROVE CallsOK'
  BY <1>1, SaveCalls
<1>2. ASSUME NEW c \in Calls, ApproveMail(c) PROVE CallsOK'
  <2> DEFINE x == [call[c] EXCEPT !.at = "approve_mail"]
  <2>1. call[c] # None /\ call[c] \in Call /\ call[c].at = "approve_row"
    BY <1>2, CallsTyped DEF ApproveMail, At
  <2>2. x.at = "approve_mail" /\ x.what = call[c].what /\ x.slot = call[c].slot
    BY <2>1 DEF Call
  <2>3. CallOK(call[c], rows, accounts, disabled, delivered, resent)
    BY <2>1 DEF CallsOK
  <2>4. CallOK(x, rows, accounts, disabled, delivered, resent)
    BY <2>1, <2>2, <2>3 DEF CallOK, RowStages, SendStages
  <2> QED
    BY <1>2, <2>4, CallsAlone DEF ApproveMail, Goes
<1>3. ASSUME NEW c \in Calls, ApproveDecide(c) PROVE CallsOK'
  BY <1>3, DecideCalls
<1>4. ASSUME NEW c \in Calls, ApproveCommit(c) PROVE CallsOK'
  BY <1>4, CommitCalls
<1>5. ASSUME NEW c \in Calls, NEW configured \in BOOLEAN, SendAfterApproval(c, configured)
      PROVE  CallsOK'
  BY <1>5, AfterCalls
<1>6. ASSUME NEW c \in Calls, SendMark(c) PROVE CallsOK'
  BY <1>6, MarkCalls
<1>7. ASSUME NEW c \in Calls, NEW taken \in BOOLEAN,
             NEW answer \in {"accepted", "rejected", "unknown"}, Deliver(c, taken, answer)
      PROVE  CallsOK'
  BY <1>7, DeliverCalls
<1>8. ASSUME NEW c \in Calls, SendRecord(c) PROVE CallsOK'
  BY <1>8, RecordCalls
<1>9. ASSUME NEW c \in Calls, NEW f \in Forms, SaveBegin(c, f) PROVE CallsOK'
  <2> DEFINE x == [at |-> "saving", what |-> f, slot |-> None, ack |-> FALSE, id |-> None,
                   answer |-> None]
  <2>1. CallOK(x, rows, accounts, disabled, delivered, resent)
    BY <1>9 DEF CallOK, SaveBegin, Acceptable, IsStored, StoredIn, RowStages, SendStages
  <2> QED
    BY <1>9, <2>1, CallsAlone DEF SaveBegin, Begins
<1>10. ASSUME NEW c \in Calls, NEW f \in Forms, NEW slot \in Slots \cup {None}, NEW ack \in BOOLEAN,
              NEW link \in DOMAIN accounts \cup {None}, ApproveBegin(c, f, slot, ack, link)
       PROVE  CallsOK'
  <2> DEFINE x == [at |-> "approve_row", what |-> f, slot |-> slot, ack |-> ack, id |-> link,
                   answer |-> None]
  <2>1. CallOK(x, rows, accounts, disabled, delivered, resent)
    BY <1>10 DEF CallOK, ApproveBegin, IsStored, StoredIn, RowStages, SendStages
  <2> QED
    BY <1>10, <2>1, CallsAlone DEF ApproveBegin, Begins
<1>11. ASSUME NEW c \in Calls, NEW f \in Forms, NEW ack \in BOOLEAN, SendBegin(c, f, ack)
       PROVE  CallsOK'
  BY <1>11, SendCalls
<1>12. ASSUME NEW c \in Calls, Fail(c) PROVE CallsOK'
  BY <1>12, CallsAlone DEF Fail, Ends
<1>13. ASSUME NEW d \in Days, NEW enabled \in BOOLEAN, SetDateEnabled(d, enabled) PROVE CallsOK'
  BY <1>13, ClosedCalls
<1>14. ASSUME NEW e \in Emails, Register(e) PROVE CallsOK'
  BY <1>14, RegisterCalls
<1>15. CASE UNCHANGED vars
  BY <1>15 DEF vars, CallsOK, CallOK
<1> QED
  BY <1>1, <1>2, <1>3, <1>4, <1>5, <1>6, <1>7, <1>8, <1>9, <1>10, <1>11, <1>12, <1>13, <1>14,
     <1>15 DEF Next, Step

-----------------------------------------------------------------------------
(* Submissions, their mail and what the operator was told.                    *)

LEMMA RowsAlone ==
    ASSUME RowsOK, UNCHANGED <<rows, delivered, resent, notified>> PROVE RowsOK'
BY DEF RowsOK, Settles

LEMMA SaveRows ==
    ASSUME TypeOK, RowsOK, NEW c \in Calls, SaveCommit(c) PROVE RowsOK'
<1> DEFINE f == Form(c)
<1>1. f \in Forms /\ Reference[f] \in References
  BY CallsTyped DEF SaveCommit, At
<1>2. UNCHANGED <<delivered, resent>>
  BY DEF SaveCommit
<1>3. CASE ~IsNew(f)
  BY <1>2, <1>3, RowsAlone DEF SaveCommit, ToTell
<1>4. CASE IsNew(f)
  <2>1. \A r \in References : /\ rows'[r] = IF r = Reference[f] THEN Submitted(f) ELSE rows[r]
                              /\ notified'[r] = IF r = Reference[f] THEN notified[r] + 1 ELSE notified[r]
    BY <1>4 DEF SaveCommit, ToTell, TypeOK
  <2>2. Submitted(f) # None /\ Submitted(f).form = f /\ Submitted(f).slot = None
        /\ Submitted(f).mail = "not_queued"
    <3>1. Submitted(f) \in Row
      BY <1>1 DEF Submitted, Row, MailStatuses
    <3> QED
      BY <3>1, NoneAssumption DEF Submitted
  <2>3. notified[Reference[f]] = 0 /\ delivered[Reference[f]] <= resent[Reference[f]]
    BY <1>1, <1>4 DEF RowsOK, IsNew, Settles
  <2> QED
    BY <1>2, <2>1, <2>2, <2>3 DEF RowsOK, Settles
<1> QED
  BY <1>3, <1>4

LEMMA CommitRows ==
    ASSUME TypeOK, CallsOK, RowsOK, NEW c \in Calls, ApproveCommit(c) PROVE RowsOK'
<1> DEFINE f == Form(c)
           account == IF call[c].id = None THEN Len(accounts) + 1 ELSE call[c].id
           row == Approved(c, account)
<1>1. /\ call[c] # None /\ call[c].at = "approving" /\ call[c].what = f /\ Reference[f] \in References
      /\ call[c] \in Call /\ f \in Forms
  BY CallsTyped DEF ApproveCommit, At, Form
<1>2. rows[Reference[f]] # None /\ rows[Reference[f]].form = f /\ rows[Reference[f]].status = "submitted"
  BY <1>1 DEF CallsOK, CallOK, RowStages, StoredIn
<1>3. rows[Reference[f]] \in Row
  BY <1>1, <1>2, StoredTyped
<1>4. row.form = f /\ row.status = "approved"
  BY <1>2, <1>3 DEF Approved, Stored, Row
<1>5. \A r \in References : rows'[r] = IF r = Reference[f] THEN row ELSE rows[r]
  BY DEF ApproveCommit, TypeOK
<1>6. delivered[Reference[f]] <= resent[Reference[f]]
  BY <1>1, <1>2 DEF RowsOK, Settles
<1>7. UNCHANGED <<delivered, resent, notified>>
  BY DEF ApproveCommit
<1>8. row # None
  <2>1. row \in Row
    BY <1>1, <1>3 DEF Approved, Stored, Row, MailStatuses, Call, ApproveCommit
  <2> QED
    BY <2>1, NoneAssumption
<1> QED
  BY <1>2, <1>4, <1>5, <1>6, <1>7, <1>8 DEF RowsOK, Settles

LEMMA MarkRows ==
    ASSUME TypeOK, CallsOK, RowsOK, NEW c \in Calls, SendMark(c) PROVE RowsOK'
<1> DEFINE f == Form(c)
<1>1. /\ Reference[f] \in References /\ Stored(c).form = f /\ Stored(c).status = "approved"
  BY SendingRow DEF SendMark, At, SendStages
<1>2. \A r \in References : rows'[r] = IF r = Reference[f] THEN Marked(c) ELSE rows[r]
  BY MarkedRow DEF TypeOK
<1>3. UNCHANGED <<delivered, resent, notified>>
  BY DEF SendMark
<1> QED
  BY <1>1, <1>2, <1>3, MarkedRow DEF RowsOK, Settles

LEMMA DeliverRows ==
    ASSUME TypeOK, CallsOK, RowsOK, NEW c \in Calls, NEW taken \in BOOLEAN,
           NEW answer \in {"accepted", "rejected", "unknown"}, Deliver(c, taken, answer)
    PROVE  RowsOK'
<1> DEFINE r == Reference[Form(c)]
<1>1. call[c] # None /\ call[c].at = "delivering"
  BY DEF Deliver, At
<1>2. call[c].what = Form(c) /\ r \in References /\ rows[r] # None
  BY <1>1, SendingRow DEF SendStages, StoredIn
<1>3. delivered[r] <= resent[r] /\ rows[r].mail = "sending"
  BY <1>1, <1>2 DEF CallsOK, CallOK
<1>4. UNCHANGED <<rows, resent, notified>>
  BY DEF Deliver
<1>5. /\ \A q \in References : q # r => delivered'[q] = delivered[q]
      /\ delivered'[r] \in {delivered[r], delivered[r] + 1}
  BY <1>2 DEF Deliver, TypeOK
<1>6. delivered[r] \in Nat /\ resent[r] \in Nat
  BY <1>2 DEF TypeOK
<1>7. delivered'[r] <= 1 + resent[r] /\ ~Settles(rows[r])
  BY <1>2, <1>3, <1>5, <1>6 DEF Settles
<1> QED
  BY <1>4, <1>5, <1>7 DEF RowsOK, Settles

LEMMA RecordRows ==
    ASSUME TypeOK, CallsOK, RowsOK, NEW c \in Calls, SendRecord(c) PROVE RowsOK'
<1> DEFINE r == Reference[Form(c)]
<1>1. call[c] # None /\ call[c].at = "recording"
  BY DEF SendRecord, At
<1>2. /\ call[c].what = Form(c) /\ r \in References /\ Stored(c).form = Form(c)
      /\ Stored(c).status = "approved"
  BY <1>1, SendingRow DEF SendStages
<1>3. PICK row : /\ row # None /\ row.form = Stored(c).form /\ row.status = Stored(c).status
                 /\ row.mail \in {"sent", "failed", "unknown"}
                 /\ row.mail = "failed" <=> call[c].answer = "rejected"
                 /\ rows' = [rows EXCEPT ![r] = row]
  BY RecordedRow
<1>4. \A q \in References : rows'[q] = IF q = r THEN row ELSE rows[q]
  BY <1>3 DEF TypeOK
<1>5. call[c].answer = "rejected" => delivered[r] <= resent[r]
  BY <1>1, <1>2 DEF CallsOK, CallOK
<1>6. UNCHANGED <<delivered, resent, notified>>
  BY DEF SendRecord
<1> QED
  BY <1>2, <1>3, <1>4, <1>5, <1>6 DEF RowsOK, Settles

LEMMA NextRows == TypeOK /\ CallsOK /\ RowsOK /\ [Next]_vars => RowsOK'
<1> SUFFICES ASSUME TypeOK, CallsOK, RowsOK, [Next]_vars PROVE RowsOK'
  OBVIOUS
<1>1. ASSUME NEW c \in Calls, SaveCommit(c) PROVE RowsOK'
  BY <1>1, SaveRows
<1>2. ASSUME NEW c \in Calls, ApproveMail(c) \/ ApproveDecide(c) PROVE RowsOK'
  BY <1>2, RowsAlone DEF ApproveMail, ApproveDecide
<1>3. ASSUME NEW c \in Calls, ApproveCommit(c) PROVE RowsOK'
  BY <1>3, CommitRows
<1>4. ASSUME NEW c \in Calls, NEW configured \in BOOLEAN, SendAfterApproval(c, configured)
      PROVE  RowsOK'
  BY <1>4, RowsAlone DEF SendAfterApproval
<1>5. ASSUME NEW c \in Calls, SendMark(c) PROVE RowsOK'
  BY <1>5, MarkRows
<1>6. ASSUME NEW c \in Calls, NEW taken \in BOOLEAN,
             NEW answer \in {"accepted", "rejected", "unknown"}, Deliver(c, taken, answer)
      PROVE  RowsOK'
  BY <1>6, DeliverRows
<1>7. ASSUME NEW c \in Calls, SendRecord(c) PROVE RowsOK'
  BY <1>7, RecordRows
<1>8. ASSUME NEW c \in Calls, NEW f \in Forms, SaveBegin(c, f) PROVE RowsOK'
  BY <1>8, RowsAlone DEF SaveBegin
<1>9. ASSUME NEW c \in Calls, NEW f \in Forms, NEW slot \in Slots \cup {None}, NEW ack \in BOOLEAN,
             NEW link \in DOMAIN accounts \cup {None}, ApproveBegin(c, f, slot, ack, link)
      PROVE  RowsOK'
  BY <1>9, RowsAlone DEF ApproveBegin
<1>10. ASSUME NEW c \in Calls, NEW f \in Forms, NEW ack \in BOOLEAN, SendBegin(c, f, ack)
       PROVE  RowsOK'
  <2>1. \A r \in References : /\ resent[r] <= resent'[r] /\ delivered[r] \in Nat
                              /\ resent[r] \in Nat /\ resent'[r] \in Nat
    BY <1>10, SendCalls, NextType DEF TypeOK, Next, Step
  <2>2. UNCHANGED <<rows, delivered, notified>>
    BY <1>10 DEF SendBegin
  <2> QED
    BY <2>1, <2>2 DEF RowsOK, Settles
<1>11. ASSUME NEW c \in Calls, Fail(c) PROVE RowsOK'
  BY <1>11, RowsAlone DEF Fail
<1>12. ASSUME NEW d \in Days, NEW enabled \in BOOLEAN, SetDateEnabled(d, enabled) PROVE RowsOK'
  BY <1>12, RowsAlone DEF SetDateEnabled
<1>13. ASSUME NEW e \in Emails, Register(e) PROVE RowsOK'
  BY <1>13, RowsAlone DEF Register
<1>14. CASE UNCHANGED vars
  BY <1>14, RowsAlone DEF vars
<1> QED
  BY <1>1, <1>2, <1>3, <1>4, <1>5, <1>6, <1>7, <1>8, <1>9, <1>10, <1>11, <1>12, <1>13, <1>14
     DEF Next, Step

-----------------------------------------------------------------------------
(* Accounts.                                                                  *)

LEMMA OpenedOnce ==
    ASSUME TypeOK, OneAccountPerAddress, NEW e \in Emails, ~Taken(accounts, e), NewAccount(e)
    PROVE  OneAccountPerAddress'
<1> SUFFICES ASSUME NEW a \in DOMAIN accounts', NEW b \in DOMAIN accounts',
                    accounts'[a].email = accounts'[b].email
             PROVE  a = b
  BY DEF OneAccountPerAddress
<1> DEFINE n == Len(accounts) + 1
<1>1. accounts \in Seq(Account) /\ accounts' = Append(accounts, [email |-> e, active |-> TRUE])
  BY DEF TypeOK, NewAccount
<1>2. /\ DOMAIN accounts' = 1 .. n /\ DOMAIN accounts = 1 .. Len(accounts)
      /\ accounts'[n].email = e
      /\ \A i \in 1 .. Len(accounts) : accounts'[i] = accounts[i]
  BY <1>1
<1>3. a \in 1 .. Len(accounts) \/ a = n
  BY <1>1, <1>2
<1>4. b \in 1 .. Len(accounts) \/ b = n
  BY <1>1, <1>2
<1>5. \A i \in 1 .. Len(accounts) : accounts[i].email # e
  BY <1>2 DEF Taken
<1>6. CASE a \in 1 .. Len(accounts) /\ b \in 1 .. Len(accounts)
  BY <1>2, <1>6 DEF OneAccountPerAddress
<1> QED
  BY <1>2, <1>3, <1>4, <1>5, <1>6

LEMMA NextAccounts ==
    TypeOK /\ CallsOK /\ OneAccountPerAddress /\ [Next]_vars => OneAccountPerAddress'
<1> SUFFICES ASSUME TypeOK, CallsOK, OneAccountPerAddress, [Next]_vars PROVE OneAccountPerAddress'
  OBVIOUS
<1>1. ASSUME NEW c \in Calls, ApproveCommit(c) PROVE OneAccountPerAddress'
  <2> DEFINE f == Form(c)
  <2>1. call[c] # None /\ call[c].at = "approving" /\ call[c].what = f /\ Email[f] \in Emails
    BY <1>1, CallsTyped, FormsTyped DEF ApproveCommit, At, Form
  <2>2. CASE call[c].id = None
    <3>1. ~Taken(accounts, Email[f])
      BY <2>1, <2>2 DEF CallsOK, CallOK
    <3> QED
      BY <1>1, <2>1, <2>2, <3>1, OpenedOnce DEF ApproveCommit
  <2>3. CASE call[c].id # None
    BY <1>1, <2>3 DEF ApproveCommit, OneAccountPerAddress
  <2> QED
    BY <2>2, <2>3
<1>2. ASSUME NEW e \in Emails, Register(e) PROVE OneAccountPerAddress'
  <2>1. ~Taken(accounts, e) /\ NewAccount(e)
    BY <1>2 DEF Register, Holders, Taken
  <2> QED
    BY <2>1, OpenedOnce
<1>3. CASE UNCHANGED accounts
  BY <1>3 DEF OneAccountPerAddress
<1> QED
  BY <1>1, <1>2, <1>3
     DEF Next, Step, vars, SaveCommit, ApproveMail, ApproveDecide, SendAfterApproval, SendMark,
         Deliver, SendRecord, SaveBegin, ApproveBegin, SendBegin, Fail, SetDateEnabled

-----------------------------------------------------------------------------
(* Sessions.                                                                  *)

LEMMA SlotsKept ==
    ASSUME DoubleBookingSeen, warned \subseteq warned',
           \A r \in References : rows'[r] # None /\ rows'[r].slot # None
             => rows[r] # None /\ rows[r].slot = rows'[r].slot
    PROVE  DoubleBookingSeen'
BY DEF DoubleBookingSeen

(* The session is free but for what was acknowledged, at the decision and    *)
(* until the commit.                                                         *)
LEMMA CommitSlots ==
    ASSUME TypeOK, CallsOK, RowsOK, DoubleBookingSeen, NEW c \in Calls, ApproveCommit(c)
    PROVE  DoubleBookingSeen'
<1> DEFINE f == Form(c)
           n == Reference[f]
           account == IF call[c].id = None THEN Len(accounts) + 1 ELSE call[c].id
           row == Approved(c, account)
<1>1. /\ call[c] # None /\ call[c].at = "approving" /\ call[c].what = f /\ n \in References
      /\ call[c] \in Call /\ f \in Forms
  BY CallsTyped DEF ApproveCommit, At, Form
<1>2. /\ StoredIn(rows, f) /\ (Renewal(f) <=> call[c].slot = None)
      /\ ~Renewal(f) /\ Clash(rows, f, call[c].slot) => call[c].ack
  BY <1>1 DEF CallsOK, CallOK, RowStages
<1>3. row.slot = call[c].slot
  <2>1. rows[n] \in Row
    BY <1>1, <1>2, StoredTyped DEF StoredIn
  <2> QED
    BY <2>1 DEF Approved, Stored, Row
<1>4. \A r \in References : rows'[r] = IF r = n THEN row ELSE rows[r]
  BY DEF ApproveCommit, TypeOK
<1>5. warned \subseteq warned' /\ (call[c].ack => n \in warned')
  BY DEF ApproveCommit
<1>6. ASSUME NEW r \in References \ {n}, rows[r] # None, rows[r].slot # None, rows[r].slot = row.slot
      PROVE  n \in warned'
  <2>1. rows[r] \in Row
    BY <1>6 DEF TypeOK
  <2>2. rows[r].status = "approved"
    BY <1>6, <2>1 DEF RowsOK, Row
  <2>3. Clash(rows, f, call[c].slot)
    BY <1>3, <1>6, <2>2 DEF Clash
  <2> QED
    BY <1>2, <1>3, <1>5, <1>6, <2>3
<1> QED
  BY <1>4, <1>5, <1>6 DEF DoubleBookingSeen

LEMMA NextSlots ==
    TypeOK /\ CallsOK /\ RowsOK /\ DoubleBookingSeen /\ [Next]_vars => DoubleBookingSeen'
<1> SUFFICES ASSUME TypeOK, CallsOK, RowsOK, DoubleBookingSeen, [Next]_vars PROVE DoubleBookingSeen'
  OBVIOUS
<1>1. ASSUME NEW c \in Calls, ApproveCommit(c) PROVE DoubleBookingSeen'
  BY <1>1, CommitSlots
<1>2. ASSUME NEW c \in Calls, SaveCommit(c) PROVE DoubleBookingSeen'
  <2>1. Submitted(Form(c)).slot = None
    BY DEF Submitted
  <2>2. \A r \in References : rows'[r] = rows[r] \/ rows'[r] = Submitted(Form(c))
    BY <1>2 DEF SaveCommit, TypeOK
  <2> QED
    BY <1>2, <2>1, <2>2, SlotsKept DEF SaveCommit
<1>3. ASSUME NEW c \in Calls, SendMark(c) PROVE DoubleBookingSeen'
  <2>1. Reference[Form(c)] \in References /\ Stored(c) = rows[Reference[Form(c)]] /\ Stored(c) # None
    BY <1>3, SendingRow DEF SendMark, At, SendStages
  <2>2. Marked(c).slot = Stored(c).slot /\ rows' = [rows EXCEPT ![Reference[Form(c)]] = Marked(c)]
    BY <1>3, MarkedRow
  <2> QED
    BY <1>3, <2>1, <2>2, SlotsKept DEF SendMark, TypeOK
<1>4. ASSUME NEW c \in Calls, SendRecord(c) PROVE DoubleBookingSeen'
  <2>1. Reference[Form(c)] \in References /\ Stored(c) = rows[Reference[Form(c)]] /\ Stored(c) # None
    BY <1>4, SendingRow DEF SendRecord, At, SendStages
  <2>2. PICK row : row.slot = Stored(c).slot /\ rows' = [rows EXCEPT ![Reference[Form(c)]] = row]
    BY <1>4, RecordedRow
  <2> QED
    BY <1>4, <2>1, <2>2, SlotsKept DEF SendRecord, TypeOK
<1>5. CASE UNCHANGED <<rows, warned>>
  BY <1>5, SlotsKept
<1> QED
  BY <1>1, <1>2, <1>3, <1>4, <1>5
     DEF Next, Step, vars, ApproveMail, ApproveDecide, SendAfterApproval, Deliver, SaveBegin,
         ApproveBegin, SendBegin, Fail, SetDateEnabled, Register

-----------------------------------------------------------------------------
(* The invariant, and what follows from it.                                   *)

LEMMA InitInv == Init => Inv
<1> SUFFICES ASSUME Init PROVE Inv
  OBVIOUS
<1>1. TypeOK
  BY RegistryAssumption DEF Init, TypeOK
<1>2. CallsOK /\ LocksApart
  BY DEF Init, CallsOK, LocksApart
<1>3. RowsOK
  BY DEF Init, RowsOK, Settles
<1>4. OneAccountPerAddress
  BY RegistryAssumption DEF Init, OneAccountPerAddress
<1>5. DoubleBookingSeen
  BY DEF Init, DoubleBookingSeen
<1> QED
  BY <1>1, <1>2, <1>3, <1>4, <1>5 DEF Inv

LEMMA NextInv == Inv /\ [Next]_vars => Inv'
BY NextType, NextCalls, NextApart, NextRows, NextAccounts, NextSlots DEF Inv

LEMMA Invariance == Spec => []Inv
BY InitInv, NextInv, PTL DEF Spec

(* A submission, its mail and the calls at work on it keep their types.       *)
THEOREM SignupTyped == Spec => []TypeOK
<1>1. Inv => TypeOK
  BY DEF Inv
<1> QED
  BY <1>1, Invariance, PTL

(* No two accounts have one e-mail address, whatever approvals and           *)
(* registrations run at once: who opens one holds the lock of the address    *)
(* from the look at the accounts to the commit (review.ts:139-172).          *)
THEOREM AccountsUnique == Spec => []OneAccountPerAddress
<1>1. Inv => OneAccountPerAddress
  BY DEF Inv
<1> QED
  BY <1>1, Invariance, PTL

(* Two approved submissions have one session only when a reviewer             *)
(* acknowledged the conflict for one of them (review.ts:141-147).             *)
THEOREM SessionsApart == Spec => []DoubleBookingSeen
<1>1. Inv => DoubleBookingSeen
  BY DEF Inv
<1> QED
  BY <1>1, Invariance, PTL

(* The provider takes the access e-mail of a submission at most once more    *)
(* than an attempt in doubt was acknowledged (review.ts:186-247).            *)
THEOREM AccessMailedOnce == Spec => []MailedOnce
<1>1. Inv => MailedOnce
  BY DEF Inv, RowsOK, MailedOnce
<1> QED
  BY <1>1, Invariance, PTL

(* The operator hears of a submission once, whatever is retried              *)
(* (submissions.ts:110-153).                                                 *)
THEOREM OperatorToldOnce == Spec => []ToldOnce
<1>1. Inv => ToldOnce
  BY DEF Inv, RowsOK, ToldOnce
<1> QED
  BY <1>1, Invariance, PTL

LEMMA ClosedStep ==
    ASSUME Inv, [Next]_vars, NEW r \in References, rows[r] = None, rows'[r] # None
    PROVE  Day[rows'[r].form] \notin disabled
<1>1. ASSUME NEW c \in Calls, SaveCommit(c) PROVE Day[rows'[r].form] \notin disabled
  <2> DEFINE f == Form(c)
  <2>1. call[c] # None /\ call[c].at = "saving" /\ call[c].what = f
    BY <1>1 DEF SaveCommit, At, Form
  <2>2. Day[f] \in disabled => StoredIn(rows, f)
    BY <2>1 DEF Inv, CallsOK, CallOK
  <2>3. IsNew(f) /\ r = Reference[f] /\ rows'[r] = Submitted(f)
    BY <1>1 DEF SaveCommit, Inv, TypeOK
  <2> QED
    BY <2>2, <2>3 DEF StoredIn, IsNew, Submitted
<1>2. ASSUME NEW c \in Calls, ApproveCommit(c) PROVE FALSE
  <2>1. call[c] # None /\ call[c].at = "approving" /\ StoredIn(rows, call[c].what)
    BY <1>2 DEF ApproveCommit, At, Inv, CallsOK, CallOK, RowStages
  <2> QED
    BY <1>2, <2>1 DEF ApproveCommit, Form, StoredIn, Inv, TypeOK
<1>3. ASSUME NEW c \in Calls, SendMark(c) \/ SendRecord(c) PROVE FALSE
  <2>1. rows[Reference[Form(c)]] # None
    BY <1>3, SendingRow DEF SendMark, SendRecord, At, SendStages, Inv
  <2> QED
    BY <1>3, <2>1 DEF SendMark, SendRecord, Inv, TypeOK
<1>4. ~UNCHANGED rows
  OBVIOUS
<1> QED
  BY <1>1, <1>2, <1>3, <1>4
     DEF Next, Step, vars, ApproveMail, ApproveDecide, SendAfterApproval, Deliver, SaveBegin,
         ApproveBegin, SendBegin, Fail, SetDateEnabled, Register

(* A day closed before the commit takes no new submission: its transaction   *)
(* holds the lock of the day from the look at it on (submissions.ts:117-123). *)
THEOREM ClosedDaysHold == Spec => ClosedDaysTakeNothing
<1>1. Inv /\ [Next]_vars
      => [\A r \in References : rows[r] = None /\ rows'[r] # None
                                  => Day[rows'[r].form] \notin disabled]_vars
  BY ClosedStep
<1> QED
  BY <1>1, Invariance, PTL DEF Spec, ClosedDaysTakeNothing
=============================================================================
