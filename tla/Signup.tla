-------------------------------- MODULE Signup --------------------------------
(***************************************************************************)
(* Signup and its review (src/src/signup): customers submit forms, and     *)
(* reviewers approve them, which opens or links an account and mails the   *)
(* access to it.                                                           *)
(*                                                                         *)
(* The steps are what a call does between two waits, in a transaction that *)
(* holds a row and advisory locks from their step to its end; a call that  *)
(* waits for its first lock has not begun.  A failed call (an error, a     *)
(* lost connection, a crash) loses its locks and what it has not           *)
(* committed, never what the mail provider or the accounts did for it.     *)
(***************************************************************************)
EXTENDS Integers, Sequences

CONSTANTS
  Forms,        \* what a customer may submit: a form stands for all its data
  Reference,    \* the reference of each form
  Email,        \* the e-mail address of each form
  Day,          \* the day each form asks for; None for a renewal
  Slots,        \* sessions a reviewer may confirm
  Registry,     \* the accounts there may be at first
  Calls,        \* requests at work
  None,
  MaxAccounts,  \* bound on the accounts opened
  MaxAttempts,  \* bound on the attempts to mail access, those of approvals apart
  MaxFailures   \* bound on the calls that fail on the way

References == {Reference[f] : f \in Forms}
Emails == {Email[x] : x \in Forms}
Days == {Day[f] : f \in Forms} \ {None}
Accounts == 1 .. MaxAccounts
Renewal(f) == Day[f] = None

ASSUME SignupAssumption ==
  /\ MaxAccounts \in Nat /\ MaxAttempts \in Nat /\ MaxFailures \in Nat
  /\ None \notin Forms \cup Slots \cup Int \cup {"accepted", "rejected", "unknown"}

Account == [email : Emails, active : BOOLEAN]

ASSUME RegistryAssumption ==
  /\ Registry \subseteq Seq(Account)
  /\ \A known \in Registry : \A a, b \in DOMAIN known : known[a].email = known[b].email => a = b

VARIABLES
  rows,        \* the submission stored under each reference
  disabled,    \* days closed by the manager
  accounts,    \* the accounts, in the order they were opened
  call,        \* what each request is doing
  notified,    \* how often the operator was told of a submission
  delivered,   \* how often the provider took the access e-mail
  warned,      \* submissions approved in spite of a warning, acknowledged
  resent,      \* how often sending again an e-mail in doubt was acknowledged
  attempts,    \* attempts to mail access so far, which is also the id of the latest
  failures      \* counter for the bound

vars == <<rows, disabled, accounts, call, notified, delivered, warned, resent, attempts, failures>>

MailStatuses == {"not_queued", "pending", "sending", "sent", "failed", "unknown"}
Row == [form : Forms, status : {"submitted", "approved"}, account : Accounts \cup {None},
        slot : Slots \cup {None}, mail : MailStatuses, attempt : Nat]

-----------------------------------------------------------------------------
(* Where a call stands tells the locks it holds.                              *)

Stages == {"saving", "approve_row", "approve_mail",
           "approving", "approved", "sending", "delivering", "recording"}
Call == [at : Stages, what : Forms, slot : Slots \cup {None}, ack : BOOLEAN,
         id : Nat \cup {None}, answer : {None, "accepted", "rejected", "unknown"}]

ASSUME NoneAssumption == None \notin Row \cup Call

RowLock(f)  == <<"row", Reference[f]>>
\* Mutant: approvals of one submission exclude each other, not those of one address.
OwnMailLock(f) == <<"mail", Reference[f]>>
MailLock(f) == <<"mail", Email[f]>>
SlotLock(s) == <<"slot", s>>
\* Mutant: the lock is that of the submission.
OwnDayLock(f) == <<"day", Reference[f]>>
DayLock(f)  == <<"day", Day[f]>>
SendLock(f) == <<"send", Reference[f]>>

Holds(k) ==
  CASE k.at = "saving" -> IF Renewal(k.what) THEN {} ELSE {DayLock(k.what)}
    [] k.at = "approve_row" -> {RowLock(k.what)}
    [] k.at = "approve_mail" -> {RowLock(k.what), MailLock(k.what)}
    [] k.at = "approving" ->
         {RowLock(k.what), MailLock(k.what)} \cup (IF Renewal(k.what) THEN {} ELSE {SlotLock(k.slot)})
    [] k.at \in {"sending", "delivering", "recording"} -> {SendLock(k.what)}
    [] OTHER -> {}

Working == {c \in Calls : call[c] # None}
Free(lock) == \A c \in Working : lock \notin Holds(call[c])

At(c, stage) == call[c] # None /\ call[c].at = stage
Form(c) == call[c].what
IsStored(f) == rows[Reference[f]] # None /\ rows[Reference[f]].form = f
Stored(c) == rows[Reference[Form(c)]]
Ends(c) == call' = [call EXCEPT ![c] = None]
Goes(c, stage) == call' = [call EXCEPT ![c].at = stage]
Begins(c, stage, what, slot, ack, id) ==
  /\ call[c] = None
  /\ call' = [call EXCEPT ![c] = [at |-> stage, what |-> what, slot |-> slot, ack |-> ack,
                                  id |-> id, answer |-> None]]

NewAccount(e) == accounts' = Append(accounts, [email |-> e, active |-> TRUE])
Holders(e) == {a \in DOMAIN accounts : accounts[a].email = e}

-----------------------------------------------------------------------------
(* Submissions.                                                               *)

(* A retry of what is stored already may name a day closed since. *)
Acceptable(f) == Day[f] \in disabled => IsStored(f)

DayHeld(f) == ~Renewal(f) => Free(DayLock(f))

(* The lock of the day is held from here to the commit. *)
SaveBegin(c, f) ==
  /\ Begins(c, "saving", f, None, FALSE, None)
  /\ DayHeld(f)
  /\ Acceptable(f)
  /\ UNCHANGED <<rows, disabled, accounts, notified, delivered, warned, resent, attempts, failures>>

Submitted(f) == [form |-> f, status |-> "submitted", account |-> None, slot |-> None,
                 mail |-> "not_queued", attempt |-> 0]

IsNew(f) == rows[Reference[f]] = None
\* Mutant: the operator is told whenever a submission is accepted.
Told(f) == IsNew(f) \/ IsStored(f)
ToTell(f) == IsNew(f)

(* The operator is told after the commit; whether that succeeds is only logged. *)
SaveCommit(c) ==
  LET f == Form(c) IN
  /\ At(c, "saving")
  /\ Free(RowLock(f))
  /\ rows' = IF IsNew(f) THEN [rows EXCEPT ![Reference[f]] = Submitted(f)] ELSE rows
  /\ notified' = IF ToTell(f) THEN [notified EXCEPT ![Reference[f]] = @ + 1] ELSE notified
  /\ Ends(c)
  /\ UNCHANGED <<disabled, accounts, delivered, warned, resent, attempts, failures>>

SetDateEnabled(d, enabled) ==
  /\ Free(<<"day", d>>)
  /\ disabled' = IF enabled THEN disabled \ {d} ELSE disabled \cup {d}
  /\ UNCHANGED <<rows, accounts, call, notified, delivered, warned, resent, attempts, failures>>

-----------------------------------------------------------------------------
(* Approval: one transaction under the row, the e-mail and the session.       *)

ApproveBegin(c, f, slot, ack, link) ==
  /\ Begins(c, "approve_row", f, slot, ack, link)
  /\ IsStored(f)
  /\ rows[Reference[f]].status = "submitted"
  /\ Free(RowLock(f))
  /\ Renewal(f) <=> slot = None
  /\ UNCHANGED <<rows, disabled, accounts, notified, delivered, warned, resent, attempts, failures>>

MailHeld(c) == Free(MailLock(Form(c)))

ApproveMail(c) ==
  /\ At(c, "approve_row")
  /\ MailHeld(c)
  /\ Goes(c, "approve_mail")
  /\ UNCHANGED <<rows, disabled, accounts, notified, delivered, warned, resent, attempts, failures>>

\* Mutant: approvals of one session do not wait for each other.
AnySlot(c) == TRUE
SlotHeld(c) == ~Renewal(Form(c)) => Free(SlotLock(call[c].slot))

Others(f) == {r \in References \ {Reference[f]} : rows[r] # None}
Related(f) == \E r \in Others(f) : Email[rows[r].form] = Email[f]
Conflict(f, slot) == ~Renewal(f) /\ \E r \in Others(f) : rows[r].status = "approved" /\ rows[r].slot = slot

(* An account with the address must be active and linked explicitly; a link  *)
(* to an account that no longer has the address is refused.                  *)
Settled(f, link) ==
  IF Holders(Email[f]) = {} THEN link = None
  ELSE link \in Holders(Email[f]) /\ accounts[link].active

(* With all three locks in hand. *)
ApproveDecide(c) ==
  LET f == Form(c)
      k == call[c]
  IN  /\ At(c, "approve_mail")
      /\ SlotHeld(c)
      /\ IF (Related(f) \/ Conflict(f, k.slot) => k.ack) /\ Settled(f, k.id)
         THEN Goes(c, "approving") ELSE Ends(c)
      /\ UNCHANGED <<rows, disabled, accounts, notified, delivered, warned, resent, attempts, failures>>

Approved(c, account) ==
  [Stored(c) EXCEPT !.status = "approved", !.account = account, !.slot = call[c].slot,
                    !.mail = "pending"]

ApproveCommit(c) ==
  LET f == Form(c)
      k == call[c]
      account == IF k.id = None THEN Len(accounts) + 1 ELSE k.id
  IN  /\ At(c, "approving")
      /\ account \in Accounts
      /\ IF k.id = None THEN NewAccount(Email[f]) ELSE UNCHANGED accounts
      /\ rows' = [rows EXCEPT ![Reference[f]] = Approved(c, account)]
      /\ warned' = IF k.ack THEN warned \cup {Reference[f]} ELSE warned
      /\ call' = [call EXCEPT ![c].at = "approved", ![c].ack = FALSE, ![c].id = None]
      /\ UNCHANGED <<disabled, notified, delivered, resent, attempts, failures>>

-----------------------------------------------------------------------------
(* The access e-mail, one call at a time for a submission.                    *)

SendTry(f) == Free(SendLock(f))

\* Mutant: an attempt that was cut short is tried again like a queued one.
OnlyUnknown(row) == row.mail = "unknown"
InDoubt(row) == row.mail \in {"sending", "unknown"}

(* Sent before, in doubt and not acknowledged, or an account deactivated:    *)
(* nothing is sent; nor is it without a mailer or the lock.                  *)
Sendable(row, ack) ==
  /\ row.status = "approved"
  /\ row.mail # "sent"
  /\ InDoubt(row) => ack
  /\ accounts[row.account].active

SendAfterApproval(c, configured) ==
  /\ At(c, "approved")
  /\ IF SendTry(Form(c)) /\ configured /\ Sendable(Stored(c), FALSE)
     THEN Goes(c, "sending") ELSE Ends(c)
  /\ UNCHANGED <<rows, disabled, accounts, notified, delivered, warned, resent, attempts, failures>>

SendBegin(c, f, ack) ==
  LET row == rows[Reference[f]] IN
  /\ Begins(c, "sending", f, None, ack, None)
  /\ IsStored(f)
  /\ attempts < MaxAttempts
  /\ SendTry(f)
  /\ Sendable(row, ack)
  /\ resent' = IF InDoubt(row) THEN [resent EXCEPT ![Reference[f]] = @ + 1] ELSE resent
  /\ UNCHANGED <<rows, disabled, accounts, notified, delivered, warned, attempts, failures>>

Marked(c) == [Stored(c) EXCEPT !.mail = "sending", !.attempt = attempts']

(* An update waits for a transaction that has locked the row; the outcome is  *)
(* recorded only on the attempt it belongs to.                               *)
SendMark(c) ==
  /\ At(c, "sending")
  /\ Free(RowLock(Form(c)))
  /\ attempts' = attempts + 1
  /\ rows' = [rows EXCEPT ![Reference[Form(c)]] = Marked(c)]
  /\ call' = [call EXCEPT ![c].at = "delivering", ![c].id = attempts']
  /\ UNCHANGED <<disabled, accounts, notified, delivered, warned, resent, failures>>

(* The provider takes the e-mail or not; an answer may get lost either way. *)
Deliver(c, taken, answer) ==
  /\ At(c, "delivering")
  /\ taken => answer \in {"accepted", "unknown"}
  /\ ~taken => answer \in {"rejected", "unknown"}
  /\ delivered' = IF taken THEN [delivered EXCEPT ![Reference[Form(c)]] = @ + 1] ELSE delivered
  /\ call' = [call EXCEPT ![c].at = "recording", ![c].answer = answer]
  /\ UNCHANGED <<rows, disabled, accounts, notified, warned, resent, attempts, failures>>

\* Mutant: what the provider answered is stored as it is.
AsAnswered == [accepted |-> "accepted", rejected |-> "rejected", unknown |-> "unknown"]
Outcome == [accepted |-> "sent", rejected |-> "failed", unknown |-> "unknown"]

SendRecord(c) ==
  /\ At(c, "recording")
  /\ Free(RowLock(Form(c)))
  /\ rows' = IF Stored(c).attempt = call[c].id
             THEN [rows EXCEPT ![Reference[Form(c)]].mail = Outcome[call[c].answer]] ELSE rows
  /\ Ends(c)
  /\ UNCHANGED <<disabled, accounts, notified, delivered, warned, resent, attempts, failures>>

-----------------------------------------------------------------------------
(* The account registry on its own, and calls that fail.                      *)

Register(e) ==
  /\ Free(<<"mail", e>>)
  /\ Holders(e) = {}
  /\ Len(accounts) < MaxAccounts
  /\ NewAccount(e)
  /\ UNCHANGED <<rows, disabled, call, notified, delivered, warned, resent, attempts, failures>>

Fail(c) ==
  /\ call[c] # None
  /\ failures < MaxFailures
  /\ failures' = failures + 1
  /\ Ends(c)
  /\ UNCHANGED <<rows, disabled, accounts, notified, delivered, warned, resent, attempts>>

-----------------------------------------------------------------------------
Init ==
  /\ rows = [r \in References |-> None]
  /\ disabled = {}
  /\ accounts \in Registry
  /\ call = [c \in Calls |-> None]
  /\ notified = [r \in References |-> 0]
  /\ delivered = [r \in References |-> 0]
  /\ warned = {}
  /\ resent = [r \in References |-> 0]
  /\ attempts = 0
  /\ failures = 0

Step(c) ==
  \/ SaveCommit(c)
  \/ ApproveMail(c)
  \/ ApproveDecide(c)
  \/ ApproveCommit(c)
  \/ \E configured \in BOOLEAN : SendAfterApproval(c, configured)
  \/ SendMark(c)
  \/ \E taken \in BOOLEAN, answer \in {"accepted", "rejected", "unknown"} : Deliver(c, taken, answer)
  \/ SendRecord(c)

Next ==
  \/ \E c \in Calls :
       \/ Step(c)
       \/ \E f \in Forms :
            \/ SaveBegin(c, f)
            \/ \E slot \in Slots \cup {None}, ack \in BOOLEAN, link \in DOMAIN accounts \cup {None} :
                 ApproveBegin(c, f, slot, ack, link)
            \/ \E ack \in BOOLEAN : SendBegin(c, f, ack)
       \/ Fail(c)
  \/ \E d \in Days, enabled \in BOOLEAN : SetDateEnabled(d, enabled)
  \/ \E e \in Emails : Register(e)

Spec == Init /\ [][Next]_vars

-----------------------------------------------------------------------------
(***************************************************************************)
(* Types: the statuses of a submission, an access e-mail and a call.       *)
(***************************************************************************)
TypeOK ==
  /\ rows \in [References -> Row \cup {None}]
  /\ disabled \subseteq Days
  /\ accounts \in Seq(Account)
  /\ call \in [Calls -> Call \cup {None}]
  /\ notified \in [References -> Nat] /\ delivered \in [References -> Nat]
  /\ warned \subseteq References /\ resent \in [References -> Nat]
  /\ attempts \in Nat /\ failures \in Nat

(***************************************************************************)
(* "Row and email-identity locks prevent duplicate accounts under          *)
(* concurrent approval" (velovest-signup-submissions.md): no address has   *)
(* two accounts, whether approvals of two submissions, or an approval and  *)
(* a registration elsewhere, open them at once (review.ts:158-205).        *)
(***************************************************************************)
OneAccountPerAddress == \A a, b \in DOMAIN accounts : accounts[a].email = accounts[b].email => a = b

(***************************************************************************)
(* Two approved submissions share a session only if a reviewer             *)
(* acknowledged it for one of them (review.ts:176-182).                    *)
(***************************************************************************)
DoubleBookingSeen ==
  \A r, q \in References :
    (r # q /\ rows[r] # None /\ rows[q] # None /\ rows[r].slot # None /\ rows[r].slot = rows[q].slot)
      => r \in warned \/ q \in warned

(***************************************************************************)
(* Access goes out once: the provider takes the e-mail of a submission     *)
(* more than once only when somebody acknowledged an attempt in doubt,     *)
(* whatever concurrent calls, lost answers and crashes (review.ts:221-261).*)
(***************************************************************************)
MailedOnce == \A r \in References : delivered[r] <= 1 + resent[r]

(***************************************************************************)
(* The operator is told of a submission at most once over all retries      *)
(* ("notifies once across retries", signup-submissions.test.ts:45).        *)
(***************************************************************************)
ToldOnce == \A r \in References : notified[r] <= 1

(***************************************************************************)
(* No new submission is stored for a day that is closed when its           *)
(* transaction commits (submissions.ts:121-129).                           *)
(***************************************************************************)
ClosedDaysTakeNothing ==
  [][\A r \in References : rows[r] = None /\ rows'[r] # None => Day[rows'[r].form] \notin disabled]_vars
=============================================================================
