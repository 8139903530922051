--------------------------- MODULE PayrollReview ---------------------------
(***************************************************************************)
(* The life of one VN Payroll Review Period: its lines, the Salary Slips    *)
(* generated from them, and the acknowledgement of each slip by its         *)
(* employee, up to the transfer.                                            *)
(*                                                                          *)
(* A request is a database transaction.  Its first step reads (guards are   *)
(* evaluated on the snapshot REPEATABLE READ gives it) and a later step     *)
(* writes; other requests may commit in between.  What a request read and   *)
(* still relies on is kept in req[r]:                                       *)
(*   fresh  every document it is going to doc.save() still carries the      *)
(*          `modified' stamp it was loaded with (Frappe compares the stamps *)
(*          under FOR UPDATE and throws TimestampMismatchError);            *)
(*   drafts, filed  slips it saw as draft / submitted, minus those deleted  *)
(*          since and, for filed, those written since (their save would     *)
(*          fail on the stamp).                                             *)
(* db.set_value and db_set write whatever the row has become in between.    *)
(***************************************************************************)
EXTENDS Naturals, FiniteSets, Sequences

CONSTANTS
  Employees,        \* employees with work sessions in the period
  Requests,         \* request slots of the web workers
  Jobs,             \* request slots of the scheduler (auto-confirm)
  Amounts,          \* the net amounts a calculation can come to
  Ops,              \* the endpoints that are called at all
  HasBank,          \* employees with a (default) bank account
  Withheld,         \* employees with an active Salary Withholding
  MaxSlips,         \* slips one employee can have in the database at once
  MaxInFlight,      \* requests running at the same time (1: serial requests)
  NoSlip, NoEmployee,
  Gone              \* a line's link to a slip that has been deleted

ASSUME ConstantsAssumption ==
  /\ MaxSlips \in Nat
  /\ MaxInFlight \in Nat
  /\ HasBank \subseteq Employees /\ Withheld \subseteq Employees
  /\ NoEmployee \notin Employees
  /\ NoSlip # Gone
  /\ Requests \cap Jobs = {}
  /\ Amounts # {}

Statuses == {"Draft", "Calculating", "Calculated", "Approved", "Slips Generated",
             "Published", "Confirmed", "Cancelled", "None"}   \* "None": row deleted

\* The transition table of the doctype.  "Confirmed" has no entry: no save leaves it.
ALLOWED_TRANSITIONS(from) ==
  CASE from = "Draft"           -> {"Calculating", "Calculated", "Cancelled"}
    [] from = "Calculating"     -> {"Calculated", "Draft", "Cancelled"}
    [] from = "Calculated"      -> {"Approved", "Draft", "Cancelled"}
    [] from = "Approved"        -> {"Slips Generated", "Cancelled"}
    [] from = "Slips Generated" -> {"Published", "Cancelled"}
    [] OTHER                    -> {}

AckStates  == {"", "Requested", "Awaiting Payment", "Paid"}
LockStates == {"Awaiting Payment", "Paid"}

Slips  == Employees \X (1..MaxSlips)                      \* slip names
Slip   == [net : Amounts, doc : {"draft", "submitted", "cancelled"},
           visible : BOOLEAN, ack : AckStates, rejected : BOOLEAN, overdue : BOOLEAN]
ASSUME NoSlipAssumption == NoSlip \notin Slip

Link   == Slips \cup {NoSlip, Gone}
Line   == [net : Amounts, slip : Link]

PeriodSavers == {"approve", "generate", "retry", "publish", "update"}
OpNames == PeriodSavers \cup {"claim", "calculating", "cancel", "delete", "adjust",
              "reopen", "request", "reject", "confirm", "pay"}
Request == [op : OpNames \cup {"idle"}, emp : Employees \cup {NoEmployee},
            slip : Slips \cup {NoSlip}, fresh : BOOLEAN, seen : Statuses,
            emps : SUBSET Employees, drafts : SUBSET Slips, filed : SUBSET Slips,
            full : BOOLEAN]
Idle == [op |-> "idle", emp |-> NoEmployee, slip |-> NoSlip, fresh |-> FALSE,
         seen |-> "None", emps |-> {}, drafts |-> {}, filed |-> {}, full |-> FALSE]

VARIABLES
  status,      \* VN Payroll Review Period.status
  lines,       \* its VN Payroll Review Lines, per employee
  slips,       \* Salary Slip rows of the period, NoSlip where there is none
  errors,      \* generate_errors: employees whose line produced no slip
  reviewed,    \* ghost: the nets on the lines when HR last approved them
  req          \* requests in flight

db   == <<status, lines, slips, errors, reviewed>>
vars == <<status, lines, slips, errors, reviewed, req>>

-----------------------------------------------------------------------------
(* Queries. *)

Existing == {s \in Slips : slips[s] # NoSlip}
SlipsOf(e) == {s \in Existing : s[1] = e}
Live == {s \in Existing : slips[s].doc # "cancelled"}     \* docstatus < 2
Drafts == {s \in Existing : slips[s].doc = "draft"}
Submitted == {s \in Existing : slips[s].doc = "submitted"}
VisibleLive == {s \in Live : slips[s].visible}

period_has_confirmed_slips == \E s \in Existing : slips[s].ack \in LockStates
period_has_adjustment_requests == \E s \in Existing : slips[s].ack = "Requested"

LinkedSlips == {s \in Existing : \E i \in DOMAIN lines[s[1]] : lines[s[1]][i].slip = s}
LinkedEmployees == {e \in Employees : \E i \in DOMAIN lines[e] : lines[e][i].slip # NoSlip}

InFlight == {r \in Requests \cup Jobs : req[r].op # "idle"}

\* Mutants of CanSave: a db_set instead of the save; a save without the stamp check.
CanSaveAlways(r, new) == status # "None"
CanSaveUnstamped(r, new) == status = new \/ new \in ALLOWED_TRANSITIONS(status)

\* doc.save(): the stamp check, then _validate_transition against the stored status.
CanSave(r, new) ==
  /\ req[r].fresh
  /\ status = new \/ new \in ALLOWED_TRANSITIONS(status)

\* Mutant: the guard dropped.
never_refused == TRUE

assert_period_not_confirmed == ~period_has_confirmed_slips

-----------------------------------------------------------------------------
(* Requests. *)

Start(r, call) ==
  /\ call.op \in Ops
  /\ req[r] = Idle
  /\ Cardinality(InFlight) < MaxInFlight
  /\ req' = [req EXCEPT ![r] = call]
  /\ UNCHANGED db

\* What a commit leaves of the other requests' reads: `period' says the period row got
\* a new stamp, E are the employees whose line did, S the slips that did, D the slips
\* that are gone.
Disturbed(q, period, E, S, D) ==
  [req[q] EXCEPT
     !.fresh = /\ @
               /\ ~(period /\ req[q].op \in PeriodSavers)
               /\ ~(req[q].op = "adjust" /\ req[q].emp \in E)
               /\ ~(req[q].op = "calculating" /\ ~(E \subseteq req[q].emps)),
     !.slip   = IF @ \in D THEN NoSlip ELSE @,
     !.drafts = @ \ D,
     !.filed  = @ \ ((S \ {req[q].slip}) \cup D)]

Commit(r, period, E, S, D) ==
  req' = [q \in Requests \cup Jobs |-> IF q = r THEN Idle ELSE Disturbed(q, period, E, S, D)]

\* A request that throws, or whose worker dies: the transaction is rolled back.
Abort(r) ==
  /\ req[r].op # "idle"
  /\ req' = [req EXCEPT ![r] = Idle]
  /\ UNCHANGED db

-----------------------------------------------------------------------------
(* HR: calculate, approve, generate, publish. *)

CalculateBegin(r) ==
  /\ status # "None"
  /\ assert_period_not_confirmed
  /\ Start(r, [Idle EXCEPT !.op = "claim",
                 !.seen = IF \/ status = "Calculating"
                             \/ status = "Published" /\ period_has_adjustment_requests
                          THEN status ELSE "None"])

\* _claim_period_for_calculation and its commit.  The guarded UPDATE sees the current
\* row and leaves its stamp alone; the status read after it is the snapshot's, so a
\* request that began while the period was Calculating goes ahead whatever happened
\* since.  The reads of the calculation itself start after this commit.
Claim(r) ==
  /\ req[r].op = "claim"
  /\ LET updates == \/ status \in {"Draft", "Calculated"}
                    \/ req[r].seen = "Published" /\ status = "Published"
         claimed == updates \/ req[r].seen = "Calculating"
     IN  /\ status' = IF updates THEN "Calculating" ELSE status
         /\ req' = [req EXCEPT ![r] =
                      IF claimed
                      THEN [Idle EXCEPT !.op = "calculating",
                              !.fresh = \A e \in Employees : Len(lines[e]) <= 1,
                              !.emps = {e \in Employees : lines[e] = <<>>}]
                      ELSE Idle]
  /\ UNCHANGED <<lines, slips, errors, reviewed>>

\* _upsert_line inserts for the employees it saw no line of, and saves the line of the
\* others; the db_set of the status and totals asks for nothing.  A blocker, a missing
\* base or a stale line throws: Abort, with the claim already committed.
CalculateFinish(r) ==
  /\ req[r].op = "calculating"
  /\ req[r].fresh
  /\ status # "None"
  /\ \E net \in [Employees -> Amounts] :
       lines' = [e \in Employees |->
                   IF e \in req[r].emps THEN Append(lines[e], [net |-> net[e], slip |-> NoSlip])
                   ELSE [lines[e] EXCEPT ![1].net = net[e]]]
  /\ status' = "Calculated"
  /\ reviewed' = [e \in Employees |-> {}]
  /\ Commit(r, TRUE, Employees, {}, {})
  /\ UNCHANGED <<slips, errors>>

ApproveBegin(r) ==
  /\ assert_period_not_confirmed
  /\ status \in {"Calculated", "Approved"}
  /\ Start(r, [Idle EXCEPT !.op = "approve", !.fresh = TRUE])

ApproveCommit(r) ==
  /\ req[r].op = "approve"
  /\ CanSave(r, "Approved")
  /\ status' = "Approved"
  /\ reviewed' = [e \in Employees |-> {lines[e][i].net : i \in DOMAIN lines[e]}]
  /\ Commit(r, TRUE, {}, {}, {})
  /\ UNCHANGED <<lines, slips, errors>>

\* op is "generate", or "retry" for retry_failed=1.
GenerateBegin(r, op) ==
  /\ assert_period_not_confirmed
  /\ status \in {"Approved", "Slips Generated"}
  /\ Start(r, [Idle EXCEPT !.op = op, !.fresh = TRUE, !.drafts = Drafts,
                 !.emps = {s[1] : s \in Submitted}])

\* The rows of employee e this run works on.
Todo(r, e) ==
  {i \in DOMAIN lines[e] : req[r].op = "generate" \/ lines[e][i].slip = NoSlip}

\* Mutant: a field the new document does not set keeps a value of the old one.
NewSlipUnset(net) == [net |-> net, doc |-> "draft", visible |-> TRUE, ack |-> "Cancelled",
                      rejected |-> FALSE, overdue |-> FALSE]

NewSlip(net) == [net |-> net, doc |-> "draft", visible |-> TRUE, ack |-> "",
                 rejected |-> FALSE, overdue |-> FALSE]

ToGenerate(r) == {e \in Employees : Todo(r, e) # {}}

\* _delete_existing_slip: the drafts this request saw of the employees E.
Deleted(r, E) == {s \in req[r].drafts \cap Existing : s[1] \in E}

\* Slips for the employees `made', in the free slots `slot', after the deletion of D.
\* Of two rows for one employee the one processed last, `kept', holds the slip.
Replace(r, made, D, slot, kept) ==
  /\ \A e \in made : /\ kept[e] \in Todo(r, e)
                     /\ <<e, slot[e]>> \notin Existing \ D
                     /\ \A k \in 1..(slot[e] - 1) : <<e, k>> \in Existing \ D
  /\ slips' = [s \in Slips |->
       IF s[1] \in made /\ s[2] = slot[s[1]] THEN NewSlip(lines[s[1]][kept[s[1]]].net)
       ELSE IF s \in D THEN NoSlip ELSE slips[s]]
  /\ lines' = [e \in Employees |-> [i \in DOMAIN lines[e] |->
       [lines[e][i] EXCEPT !.slip =
          IF e \in made /\ i \in Todo(r, e)
          THEN IF i = kept[e] THEN <<e, slot[e]>> ELSE Gone
          ELSE IF @ \in D THEN Gone ELSE @]]]
  /\ errors' = ToGenerate(r) \ made
  /\ Commit(r, TRUE, made, {}, D)

\* Every worked-on employee ends up in `made' (a slip), in `broken' (the draft was
\* deleted, then HRMS refused the insert - as it does while a submitted slip exists)
\* or in neither (no usable Salary Structure Assignment: nothing touched).
GenerateCommit(r) ==
  /\ req[r].op \in {"generate", "retry"}
  /\ CanSave(r, "Slips Generated")
  /\ \E made \in SUBSET (ToGenerate(r) \ req[r].emps) :
       \E broken \in SUBSET (ToGenerate(r) \ made),
          slot \in [made -> 1..MaxSlips], kept \in [made -> UNION {Todo(r, e) : e \in made}] :
         Replace(r, made, Deleted(r, made \cup broken), slot, kept)
  /\ status' = "Slips Generated"
  /\ UNCHANGED reviewed

PublishBegin(r) ==
  /\ assert_period_not_confirmed
  /\ status = "Slips Generated"
  /\ Start(r, [Idle EXCEPT !.op = "publish", !.fresh = TRUE])

PublishCommit(r) ==
  /\ req[r].op = "publish"
  /\ CanSave(r, "Published")
  /\ LET shown == {s \in LinkedSlips : s[1] \notin Withheld}
     IN  /\ slips' = [s \in Slips |-> IF s \in shown THEN [slips[s] EXCEPT !.visible = TRUE]
                                                     ELSE slips[s]]
         /\ Commit(r, TRUE, {}, shown, {})
  /\ status' = "Published"
  /\ UNCHANGED <<lines, errors, reviewed>>

-----------------------------------------------------------------------------
(* HR: update, delete, cancel, adjust a line, reopen. *)

UpdateBegin(r) ==
  /\ status = "Draft"
  /\ Start(r, [Idle EXCEPT !.op = "update", !.fresh = TRUE])

UpdateCommit(r) ==
  /\ req[r].op = "update"
  /\ CanSave(r, "Draft")
  /\ status' = "Draft"
  /\ Commit(r, TRUE, {}, {}, {})
  /\ UNCHANGED <<lines, slips, errors, reviewed>>

DeleteBegin(r) ==
  /\ status \in {"Draft", "Calculated"}
  /\ LinkedEmployees = {}
  /\ Start(r, [Idle EXCEPT !.op = "delete"])

DeleteCommit(r) ==
  /\ req[r].op = "delete"
  /\ status' = "None"
  /\ lines' = [e \in Employees |-> <<>>]
  /\ errors' = {}
  /\ Commit(r, TRUE, Employees, {}, {})
  /\ UNCHANGED <<slips, reviewed>>

CancelBegin(r) ==
  /\ status \notin {"Cancelled", "None"}
  /\ assert_period_not_confirmed
  /\ LinkedSlips \cap Submitted = {}
  /\ Start(r, [Idle EXCEPT !.op = "cancel", !.drafts = LinkedSlips, !.emps = LinkedEmployees])

CancelCommit(r) ==
  /\ req[r].op = "cancel"
  /\ status # "None"
  /\ status' = "Cancelled"
  /\ slips' = [s \in Slips |-> IF s \in req[r].drafts THEN NoSlip ELSE slips[s]]
  /\ lines' = [e \in Employees |-> [i \in DOMAIN lines[e] |->
                 IF e \in req[r].emps THEN [lines[e][i] EXCEPT !.slip = NoSlip] ELSE lines[e][i]]]
  /\ Commit(r, TRUE, req[r].emps, {}, req[r].drafts)
  /\ UNCHANGED <<errors, reviewed>>

\* save_payroll_adjustment and delete_payroll_adjustment.  Saving one of two lines of
\* an employee fails in _validate_unique_employee.
AdjustBegin(r, e) ==
  /\ Len(lines[e]) = 1
  /\ status # "Approved"
  /\ Start(r, [Idle EXCEPT !.op = "adjust", !.emp = e, !.fresh = TRUE])

AdjustCommit(r) ==
  /\ req[r].op = "adjust"
  /\ req[r].fresh
  /\ \E net \in Amounts : lines' = [lines EXCEPT ![req[r].emp][1].net = net]
  /\ Commit(r, TRUE, {req[r].emp}, {}, {})
  /\ UNCHANGED <<status, slips, errors, reviewed>>

ReopenBegin(r) ==
  /\ status \in {"Published", "Confirmed", "Slips Generated"}
  /\ Start(r, [Idle EXCEPT !.op = "reopen", !.drafts = Drafts, !.filed = Submitted])

AckReset(slip) == [slip EXCEPT !.ack = "", !.rejected = FALSE]

\* Cancelling a submitted slip may fail; the slip is then logged and left as it is.
ReopenCommit(r) ==
  /\ req[r].op = "reopen"
  /\ status # "None"
  /\ \E cancelled \in SUBSET req[r].filed :
       /\ slips' = [s \in Slips |->
            IF s \in cancelled THEN [AckReset(slips[s]) EXCEPT !.doc = "cancelled"]
            ELSE IF s \in req[r].drafts THEN AckReset(slips[s]) ELSE slips[s]]
       /\ Commit(r, TRUE, {}, req[r].drafts \cup cancelled, {})
  /\ status' = "Calculated"
  /\ UNCHANGED <<lines, errors, reviewed>>

-----------------------------------------------------------------------------
(* The acknowledgement of a slip. *)

RequestBegin(r, s) ==
  /\ s \in Existing
  /\ slips[s].visible /\ ~slips[s].rejected /\ slips[s].ack = ""
  /\ Start(r, [Idle EXCEPT !.op = "request", !.slip = s])

RejectBegin(r, s) ==
  /\ s \in Existing
  /\ slips[s].ack = "Requested"
  /\ Start(r, [Idle EXCEPT !.op = "reject", !.slip = s])

PayBegin(r, s) ==
  /\ s \in Existing
  /\ slips[s].ack = "Awaiting Payment"
  /\ Start(r, [Idle EXCEPT !.op = "pay", !.slip = s])

\* The set_value of the three: on whatever the row holds by now.
StampAck(r, op, stamped) ==
  /\ req[r].op = op
  /\ req[r].slip # NoSlip
  /\ slips' = [slips EXCEPT ![req[r].slip] = stamped]
  /\ Commit(r, FALSE, {}, {req[r].slip}, {})
  /\ UNCHANGED <<status, lines, errors, reviewed>>

RequestCommit(r) == StampAck(r, "request", [slips[req[r].slip] EXCEPT !.ack = "Requested"])
RejectCommit(r)  == StampAck(r, "reject", [slips[req[r].slip] EXCEPT !.ack = "", !.rejected = TRUE])
PayCommit(r)     == StampAck(r, "pay", [slips[req[r].slip] EXCEPT !.ack = "Paid"])

\* Mutants: any answer counts as a confirmation; the request misses its own write.
AllAnsweredWith(s) ==
  /\ VisibleLive # {}
  /\ \A o \in VisibleLive \ {s} : slips[o].ack # ""
AllConfirmedBefore(s) ==
  /\ VisibleLive # {}
  /\ \A o \in VisibleLive : slips[o].ack \in LockStates

\* maybe_lock_period_after_confirm, the query: with slip s confirmed by this request,
\* is every visible slip (docstatus < 2) of the period confirmed?
AllConfirmedWith(s) ==
  /\ VisibleLive # {}
  /\ \A o \in VisibleLive \ {s} : slips[o].ack \in LockStates

Confirm(r, s) ==
  /\ s \in Existing
  /\ slips[s].visible /\ slips[s].ack = ""
  /\ s[1] \in HasBank
  /\ Start(r, [Idle EXCEPT !.op = "confirm", !.slip = s, !.full = AllConfirmedWith(s),
                 !.filed = VisibleLive \cap Drafts])

ConfirmBegin(r, s) == Confirm(r, s)

\* Mutant: the job's query asks for submitted slips.
AutoConfirmSubmitted(j, s) ==
  /\ s \in Submitted /\ slips[s].overdue
  /\ Confirm(j, s)

\* run_payslip_autoconfirm, one overdue slip.
AutoConfirmBegin(j, s) ==
  /\ s \in Live /\ slips[s].overdue
  /\ Confirm(j, s)

\* The stamp, and when the query said so the submits (each may fail and is skipped)
\* and the status.
ConfirmCommit(r) ==
  /\ req[r].op = "confirm"
  /\ req[r].slip # NoSlip
  /\ LET s == req[r].slip
         confirmed == [slips[s] EXCEPT !.ack = "Awaiting Payment"]
     IN \/ /\ ~req[r].full
           /\ slips' = [slips EXCEPT ![s] = confirmed]
           /\ Commit(r, FALSE, {}, {s}, {})
           /\ UNCHANGED status
        \/ /\ req[r].full
           /\ \E done \in SUBSET (req[r].filed \cap Drafts) :
                /\ slips' = [o \in Slips |->
                     LET now == IF o = s THEN confirmed ELSE slips[o]
                     IN  IF o \in done THEN [now EXCEPT !.doc = "submitted"] ELSE now]
                /\ Commit(r, TRUE, {}, done \cup {s}, {})
           /\ status' = IF status = "None" THEN status ELSE "Confirmed"
  /\ UNCHANGED <<lines, errors, reviewed>>

\* The slip was deleted in between: the UPDATE matches no row and the request ends.
StampGone(r) ==
  /\ req[r].op \in {"request", "reject", "pay", "confirm"}
  /\ req[r].slip = NoSlip
  /\ req' = [req EXCEPT ![r] = Idle]
  /\ UNCHANGED db

\* vn_payslip_autoconfirm_days have passed since the slip became visible (only the
\* job looks at it).
DaysPass(s) ==
  /\ Jobs # {}
  /\ s \in Existing
  /\ ~slips[s].overdue
  /\ slips' = [slips EXCEPT ![s].overdue = TRUE]
  /\ UNCHANGED <<status, lines, errors, reviewed, req>>

-----------------------------------------------------------------------------
\* The period has just been inserted (create_payroll_review, auto_close_payroll).
Init ==
  /\ status = "Draft"
  /\ lines = [e \in Employees |-> <<>>]
  /\ slips = [s \in Slips |-> NoSlip]
  /\ errors = {}
  /\ reviewed = [e \in Employees |-> {}]
  /\ req = [r \in Requests \cup Jobs |-> Idle]

HRBegin(r) ==
  \/ CalculateBegin(r)
  \/ ApproveBegin(r)
  \/ \E op \in {"generate", "retry"} : GenerateBegin(r, op)
  \/ PublishBegin(r)
  \/ UpdateBegin(r)
  \/ DeleteBegin(r)
  \/ CancelBegin(r)
  \/ \E e \in Employees : AdjustBegin(r, e)
  \/ ReopenBegin(r)

SlipBegin(r) ==
  \E s \in Slips : RequestBegin(r, s) \/ RejectBegin(r, s) \/ ConfirmBegin(r, s) \/ PayBegin(r, s)

PeriodStep(r) ==
  \/ Claim(r)
  \/ CalculateFinish(r)
  \/ ApproveCommit(r)
  \/ GenerateCommit(r)
  \/ PublishCommit(r)
  \/ UpdateCommit(r)
  \/ DeleteCommit(r)
  \/ CancelCommit(r)
  \/ AdjustCommit(r)
  \/ ReopenCommit(r)

SlipStep(r) == RequestCommit(r) \/ RejectCommit(r) \/ PayCommit(r) \/ ConfirmCommit(r) \/ StampGone(r)

Next ==
  \/ \E r \in Requests : HRBegin(r) \/ SlipBegin(r)
  \/ \E j \in Jobs, s \in Slips : AutoConfirmBegin(j, s)
  \/ \E r \in Requests \cup Jobs : PeriodStep(r) \/ SlipStep(r) \/ Abort(r)
  \/ \E s \in Slips : DaysPass(s)

Spec == Init /\ [][Next]_vars

\* The scheduler runs the auto-confirm job daily and goes through all its rows; a run
\* may fail, not every run does.
JobFairness ==
  \A j \in Jobs : /\ \A s \in Slips : SF_vars(AutoConfirmBegin(j, s))
                  /\ SF_vars(ConfirmCommit(j)) /\ WF_vars(StampGone(j))

FairSpec == Spec /\ JobFairness

-----------------------------------------------------------------------------
(* Properties. *)

\* Types of the period row, its lines, the slips and the requests in flight.
TypeOK ==
  /\ status \in Statuses
  /\ lines \in [Employees -> Seq(Line)]
  /\ slips \in [Slips -> Slip \cup {NoSlip}]
  /\ errors \subseteq Employees
  /\ reviewed \in [Employees -> SUBSET Amounts]
  /\ req \in [Requests \cup Jobs -> Request]

\* However generations, reopenings and locks overlap, an employee never has two live
\* salary slips for the month: what two runs of generate_salary_slips read and delete
\* (_delete_existing_slip) is kept apart only by the stamp check of their period.save().
OneLiveSlip == \A s, t \in Live : s[1] = t[1] => s = t

\* An amount gets onto a slip (_stamp_slip_totals) only if it is the net of a line of
\* that employee at the last approval, with no calculation since.
SlipPaysReviewedAmount ==
  [][\A s \in Slips :
       (/\ slips'[s] # NoSlip
        /\ slips[s] = NoSlip \/ slips'[s].net # slips[s].net)
       => slips'[s].net \in reviewed[s[1]]]_vars

\* Decision #2: what an employee confirmed can never change.  A confirmed slip keeps
\* its row and its net, and stays confirmed unless the period is reopened to Calculated.
ConfirmedSlipIsFinal ==
  [][\A s \in Slips :
       (slips[s] # NoSlip /\ slips[s].ack \in LockStates)
       => /\ slips'[s] # NoSlip
          /\ slips'[s].net = slips[s].net
          /\ slips'[s].ack \in LockStates \/ status' = "Calculated"]_vars

\* The lock of maybe_lock_period_after_confirm tells HR that everybody confirmed.
LockedMeansConfirmed ==
  status = "Confirmed" => \A s \in VisibleLive : slips[s].ack \in LockStates

\* ... and it comes with the last confirmation: a period whose visible slips are all
\* confirmed does not stay Slips Generated or Published, where nothing locks it later.
LastConfirmationLocks ==
  status \in {"Slips Generated", "Published"} /\ VisibleLive # {}
  => \E s \in VisibleLive : slips[s].ack \notin LockStates

\* A visible slip that is overdue does not stay unanswered: run_payslip_autoconfirm
\* confirms it, unless it is replaced or its employee acts first.
Unanswered(s) ==
  /\ s \in Live
  /\ slips[s].visible /\ slips[s].overdue /\ slips[s].ack = ""
  /\ s[1] \in HasBank

OverdueIsAnswered == \A s \in Slips : Unanswered(s) ~> ~Unanswered(s)
=============================================================================
