---------------------------- MODULE SalaryAdvance ----------------------------
(***************************************************************************)
(* Salary advance requests of one employee: the request, its way through    *)
(* the approval matrix, the payment, which makes the Additional Salary that *)
(* takes the money back from the slip, and the reversal of a payment.       *)
(*                                                                          *)
(* As in PayrollReview a web request is a transaction: its first step reads *)
(* a snapshot and validates against it, its second writes.  req[r].fresh    *)
(* and req[r].dfresh say that the stamps of the request row and of the      *)
(* Additional Salary row are still the ones it loaded: doc.save() refuses   *)
(* anything else.                                                           *)
(***************************************************************************)
EXTENDS Naturals, FiniteSets

CONSTANTS
  Advances,      \* names of VN Salary Advance Request rows: numbers, given in order
  Deductions,    \* names of Additional Salary rows: numbers, given in order
  Requests,      \* request slots of the web workers
  Days,          \* posting dates: the days of one month, which is the payroll's window
  Amounts,       \* requested and sanctioned amounts
  Eligibles,     \* values of the policy's cap; 0: no cap (no policy, no base salary)
  Quota,         \* max_requests_per_month; 0: none
  CutoffDay,     \* cutoff_day; 0: none
  Steps,         \* steps of the approval matrix; 0: there is no matrix
  Ops,           \* the operations that happen at all
  MaxInFlight    \* requests running at the same time

\* What the names, days and numbers are.
AdvancePlan ==
  /\ Advances \subseteq Nat \ {0} /\ Deductions \subseteq Nat \ {0}
  /\ IsFiniteSet(Advances) /\ IsFiniteSet(Deductions) /\ IsFiniteSet(Requests)
  /\ Days \subseteq Nat \ {0} /\ Amounts \subseteq Nat \ {0}
  /\ Eligibles \subseteq Nat /\ Eligibles # {}
  /\ Quota \in Nat /\ CutoffDay \in Nat /\ Steps \in Nat /\ MaxInFlight \in Nat

Pending   == {"Pending Manager", "Pending HR"}
Editable  == Pending \cup {"Draft"}                  \* _EDITABLE_STATES
States    == Editable \cup {"Approved", "Paid", "Rejected"}

\* approved = 0: approved_amount was never stamped.  link = 0: no linked_additional_salary.
Advance == [day : Days, asked : Amounts, approved : Amounts \cup {0}, state : States,
            link : Deductions \cup {0}]
\* linked is a ghost: the request was linked with it when it was made.
Deduction == [advance : Advances, amount : Amounts,
              status : {"Draft", "Submitted", "Cancelled"}, linked : BOOLEAN]
NoRow == [state |-> "None", status |-> "None"]

OpNames == {"idle", "submit", "update", "cancel", "approve", "reject", "return",
            "pay", "reverse", "calculate"}
Request == [op : OpNames, advance : Advances \cup {0}, day : Days \cup {0},
            asked : Amounts \cup {0}, deduction : Deductions \cup {0},
            fresh : BOOLEAN, dfresh : BOOLEAN]
Idle == [op |-> "idle", advance |-> 0, day |-> 0, asked |-> 0, deduction |-> 0,
         fresh |-> FALSE, dfresh |-> FALSE]

VARIABLES
  advance,     \* VN Salary Advance Request rows
  deduction,   \* Additional Salary rows made for them
  signed,      \* ghost: approvals given since the request was last sent for approval
  eligible,    \* what the policy allows now
  period,      \* status of the payroll review period of this month
  req          \* requests in flight

vars == <<advance, deduction, signed, eligible, period, req>>

-----------------------------------------------------------------------------
(* Queries and validation. *)

Rows == {a \in Advances : advance[a] # NoRow}
State(a) == advance[a].state
Live(a) == {d \in Deductions : /\ deduction[d] # NoRow
                               /\ deduction[d].advance = a /\ deduction[d].status = "Submitted"}
Counted == {a \in Rows : State(a) # "Rejected"}

\* _assert_monthly_quota: the other requests of the month up to this one's day.
quota_left(a, day) ==
  Quota = 0 \/ Cardinality({b \in Counted \ {a} : advance[b].day <= day}) < Quota

\* validate(), in every save of the request.
Valid(a, day, asked) ==
  /\ eligible = 0 \/ asked <= eligible
  /\ CutoffDay = 0 \/ day <= CutoffDay
  /\ quota_left(a, day)
ValidRow(a) == Valid(a, advance[a].day, advance[a].asked)

\* Mutants: the last step is forgotten; the state is named after the step.
next_state_after_early(state) == IF state = "Pending Manager" /\ Steps > 2 THEN "Pending HR" ELSE "Approved"
next_state_after_named(state) == IF state = "Pending Manager" /\ Steps > 1 THEN "Pending Director" ELSE "Approved"
\* Pending Manager is step 0 and Pending HR step 1, whatever the matrix has.
next_state_after(state) ==
  LET next == IF state = "Pending HR" THEN 2 ELSE 1
  IN  IF next < Steps THEN "Pending HR" ELSE "Approved"

-----------------------------------------------------------------------------
(* Transactions. *)

Start(r, call) ==
  /\ call.op \in Ops
  /\ req[r] = Idle
  /\ Cardinality({q \in Requests : req[q] # Idle}) < MaxInFlight
  /\ req' = [req EXCEPT ![r] = call]
  /\ UNCHANGED <<advance, deduction, signed, eligible, period>>

\* A request that loads row a and validates it as it stands.
Load(r, a, op) ==
  Start(r, [Idle EXCEPT !.op = op, !.advance = a, !.fresh = TRUE,
                        !.deduction = advance[a].link, !.dfresh = TRUE])

\* Request r ends; the advance rows A and the deduction rows D got a new stamp.
End(r, A, D) ==
  req' = [q \in Requests |->
            IF q = r THEN Idle
            ELSE [req[q] EXCEPT !.fresh = @ /\ req[q].advance \notin A,
                                !.dfresh = @ /\ req[q].deduction \notin D]]

\* Mutant: the row is written whatever its stamp.
SavesBlind(r, op) == req[r].op = op
\* doc.save() of request r: check_if_latest.
Saves(r, op) == req[r].op = op /\ req[r].fresh

Write(r, row) ==
  /\ advance' = [advance EXCEPT ![req[r].advance] = row]
  /\ End(r, {req[r].advance}, {})

\* The request throws and is rolled back.
Abort(r) ==
  /\ req[r] # Idle
  /\ req' = [req EXCEPT ![r] = Idle]
  /\ UNCHANGED <<advance, deduction, signed, eligible, period>>

-----------------------------------------------------------------------------
(* The employee. *)

\* submit_advance_request, with a posting_date of the client's choice, and
\* resubmit_advance_request, which copies a rejected request to today.
SubmitBegin(r) ==
  \E day \in Days, asked \in Amounts :
    /\ Valid(0, day, asked)
    /\ Start(r, [Idle EXCEPT !.op = "submit", !.day = day, !.asked = asked])
ResubmitBegin(r, a) ==
  /\ State(a) = "Rejected"
  /\ \E today \in Days :
       /\ Valid(0, today, advance[a].asked)
       /\ Start(r, [Idle EXCEPT !.op = "submit", !.day = today, !.asked = advance[a].asked])

\* insert, then send_for_approval, which may fail and leave the Draft.
SubmitCommit(r) ==
  /\ req[r].op = "submit"
  /\ \E a \in Advances \ Rows, state \in {"Pending Manager", "Draft"} :
       /\ \A b \in Advances : b < a => b \in Rows
       /\ advance' = [advance EXCEPT
            ![a] = [day |-> req[r].day, asked |-> req[r].asked, approved |-> 0,
                    state |-> state, link |-> 0]]
  /\ End(r, {}, {})
  /\ UNCHANGED <<deduction, signed, eligible, period>>

UpdateBegin(r, a) ==
  /\ State(a) \in Editable
  /\ \E day \in Days, asked \in Amounts :
       /\ <<day, asked>> # <<advance[a].day, advance[a].asked>>
       /\ Valid(a, day, asked)
       /\ Start(r, [Idle EXCEPT !.op = "update", !.advance = a, !.fresh = TRUE,
                                !.day = day, !.asked = asked])

UpdateCommit(r) ==
  /\ Saves(r, "update")
  /\ Write(r, [advance[req[r].advance] EXCEPT !.day = req[r].day, !.asked = req[r].asked])
  /\ UNCHANGED <<deduction, signed, eligible, period>>

\* Mutant: an approved request can be withdrawn as well.
WithdrawableAny(a) == State(a) # "Paid"
Withdrawable(a) == State(a) \notin {"Approved", "Paid"}

CancelBegin(r, a) == a \in Rows /\ Withdrawable(a) /\ ValidRow(a) /\ Load(r, a, "cancel")

-----------------------------------------------------------------------------
(* The approvers.  The row is locked before it is read, but the snapshot is  *)
(* older than the lock: the stamp decides.                                   *)

DecideBegin(r, a) ==
  /\ State(a) \in Pending
  /\ ValidRow(a)
  /\ \E op \in {"approve", "reject", "return"} : Load(r, a, op)

\* The sanctioned amount may be given at the last step.
\* Mutant: it is not compared with the requested one.
SanctionedAny(a, next) == IF next = "Approved" THEN Amounts \cup {0} ELSE {0}
Sanctioned(a, next) ==
  {0} \cup {m \in Amounts : next = "Approved" /\ m <= advance[a].asked}

ApproveCommit(r) ==
  LET a == req[r].advance
      next == next_state_after(State(a))
  IN  /\ Saves(r, "approve")
      /\ \E m \in Sanctioned(a, next) :
           Write(r, [advance[a] EXCEPT !.state = next, !.approved = IF m = 0 THEN @ ELSE m])
      /\ signed' = [signed EXCEPT ![a] = @ + 1]
      /\ UNCHANGED <<deduction, eligible, period>>

\* reject_request and the employee's cancel_advance_request.
RejectCommit(r) ==
  /\ Saves(r, "reject") \/ Saves(r, "cancel")
  /\ Write(r, [advance[req[r].advance] EXCEPT !.state = "Rejected"])
  /\ UNCHANGED <<deduction, signed, eligible, period>>

\* Back to Draft for correction: nothing sends an existing Draft again.
ReturnCommit(r) ==
  /\ Saves(r, "return")
  /\ Write(r, [advance[req[r].advance] EXCEPT !.state = "Draft"])
  /\ signed' = [signed EXCEPT ![req[r].advance] = 0]
  /\ UNCHANGED <<deduction, eligible, period>>

-----------------------------------------------------------------------------
(* HR: payment and reversal. *)

PayBegin(r, a) == State(a) \in {"Approved", "Paid"} /\ ValidRow(a) /\ Load(r, a, "pay")

\* Mutant: approved_amount stays as the approval left it.
CanonicalNever(row) == [row EXCEPT !.state = "Paid"]
\* What is paid without a sanctioned amount is the requested one.
Canonical(row) ==
  [row EXCEPT !.state = "Paid", !.approved = IF @ = 0 THEN row.asked ELSE @]

\* Mutant: on_update makes the deduction whenever a Paid request is saved.
NeedsDeductionAlways(row) == row.state = "Paid"
\* on_update, before _create_advance_deduction.
NeedsDeduction(row) == row.state = "Paid" /\ row.link = 0

advance_deduction_amount(row) == IF row.approved = 0 THEN row.asked ELSE row.approved

\* mark_paid: an Approved row is claimed by an UPDATE of the current row and saved; a
\* Paid one is saved again.  The save, of the link that was loaded, makes the deduction
\* if there is none: a draft when it cannot be submitted, nothing when that fails too,
\* and one without a link when the link cannot be written.
PayCommit(r) ==
  LET a == req[r].advance
      loaded == [advance[a] EXCEPT !.link = req[r].deduction]
      paid == IF State(a) = "Approved" THEN Canonical(loaded) ELSE loaded
  IN  /\ Saves(r, "pay")
      /\ \/ \E d \in Deductions, status \in {"Submitted", "Draft"}, linked \in BOOLEAN :
              /\ NeedsDeduction(paid)
              /\ deduction[d] = NoRow /\ \A e \in Deductions : e < d => deduction[e] # NoRow
              /\ deduction' = [deduction EXCEPT
                   ![d] = [advance |-> a, status |-> status, linked |-> linked,
                           amount |-> advance_deduction_amount(paid)]]
              /\ Write(r, [paid EXCEPT !.link = IF linked THEN d ELSE @])
         \/ UNCHANGED deduction /\ Write(r, paid)
      /\ UNCHANGED <<signed, eligible, period>>

ReverseBegin(r, a) ==
  /\ State(a) = "Paid"
  /\ ValidRow(a)
  /\ Load(r, a, "reverse")

\* There is no deduction, or it stays linked: cancelling it throws - a draft, a row that
\* changed since it was loaded, or one that another document uses (Frappe looks for those
\* when the row is written already, and the exception is caught) - or it is cancelled and
\* clearing the link fails, and the row is loaded again with it.
ReverseKeeps(r) ==
  LET a == req[r].advance
      d == req[r].deduction
  IN  /\ Saves(r, "reverse")
      /\ d # 0 /\ req[r].dfresh => deduction[d].status # "Cancelled"
      /\ \/ UNCHANGED deduction
         \/ /\ d # 0 /\ req[r].dfresh /\ deduction[d].status = "Submitted"
            /\ deduction' = [deduction EXCEPT ![d].status = "Cancelled"]
      /\ advance' = [advance EXCEPT ![a].state = "Approved"]
      /\ End(r, {a}, {d})
      /\ UNCHANGED <<signed, eligible, period>>

\* The deduction was cancelled before, and clearing the link fails: what is saved is the
\* row in memory, where it is cleared.  (When it does not fail, the stamp is new, the row
\* is not loaded again and its save fails: only Abort(r) is left.)
ReverseClears(r) ==
  LET a == req[r].advance
      d == req[r].deduction
  IN  /\ Saves(r, "reverse") /\ req[r].dfresh
      /\ d # 0 /\ deduction[d].status = "Cancelled"
      /\ advance' = [advance EXCEPT ![a].state = "Approved", ![a].link = 0]
      /\ End(r, {a}, {})
      /\ UNCHANGED <<deduction, signed, eligible, period>>

\* The deduction is cancelled, its link is cleared without a look at the stamp, and the
\* row is loaded again.  With cancel_request only Abort(r) is left.
ReverseCancels(r) ==
  LET a == req[r].advance
      d == req[r].deduction
  IN  /\ req[r].op = "reverse" /\ req[r].dfresh
      /\ d # 0 /\ deduction[d].status = "Submitted"
      /\ deduction' = [deduction EXCEPT ![d].status = "Cancelled"]
      /\ advance' = [advance EXCEPT ![a].state = "Approved", ![a].link = 0]
      /\ End(r, {a}, {d})
      /\ UNCHANGED <<signed, eligible, period>>

\* HR submits or cancels an Additional Salary by hand.
DeskDeduction(d) ==
  /\ "desk" \in Ops
  /\ deduction[d] # NoRow /\ deduction[d].status # "Cancelled"
  /\ deduction' = [deduction EXCEPT
       ![d].status = IF @ = "Draft" THEN "Submitted" ELSE "Cancelled"]
  /\ req' = [q \in Requests |-> [req[q] EXCEPT !.dfresh = @ /\ req[q].deduction # d]]
  /\ UNCHANGED <<advance, signed, eligible, period>>

-----------------------------------------------------------------------------
(* The policy or the base salary changes; the payroll (see PayrollReview).   *)

PolicyChanges ==
  /\ eligible' \in Eligibles \ {eligible}
  /\ UNCHANGED <<advance, deduction, signed, period, req>>

PayrollClaim ==
  /\ "calculate" \in Ops
  /\ period' = "Calculating"
  /\ UNCHANGED <<advance, deduction, signed, eligible, req>>

pending_advance_requests == {a \in Rows : State(a) = "Approved"}

PayrollReads(r) ==
  /\ period = "Calculating"
  /\ pending_advance_requests = {}
  /\ Start(r, [Idle EXCEPT !.op = "calculate"])

PayrollCalculated(r) ==
  /\ req[r].op = "calculate"
  /\ period' = "Calculated"
  /\ End(r, {}, {})
  /\ UNCHANGED <<advance, deduction, signed, eligible>>

-----------------------------------------------------------------------------
Init ==
  /\ advance = [a \in Advances |-> NoRow]
  /\ deduction = [d \in Deductions |-> NoRow]
  /\ signed = [a \in Advances |-> 0]
  /\ eligible \in Eligibles
  /\ period = "Draft"
  /\ req = [r \in Requests |-> Idle]

Begin(r) ==
  \/ SubmitBegin(r) \/ PayrollReads(r)
  \/ \E a \in Advances :
       \/ ResubmitBegin(r, a) \/ UpdateBegin(r, a) \/ CancelBegin(r, a)
       \/ DecideBegin(r, a) \/ PayBegin(r, a) \/ ReverseBegin(r, a)

Finish(r) ==
  \/ SubmitCommit(r) \/ UpdateCommit(r) \/ ApproveCommit(r) \/ RejectCommit(r)
  \/ ReturnCommit(r) \/ PayCommit(r) \/ ReverseKeeps(r) \/ ReverseClears(r)
  \/ ReverseCancels(r) \/ PayrollCalculated(r) \/ Abort(r)

Next ==
  \/ \E r \in Requests : Begin(r) \/ Finish(r)
  \/ \E d \in Deductions : DeskDeduction(d)
  \/ PolicyChanges \/ PayrollClaim

Spec == Init /\ [][Next]_vars

-----------------------------------------------------------------------------
(* Properties. *)

\* Types of the requests, the deductions, the policy's cap, the payroll period.
TypeOK ==
  /\ advance \in [Advances -> Advance \cup {NoRow}]
  /\ deduction \in [Deductions -> Deduction \cup {NoRow}]
  /\ signed \in [Advances -> Nat]
  /\ eligible \in Eligibles
  /\ period \in {"Draft", "Calculating", "Calculated"}
  /\ req \in [Requests -> Request]

\* However often a payment is recorded, reversed and recorded again, and by whom, at most
\* one of the Additional Salaries the request was ever linked with takes it back from the
\* slip, whatever others its payments lost.
OneLiveDeduction ==
  \A a \in Advances : Cardinality({d \in Live(a) : deduction[d].linked}) <= 1

\* Refuted.  "The row is linked via linked_additional_salary so the step never repeats": it
\* does when the link could not be written, and then the advance is taken back twice.
OneLiveAnyhow == \A a \in Advances : Cardinality(Live(a)) <= 1

\* What the Additional Salary deducts is what employee_advance_deductions puts on the
\* payroll line.
AmountsAgree ==
  \A a \in Rows : \A d \in Live(a) : deduction[d].amount = advance[a].approved

\* Nobody sanctions more than was asked for, whatever the employee edits meanwhile.
ApprovedWithinAsked == \A a \in Rows : advance[a].approved <= advance[a].asked

\* An approved request has been approved at every step of the matrix since it was sent.
AllStepsSigned ==
  \A a \in Rows : State(a) \in {"Approved", "Paid"} => signed[a] >= Steps

\* An approved request is not edited, withdrawn, returned or taken back to a pending state
\* by a request that was under way when it was approved.
ApprovedStands ==
  [][\A a \in Rows :
       State(a) \in {"Approved", "Paid"}
       => /\ advance'[a].state \in {"Approved", "Paid"}
          /\ advance'[a].day = advance[a].day /\ advance'[a].asked = advance[a].asked
          /\ advance[a].approved \in {0, advance'[a].approved}]_vars

\* The policy's max_requests_per_month bounds the live requests of the month.
MonthQuotaKept == Quota = 0 \/ Cardinality(Counted) <= Quota

\* A payroll is calculated only once every request sent in its window is settled.
SettledBeforeCalculation ==
  [][period' = "Calculated" /\ period # "Calculated"
     => \A a \in Rows : State(a) \in {"Draft", "Paid", "Rejected"}]_vars
=============================================================================
