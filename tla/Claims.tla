------------------------------- MODULE Claims -------------------------------
(***************************************************************************)
(* The requests that are documents of HRMS: expense claims, encashments of  *)
(* leave, compensatory days off, business trips, grievances, benefits,       *)
(* gratuities and promotions, from the draft to the decision and after.      *)
(*                                                                          *)
(* A request reads a row in a snapshot and writes it in one transaction; a   *)
(* save, submit or cancel of a row that has a new stamp is refused.  `mark   *)
(* paid' and the delete of a draft do not compare stamps.                     *)
(***************************************************************************)
EXTENDS Integers, FiniteSets

CONSTANTS
  Docs, Requests,
  Kinds,     \* the kinds of documents to look at; all of an instance are of one
  Amounts,   \* what is asked for
  Faults     \* the values of `faulty' to look at

VARIABLES
  kind, doc, req,
  faulty     \* whether a hook of HRMS may fail after the row was written
vars == <<kind, doc, req, faulty>>

NoDoc == [ds |-> 0, status |-> "None", amount |-> 0, paid |-> FALSE, effect |-> FALSE, of |-> "None"]
Idle  == [of |-> "None"]
Draft == IF kind = "Grievance" THEN "Open" ELSE "Draft"
LeaveExtra  == {"Encashment", "CompOff"}
\* Without a status of their own: the docstatus is shown.
DocStatusOnly == {"Application", "BenefitClaim", "Promotion", "Gratuity"}

-----------------------------------------------------------------------------
(* What a handler accepts of the row x, for the owner or for HR. *)

MayEdit(x) ==
  CASE kind \in {"Expense", "Travel"} -> x.ds = 0 /\ x.status \in {"Draft", "Rejected"}
    [] kind \in LeaveExtra            -> x.ds = 0
    [] kind = "Grievance"             -> x.status = "Open"
    [] OTHER                          -> kind = "Application" /\ x.ds = 0
MayWithdraw(x) ==
  CASE kind \in LeaveExtra \cup {"Travel"} -> x.ds = 0 /\ x.status = "Draft"
    [] OTHER                               -> kind = "Grievance" /\ x.status = "Open"
MayDelete(x) ==
  CASE kind \in LeaveExtra \cup {"Travel", "Expense"} -> x.ds = 0
    [] OTHER                                          -> kind = "Grievance" /\ x.status \in {"Open", "Invalid"}
\* Of the leave kinds and of trips a withdrawn or a rejected draft, too.
MayApprove(x) ==
  CASE kind = "Expense"       -> x.ds = 0 /\ x.status \notin {"Approved", "Rejected"}
    [] kind \in LeaveExtra    -> x.ds # 2
    [] kind = "Grievance"     -> TRUE
    [] OTHER                  -> x.ds = 0
\* Mutant: only what was not decided yet.
MayRejectDraft(x) == x.ds = 0 /\ x.status \in {"Draft", "Open", "Investigated"}
MayReject(x) ==
  CASE kind = "Expense"      -> x.ds = 0 /\ x.status # "Rejected"
    [] kind \in LeaveExtra   -> TRUE
    [] kind = "Travel"       -> x.ds = 0
    [] OTHER                 -> kind = "Grievance" /\ x.status \in {"Open", "Investigated"}
MayCancel(x) == kind \in (DocStatusOnly \cup {"Expense", "Travel"}) /\ x.ds = 1
MayPay(x)    == kind = "Expense" /\ x.ds = 1
MayAmend(x)  == kind \in ((DocStatusOnly \ {"Gratuity"}) \cup {"Expense"}) /\ x.ds = 2
MayInvestigate(x) == kind = "Grievance" /\ x.status = "Open"
MayReopen(x) == kind = "Grievance" /\ x.status = "Resolved"

\* What the screen offers of it, to the owner or to HR.
_can_flags(x) ==
  {a \in {"edit", "delete", "cancel", "approve", "reject", "pay", "amend"} :
     \/ a = "edit"    /\ x.ds = 0 /\ x.status \in {"Draft", "Rejected"}
     \/ a = "delete"  /\ x.ds = 0
     \/ a = "cancel"  /\ x.ds = 1
     \/ a = "approve" /\ x.ds = 0 /\ x.status = "Draft"
     \/ a = "reject"  /\ x.ds = 0 /\ x.status \in {"Draft", "Approved"}
     \/ a = "pay"     /\ x.ds = 1 /\ ~x.paid
     \/ a = "amend"   /\ x.ds = 2}
LeaveExtraCan(x) ==
  {a \in {"edit", "withdraw", "delete", "approve", "reject"} :
     \/ a = "edit" /\ x.ds = 0 /\ x.status \in {"Draft", "Rejected"}
     \/ a \in {"withdraw", "approve"} /\ x.ds = 0 /\ x.status = "Draft"
     \/ a = "delete" /\ x.ds = 0
     \/ a = "reject" /\ ((x.ds = 0 /\ x.status = "Draft") \/ x.ds = 1)}
GrievanceCan(x) ==
  {a \in {"edit", "withdraw", "delete", "approve", "investigate", "reject", "reopen"} :
     \/ a \in {"edit", "withdraw", "investigate"} /\ x.status = "Open"
     \/ a = "delete" /\ x.status \in {"Open", "Invalid"}
     \/ a \in {"approve", "reject"} /\ x.status \in {"Open", "Investigated"}
     \/ a = "reopen" /\ x.status = "Resolved"}
TravelCan(x) ==
  {a \in {"edit", "withdraw", "delete", "approve", "reject", "cancel"} :
     \/ a \in {"edit", "delete"} /\ x.ds = 0 /\ x.status \in {"Draft", "Rejected"}
     \/ a \in {"withdraw", "approve", "reject"} /\ x.ds = 0 /\ x.status = "Draft"
     \/ a = "cancel" /\ x.ds = 1}
_doc_can(x) ==
  {a \in {"edit", "approve", "cancel", "amend"} :
     \/ a \in {"edit", "approve"} /\ x.ds = 0
     \/ a = "cancel" /\ x.ds = 1
     \/ a = "amend" /\ x.ds = 2}
Offered(x) ==
  CASE kind = "Expense" -> _can_flags(x)    [] kind \in LeaveExtra -> LeaveExtraCan(x)
    [] kind = "Grievance" -> GrievanceCan(x) [] kind = "Travel" -> TravelCan(x)
    [] kind = "Gratuity" -> {}              [] OTHER -> _doc_can(x)
Accepted(x) ==
  {a \in {"edit", "withdraw", "delete", "approve", "reject", "cancel", "pay", "amend", "investigate", "reopen"} :
     CASE a = "edit" -> MayEdit(x)       [] a = "withdraw" -> MayWithdraw(x) [] a = "delete" -> MayDelete(x)
       [] a = "approve" -> MayApprove(x) [] a = "reject" -> MayReject(x)     [] a = "cancel" -> MayCancel(x)
       [] a = "pay" -> MayPay(x)         [] a = "amend" -> MayAmend(x)
       [] a = "investigate" -> MayInvestigate(x) [] a = "reopen" -> MayReopen(x)}

-----------------------------------------------------------------------------
Begin(r, d) ==
  /\ req[r] = Idle /\ doc[d] # NoDoc
  /\ \A q \in Requests : req[q].of \in {d, "None"}  \* a bound: rows do not meet
  /\ req' = [req EXCEPT ![r] = [of |-> d, row |-> doc[d], fresh |-> TRUE]]
  /\ UNCHANGED <<kind, doc, faulty>>
Reads(r, d) == req[r] # Idle /\ req[r].of = d
\* The rows named get a new stamp.
NewStamps(names) ==
  [q \in Requests |-> IF req[q].of \in names THEN [req[q] EXCEPT !.fresh = FALSE] ELSE req[q]]
Commits(r, names) == req' = [NewStamps(names) EXCEPT ![r] = Idle] /\ UNCHANGED <<kind, faulty>>
\* A check, a stamp or a hook of HRMS fails, or the worker dies: nothing stays of the request.
Abort(r) == req[r] # Idle /\ Commits(r, {}) /\ UNCHANGED doc

\* Mutant: the stamp is not compared.
SavesAnyway(r, d) == doc[d] # NoDoc
Saves(r, d) == req[r].fresh
Writes(r, d, x) == doc' = [doc EXCEPT ![d] = x] /\ Commits(r, {d})
Save(r, d, x) == Saves(r, d) /\ Writes(r, d, x)

(* Drafts. *)

Submits(d, amount) ==
  /\ doc[d] = NoDoc
  /\ doc' = [doc EXCEPT ![d] = [NoDoc EXCEPT !.status = Draft, !.amount = amount]]
  /\ req' = NewStamps({d}) /\ UNCHANGED <<kind, faulty>>
submit_expense_claim(d, amount)    == kind = "Expense" /\ Submits(d, amount)
submit_leave_encashment(d, amount) == kind = "Encashment" /\ Submits(d, amount)
submit_comp_off(d, amount)         == kind = "CompOff" /\ Submits(d, amount)
submit_travel_request(d, amount)   == kind = "Travel" /\ Submits(d, amount)
submit_grievance(d, amount)        == kind = "Grievance" /\ Submits(d, amount)
create_gratuity(d, amount)         == kind = "Gratuity" /\ Submits(d, amount)
\* These make a new draft every time they save.
save_benefit_claim(d, amount)      == kind = "BenefitClaim" /\ Submits(d, amount)
save_promotion(d, amount)          == kind = "Promotion" /\ Submits(d, amount)

\* Of a rejected draft a new one is made, to be decided again.
Updates(r, d, amount) ==
  LET x == req[r].row IN
  /\ Reads(r, d) /\ MayEdit(x)
  /\ Save(r, d, [x EXCEPT !.amount = amount, !.status = IF @ = "Rejected" THEN "Draft" ELSE @])
update_expense_claim(r, d, amount)    == kind = "Expense" /\ Updates(r, d, amount)
update_leave_encashment(r, d, amount) == kind = "Encashment" /\ Updates(r, d, amount)
update_comp_off(r, d, amount)         == kind = "CompOff" /\ Updates(r, d, amount)
\* They read the row again before they save it: in the same snapshot.
update_travel_request(r, d, amount)   == kind = "Travel" /\ Updates(r, d, amount)
update_grievance(r, d, amount)        == kind = "Grievance" /\ Updates(r, d, amount)
save_benefit_application(r, d, amount) ==
  kind = "Application" /\ (Submits(d, amount) \/ Updates(r, d, amount))

Withdraws(r, d, status) == Reads(r, d) /\ MayWithdraw(req[r].row) /\ Save(r, d, [req[r].row EXCEPT !.status = status])
_withdraw(r, d)               == kind \in LeaveExtra /\ Withdraws(r, d, "Rejected")
withdraw_travel_request(r, d) == kind = "Travel" /\ Withdraws(r, d, "Rejected")
withdraw_grievance(r, d)      == kind = "Grievance" /\ Withdraws(r, d, "Invalid")

Deletes(r, d) == Reads(r, d) /\ MayDelete(req[r].row) /\ doc[d] # NoDoc /\ Writes(r, d, NoDoc)
delete_leave_extra_draft(r, d) == kind \in LeaveExtra /\ Deletes(r, d)
delete_service_draft(r, d)     == kind \in {"Travel", "Grievance"} /\ Deletes(r, d)

(* Decisions. *)

\* The approval of one that is submitted saves it again.
Approved(x) ==
  [x EXCEPT !.status = IF kind \in DocStatusOnly THEN @ ELSE "Approved", !.ds = 1, !.effect = TRUE]
Approves(r, d) == Reads(r, d) /\ MayApprove(req[r].row) /\ Save(r, d, Approved(req[r].row))
\* What was written before an exception stays, where the exception is caught.
Caught(r, d) ==
  LET x == req[r].row IN
  faulty /\ Reads(r, d) /\ MayApprove(x) /\ x.ds = 0 /\ Save(r, d, [Approved(x) EXCEPT !.effect = FALSE])

\* It catches the exception of the submit; a validation that fails leaves the row approved and not
\* submitted.
approve_expense_claim(r, d) ==
  /\ kind = "Expense"
  /\ \/ Approves(r, d) \/ Caught(r, d)
     \/ faulty /\ Reads(r, d) /\ MayApprove(req[r].row) /\ Save(r, d, [req[r].row EXCEPT !.status = "Approved"])
approve_leave_encashment(r, d) == kind = "Encashment" /\ Approves(r, d)
approve_comp_off(r, d)         == kind = "CompOff" /\ Approves(r, d)
approve_travel_request(r, d)   == kind = "Travel" /\ Approves(r, d)

RejectsDraft(r, d) ==
  Reads(r, d) /\ MayReject(req[r].row) /\ req[r].row.ds = 0 /\ Save(r, d, [req[r].row EXCEPT !.status = "Rejected"])
\* One that was submitted is cancelled, with the Additional Salary or the allocation it brought about.
RejectsSubmitted(r, d) ==
  /\ Reads(r, d) /\ MayReject(req[r].row) /\ req[r].row.ds # 0 /\ doc[d] # NoDoc
  /\ req[r].row.ds = 1 => Saves(r, d)
  /\ Writes(r, d, [doc[d] EXCEPT !.status = "Rejected", !.ds = 2, !.effect = FALSE])
reject_expense_claim(r, d)    == kind = "Expense" /\ RejectsDraft(r, d)
reject_travel_request(r, d)   == kind = "Travel" /\ RejectsDraft(r, d)
reject_leave_encashment(r, d) == kind = "Encashment" /\ (RejectsDraft(r, d) \/ RejectsSubmitted(r, d))
reject_comp_off(r, d)         == kind = "CompOff" /\ (RejectsDraft(r, d) \/ RejectsSubmitted(r, d))

\* Every exception is caught: a row can be submitted without its effect, or cancelled with it.
bulk_leave_extra_action(r, d) ==
  /\ kind \in LeaveExtra
  /\ \/ Caught(r, d)
     \/ faulty /\ Reads(r, d) /\ req[r].row.ds = 1 /\ Save(r, d, [req[r].row EXCEPT !.ds = 2])
bulk_travel_action(r, d) == approve_travel_request(r, d) \/ reject_travel_request(r, d)

resolve_grievance(r, d) ==
  kind = "Grievance" /\ Reads(r, d) /\ MayApprove(req[r].row) /\ Save(r, d, [req[r].row EXCEPT !.status = "Resolved"])
invalidate_grievance(r, d) ==
  kind = "Grievance" /\ Reads(r, d) /\ MayReject(req[r].row) /\ Save(r, d, [req[r].row EXCEPT !.status = "Invalid"])
investigate_grievance(r, d) ==
  Reads(r, d) /\ MayInvestigate(req[r].row) /\ Save(r, d, [req[r].row EXCEPT !.status = "Investigated"])
reopen_grievance(r, d) ==
  Reads(r, d) /\ MayReopen(req[r].row) /\ Save(r, d, [req[r].row EXCEPT !.status = "Open"])

\* The inbox decides by the same handlers, unless the row shows the decision already.
_delegate_expense(r, d) ==
  \/ Reads(r, d) /\ req[r].row.status # "Approved" /\ approve_expense_claim(r, d)
  \/ Reads(r, d) /\ req[r].row.status # "Rejected" /\ reject_expense_claim(r, d)
_delegate_leave_extra(r, d) ==
  \/ Reads(r, d) /\ req[r].row.status # "Approved" /\ (approve_leave_encashment(r, d) \/ approve_comp_off(r, d))
  \/ Reads(r, d) /\ req[r].row.status # "Rejected" /\ (reject_leave_encashment(r, d) \/ reject_comp_off(r, d))
_delegate_services(r, d) ==
  \/ Reads(r, d) /\ req[r].row.status \notin {"Approved", "Resolved"} /\ (approve_travel_request(r, d) \/ resolve_grievance(r, d))
  \/ Reads(r, d) /\ req[r].row.status \notin {"Rejected", "Invalid"} /\ (reject_travel_request(r, d) \/ invalidate_grievance(r, d))

(* After the decision. *)

Cancels(r, d, status) ==
  Reads(r, d) /\ MayCancel(req[r].row) /\ Save(r, d, [req[r].row EXCEPT !.ds = 2, !.effect = FALSE, !.status = status])
cancel_expense_claim(r, d)  == kind = "Expense" /\ (Deletes(r, d) \/ Cancels(r, d, req[r].row.status))
cancel_travel_request(r, d) == kind = "Travel" /\ Cancels(r, d, "Rejected")

Amends(r, d, new) ==
  LET x == req[r].row IN
  /\ Reads(r, d) /\ MayAmend(x) /\ doc[new] = NoDoc
  /\ Writes(r, new, [NoDoc EXCEPT !.status = "Draft", !.amount = x.amount, !.of = d])
amend_expense_claim(r, d, new) == kind = "Expense" /\ Amends(r, d, new)

mark_expense_paid(r, d) ==
  /\ Reads(r, d) /\ MayPay(req[r].row) /\ ~req[r].row.paid /\ doc[d] # NoDoc
  /\ Writes(r, d, [doc[d] EXCEPT !.paid = TRUE])

\* Submit, cancel or amend.
_doc_action(r, d) ==
  /\ kind \in DocStatusOnly
  /\ Approves(r, d) \/ Cancels(r, d, "Draft") \/ \E new \in Docs : Amends(r, d, new)

-----------------------------------------------------------------------------
Init ==
  /\ kind \in Kinds /\ doc = [d \in Docs |-> NoDoc]
  /\ req = [r \in Requests |-> Idle] /\ faulty \in Faults
Next ==
  \/ \E d \in Docs, a \in Amounts :
       \/ submit_expense_claim(d, a) \/ submit_leave_encashment(d, a) \/ submit_comp_off(d, a)
       \/ submit_travel_request(d, a) \/ submit_grievance(d, a) \/ create_gratuity(d, a)
       \/ save_benefit_claim(d, a) \/ save_promotion(d, a)
  \/ \E r \in Requests :
       \/ Abort(r)
       \/ \E d \in Docs :
            \/ Begin(r, d)
            \/ \E a \in Amounts :
                 \/ update_expense_claim(r, d, a) \/ update_leave_encashment(r, d, a) \/ update_comp_off(r, d, a)
                 \/ update_travel_request(r, d, a) \/ update_grievance(r, d, a) \/ save_benefit_application(r, d, a)
            \/ _withdraw(r, d) \/ withdraw_travel_request(r, d) \/ withdraw_grievance(r, d)
            \/ delete_leave_extra_draft(r, d) \/ delete_service_draft(r, d)
            \/ approve_expense_claim(r, d) \/ approve_leave_encashment(r, d) \/ approve_comp_off(r, d)
            \/ approve_travel_request(r, d)
            \/ reject_expense_claim(r, d) \/ reject_leave_encashment(r, d) \/ reject_comp_off(r, d)
            \/ reject_travel_request(r, d) \/ bulk_leave_extra_action(r, d) \/ bulk_travel_action(r, d)
            \/ resolve_grievance(r, d) \/ invalidate_grievance(r, d) \/ investigate_grievance(r, d)
            \/ reopen_grievance(r, d)
            \/ _delegate_expense(r, d) \/ _delegate_leave_extra(r, d) \/ _delegate_services(r, d)
            \/ cancel_expense_claim(r, d) \/ cancel_travel_request(r, d) \/ mark_expense_paid(r, d)
            \/ \E new \in Docs : amend_expense_claim(r, d, new)
            \/ _doc_action(r, d)
Spec == Init /\ [][Next]_vars

-----------------------------------------------------------------------------
TypeOK ==
  \A d \in Docs : doc[d] = NoDoc \/ doc[d] \in
    [ds : 0..2, status : {"Draft", "Open", "Approved", "Rejected", "Investigated", "Resolved", "Invalid"},
     amount : Amounts, paid : BOOLEAN, effect : BOOLEAN, of : Docs \cup {"None"}]

\* What is approved is the row as it stands, with the last edit and no decision of another in it.
AsItStands ==
  \A d \in Docs : doc[d].ds = 0 /\ doc'[d].ds = 1 =>
    /\ doc[d] # NoDoc /\ doc'[d].amount = doc[d].amount
    /\ kind = "Expense" => doc[d].status = "Draft"
ApprovedAsItStands == [][AsItStands]_vars

\* What the screen offers of a row the server takes, in every state a row gets to.
OfferedIsAccepted ==
  \A d \in Docs : doc[d] # NoDoc /\ kind \notin {"BenefitClaim", "Promotion"} => Offered(doc[d]) \subseteq Accepted(doc[d])

\* Refuted.  "Action matrix for the drawer (the BE is the single source of truth) ... approve/reject are
\* HR-only and only where a decision is still meaningful": the server takes more than it offers, the
\* approval of what the employee withdrew among it.
AcceptedIsOffered == \A d \in Docs : doc[d] # NoDoc => Accepted(doc[d]) \subseteq Offered(doc[d])
WithdrawnStaysOut == [][\A d \in Docs : doc[d].status = "Rejected" => doc'[d].status # "Approved"]_vars
\* Refuted with caught exceptions: "running the submit mints the Additional Salary".
EffectFollowsBook == \A d \in Docs : doc[d].effect <=> doc[d].ds = 1
\* Refuted: a paid claim can be cancelled, amended (twice) and paid again.
PaidOnce == \A d \in Docs : doc[d].paid => doc[d].ds = 1 /\ \A e \in Docs : doc[e].of = d => ~doc[e].paid
=============================================================================
