------------------------------- MODULE Requests -------------------------------
(***************************************************************************)
(* Overtime and attendance correction requests of one employee on their way *)
(* through the approval inbox: the matrix and its steps, delegation, the    *)
(* decisions, and what an approval sets off: the recalculation that counts  *)
(* the overtime, the real OUT and the waiver of a missed checkout's ticket.  *)
(*                                                                          *)
(* A decision locks the request's row, so one request has one transaction   *)
(* open at a time: saving[d] is the row it writes when it commits.  What it *)
(* validates against is the committed state of the others.  The job of an   *)
(* approved overtime is queued before the commit.                           *)
(***************************************************************************)
EXTENDS Integers, Sequences, FiniteSets

CONSTANTS
  Docs,          \* names of request rows
  OT,            \* those that are VN Overtime Requests; the others are corrections
  Linked,        \* corrections opened from the explanation of a missed checkout
  Days,
  Boss, Chief,   \* the users of reports_to and of a step's approver_user
  HR,            \* users with a role of HR_MANAGER_ROLES
  Deputies,      \* the users somebody may delegate to
  Matrices,      \* the step lists HR may give the matrix; <<>>: there is no matrix
  Eager,         \* a worker may take a job before the request that queued it commits
  Overlap,       \* a submission may start while another one has not committed
  MaxEdits,      \* bound on what HR changes: matrix, lock, tickets
  MaxDelegations \* bound on the delegations active at a time

Users   == HR \cup {Boss, Chief} \cup Deputies
Pending == {"Pending Manager", "Pending HR"}
States  == Pending \cup {"Draft", "Approved", "Confirmed", "Rejected"}
_OT_ENGINE_STATES == {"Approved", "Confirmed"}
Row     == [state : States, day : Days]
NoRow   == [state |-> "None", day |-> 0]

VARIABLES
  doc,       \* VN Overtime Request and VN Attendance Correction Request rows, committed
  saving,    \* the row an open transaction writes
  matrix,    \* steps of the active VN Approval Matrix
  deleg,     \* active VN Approval Delegation rows: from, to, the request or "All"
  locked,    \* days of a locked attendance period
  counted,   \* per day, the overtime requests in the session's approved_overtime_hours
  queue,     \* days with a recalculation on the short queue
  ticket,    \* the VN Checkout Miss, its OUT rows, and the OUT the session links
  signed,    \* ghost: the steps approved since the request was last sent
  sent,      \* ghost: the matrix since then, "changed" if HR has edited it
  edits      \* bounds HR's changes
vars == <<doc, saving, matrix, deleg, locked, counted, queue, ticket, signed, sent, edits>>
outside == <<matrix, deleg, locked, counted, ticket, edits>>

Idle == \A d \in Docs : saving[d] = NoRow
Exists(d) == doc[d] # NoRow

-----------------------------------------------------------------------------
(* Who may decide. *)

state_step_index(state) == IF state = "Pending HR" THEN 2 ELSE 1
step_pending_state(i) == IF i = 1 THEN "Pending Manager" ELSE "Pending HR"
\* Mutant: any approval is the last one.
ApproveAtOnce(state) == "Approved"
next_state_after(state) ==
  IF state_step_index(state) < Len(matrix) THEN step_pending_state(state_step_index(state) + 1)
  ELSE "Approved"

step_holder_users(type) ==
  CASE type = "Line Manager"  -> {Boss}
    [] type = "Specific User" -> {Chief}
    [] OTHER -> {}
approver_matches(type, u) == IF type = "HR Manager" THEN u \in HR ELSE u \in step_holder_users(type)
_delegated_users(h, d) == {u \in Users : \E scope \in {d, "All"} : <<h, u, scope>> \in deleg}

_user_can_act(d, u) ==
  LET i == state_step_index(doc[d].state) IN
  IF matrix = <<>> THEN u \in HR \cup {Boss}
  ELSE /\ i <= Len(matrix)
       /\ \/ approver_matches(matrix[i], u)
          \/ \E h \in step_holder_users(matrix[i]) : u \in _delegated_users(h, d)

-----------------------------------------------------------------------------
(* What every save of a request validates. *)

SameKind(d) == IF d \in OT THEN OT ELSE Docs \ OT
\* Mutant: a draft does not count.
DuplicateOfPending(d, day) ==
  \E e \in SameKind(d) \ {d} : doc[e].day = day /\ doc[e].state \notin {"Rejected", "Draft"}
_validate_no_duplicate(d, day) ==
  \E e \in SameKind(d) \ {d} : doc[e].day = day /\ doc[e].state # "Rejected"
_validate_lock_period(d, day) == d \notin OT /\ day \in locked
Valid(d, day) == ~_validate_no_duplicate(d, day) /\ ~_validate_lock_period(d, day)

\* A transaction that leaves d in the state to, on the day given.
Save(d, to, day) ==
  /\ Valid(d, day)
  /\ saving' = [saving EXCEPT ![d] = [state |-> to, day |-> day]]
  /\ UNCHANGED doc /\ UNCHANGED outside

-----------------------------------------------------------------------------
(* The employee. *)

CanStart == Overlap \/ Idle
\* send_for_approval is best-effort: without its workflow transition the draft stays.
Sent == {"Draft", "Pending Manager"}

submit_request(d, day) ==
  /\ ~Exists(d) /\ saving[d] = NoRow /\ CanStart
  /\ \E to \in Sent : Save(d, to, day)
  /\ signed' = [signed EXCEPT ![d] = {}] /\ sent' = [sent EXCEPT ![d] = matrix]
  /\ UNCHANGED queue

update_request(d, day) ==
  /\ Exists(d) /\ saving[d] = NoRow /\ CanStart /\ doc[d].state = "Draft"
  /\ \E to \in Sent : Save(d, to, day)
  /\ signed' = [signed EXCEPT ![d] = {}] /\ sent' = [sent EXCEPT ![d] = matrix]
  /\ UNCHANGED queue

\* The workflow has no transition from Rejected, and none for the save of a rejected one.
cancel_request(d) ==
  /\ Exists(d) /\ saving[d] = NoRow /\ CanStart
  /\ doc[d].state \in Pending \cup {"Draft"}
  /\ Save(d, "Rejected", doc[d].day) /\ UNCHANGED <<queue, signed, sent>>

submit_overtime_request(d, day)   == d \in OT /\ submit_request(d, day)
submit_correction_request(d, day) == d \notin OT /\ submit_request(d, day)
update_overtime_request(d, day)   == d \in OT /\ update_request(d, day)
update_correction_request(d, day) == d \notin OT /\ update_request(d, day)
cancel_overtime_request(d)        == d \in OT /\ cancel_request(d)
cancel_correction_request(d)      == d \notin OT /\ cancel_request(d)

-----------------------------------------------------------------------------
(* The approver. *)

MayDecide(d, u) ==
  /\ Exists(d) /\ saving[d] = NoRow /\ CanStart
  /\ doc[d].state \in Pending /\ _user_can_act(d, u)

\* Mutant: the overtime is left to the next punch.
NoJob(d, to) == UNCHANGED queue
_after_ot_state_change(d, to) ==
  IF d \in OT /\ to \in _OT_ENGINE_STATES THEN queue' = queue \cup {doc[d].day}
  ELSE UNCHANGED queue

approve_request(d, u) ==
  LET to == next_state_after(doc[d].state) IN
  /\ MayDecide(d, u) /\ Save(d, to, doc[d].day)
  /\ _after_ot_state_change(d, to)
  /\ signed' = [signed EXCEPT ![d] = @ \cup {state_step_index(doc[d].state)}]
  /\ UNCHANGED sent
reject_request(d, u) ==
  /\ MayDecide(d, u) /\ Save(d, "Rejected", doc[d].day)
  /\ UNCHANGED <<queue, signed, sent>>
return_request(d, u) ==
  /\ MayDecide(d, u) /\ Save(d, "Draft", doc[d].day)
  /\ UNCHANGED <<queue, signed, sent>>

\* The holder hands on this request, or everything for a while.
delegate_request(d, u, to) ==
  /\ MayDecide(d, u) /\ u # to /\ Cardinality(deleg) < MaxDelegations
  /\ deleg' = deleg \cup {<<u, to, d>>}
  /\ UNCHANGED <<doc, saving, matrix, locked, counted, queue, ticket, signed, sent, edits>>

-----------------------------------------------------------------------------
(* Commit and rollback. *)

\* The correction of a missed checkout puts the real OUT in, points the ticket at it, deletes
\* the engine's OUT, points the session at the real one and waives the ticket.  The first step
\* that fails ends it, and nothing is undone: delete_doc refuses a row that the session links.
_after_correction_state_change(d) ==
  LET t == [ticket EXCEPT !.outs = @ \cup {"real"}, !.auto = "real"]
      waived == IF ticket.status \in {"Pending", "Explained", "Penalised"} THEN "Waived"
                ELSE ticket.status
  IN IF ticket.auto = "fake" /\ ticket.link = "fake" THEN t
     ELSE [t EXCEPT !.outs = @ \ {"fake"}, !.link = "real", !.status = waived]

Commit(d) ==
  /\ saving[d] # NoRow
  /\ doc' = [doc EXCEPT ![d] = saving[d]] /\ saving' = [saving EXCEPT ![d] = NoRow]
  /\ ticket' = IF d \in Linked /\ saving[d].state = "Approved" THEN _after_correction_state_change(d)
               ELSE ticket
  /\ UNCHANGED <<matrix, deleg, locked, counted, queue, signed, sent, edits>>

\* The worker dies before the commit; what it queued stays queued.
Abort(d) ==
  /\ saving[d] # NoRow /\ saving' = [saving EXCEPT ![d] = NoRow]
  /\ signed' = [signed EXCEPT ![d] = {}]
  /\ sent' = [sent EXCEPT ![d] = <<"changed">>]
  /\ UNCHANGED <<doc, matrix, deleg, locked, counted, queue, ticket, edits>>

\* get_approved_ot_requests, from what is committed.
get_approved_ot_requests(day) == {d \in OT : doc[d].day = day /\ doc[d].state \in _OT_ENGINE_STATES}
RunJob(day) ==
  /\ day \in queue /\ (Eager \/ Idle)
  /\ queue' = queue \ {day}
  /\ counted' = [counted EXCEPT ![day] = get_approved_ot_requests(day)]
  /\ UNCHANGED <<doc, saving, matrix, deleg, locked, ticket, signed, sent, edits>>

-----------------------------------------------------------------------------
(* HR and the rest of the portal. *)

Edit == edits < MaxEdits /\ edits' = edits + 1

save_approval_matrix(m) ==
  /\ Edit /\ m # matrix /\ matrix' = m
  /\ sent' = [d \in Docs |-> <<"changed">>]
  /\ UNCHANGED <<doc, saving, deleg, locked, counted, queue, ticket, signed>>
save_delegation(u, to) ==
  /\ Edit /\ u # to /\ Cardinality(deleg) < MaxDelegations
  /\ deleg' = deleg \cup {<<u, to, "All">>}
  /\ UNCHANGED <<doc, saving, matrix, locked, counted, queue, ticket, signed, sent>>
\* Deleted, switched off, or past its last day.
delete_delegation ==
  /\ \E row \in deleg : deleg' = deleg \ {row}
  /\ UNCHANGED <<doc, saving, matrix, locked, counted, queue, ticket, signed, sent, edits>>
\* The workflow's Confirm, in Desk.
Confirm(d) ==
  /\ d \in OT /\ doc[d].state = "Approved" /\ saving[d] = NoRow /\ Save(d, "Confirmed", doc[d].day)
  /\ UNCHANGED <<queue, signed, sent>>
\* The month of the day is locked or unlocked: MonthPeriod.
LockDay(day) ==
  /\ Edit /\ locked' = IF day \in locked THEN locked \ {day} ELSE locked \cup {day}
  /\ UNCHANGED <<doc, saving, matrix, deleg, counted, queue, ticket, signed, sent>>
\* HR decides the ticket: CheckoutMiss.
DecideTicket(status) ==
  /\ Edit /\ ticket.status \in {"Pending", "Explained"} /\ ticket' = [ticket EXCEPT !.status = status]
  /\ UNCHANGED <<doc, saving, matrix, deleg, locked, counted, queue, signed, sent>>

-----------------------------------------------------------------------------
Init ==
  /\ doc = [d \in Docs |-> NoRow] /\ saving = [d \in Docs |-> NoRow]
  /\ matrix \in Matrices /\ deleg = {} /\ locked = {}
  /\ counted = [day \in Days |-> {}] /\ queue = {}
  /\ ticket = [status |-> "Pending", auto |-> "fake", outs |-> {"fake"}, link |-> "fake"]
  /\ signed = [d \in Docs |-> {}] /\ sent = [d \in Docs |-> <<"changed">>]
  /\ edits = 0

Next ==
  \/ \E d \in Docs :
       \/ \E day \in Days :
            \/ submit_overtime_request(d, day) \/ submit_correction_request(d, day)
            \/ update_overtime_request(d, day) \/ update_correction_request(d, day)
       \/ cancel_overtime_request(d) \/ cancel_correction_request(d)
       \/ Confirm(d) \/ Commit(d) \/ Abort(d)
       \/ \E u \in Users :
            \/ approve_request(d, u) \/ reject_request(d, u) \/ return_request(d, u)
            \/ \E to \in Deputies : delegate_request(d, u, to)
  \/ \E u \in {Boss, Chief}, to \in Deputies : save_delegation(u, to)
  \/ \E m \in Matrices : save_approval_matrix(m)
  \/ \E day \in Days : RunJob(day) \/ LockDay(day)
  \/ \E status \in {"Waived", "Penalised"} : DecideTicket(status)
  \/ delete_delegation
Spec == Init /\ [][Next]_vars

-----------------------------------------------------------------------------
(* Properties. *)

TypeOK ==
  /\ doc \in [Docs -> Row \cup {NoRow}] /\ saving \in [Docs -> Row \cup {NoRow}]
  /\ matrix \in Matrices /\ locked \subseteq Days /\ queue \subseteq Days
  /\ deleg \subseteq Users \X Users \X (Docs \cup {"All"})
  /\ counted \in [Days -> SUBSET OT]
  /\ ticket.outs \subseteq {"fake", "real"} /\ edits \in 0..MaxEdits

\* An approved request went through every step of the matrix since it was last sent, however
\* often it was returned, unless HR changed the matrix under way.
StepsSigned ==
  \A d \in Docs : doc[d].state = "Approved" /\ sent[d] = matrix => 1..Len(matrix) \subseteq signed[d]

\* With no two submissions overlapping, a day has one open request of a kind, although drafts
\* move to other days and returned ones come back.
OneOpenPerDay ==
  \A d, e \in Docs : /\ d # e /\ e \in SameKind(d) /\ Exists(d) /\ Exists(e)
                     /\ doc[d].state # "Rejected" /\ doc[e].state # "Rejected"
                     => doc[d].day # doc[e].day

\* When nothing is on its way the session counts the approved overtime, all of it.
OvertimeCounted ==
  Idle /\ queue = {} => \A day \in Days : counted[day] = get_approved_ot_requests(day)

\* Refuted with three steps: approving advances the request to its next state.
ApproveAdvances ==
  [][\A d \in Docs : signed'[d] # signed[d] /\ signed'[d] # {} => saving'[d].state # doc[d].state]_vars

\* Refuted: whoever holds the step of a pending request can reject it.
HolderCanReject ==
  \A d \in Docs : doc[d].state \in Pending =>
    /\ \E u \in Users : _user_can_act(d, u)
    /\ Valid(d, doc[d].day)

\* Refuted: the approved correction of a missed checkout leaves the real OUT only, and waives
\* the ticket.
CorrectionReplacesOut ==
  \A d \in Linked : doc[d].state = "Approved" => ticket.outs = {"real"} /\ ticket.status = "Waived"
=============================================================================
