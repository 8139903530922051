-------------------------------- MODULE Leave --------------------------------
(***************************************************************************)
(* The leave applications of one employee and one leave type, the requests  *)
(* to cancel them and the handover tasks that go with them.                 *)
(*                                                                          *)
(* A request reads in a snapshot and writes later, in one transaction.  A   *)
(* save of a row that got a new stamp since is refused and the request       *)
(* rolled back; what it reads of other rows stays what the snapshot shows,   *)
(* and so does the balance: the lock on the allocation, taken after the      *)
(* first read, makes the second of two approvals wait for the first and then *)
(* look at the old ledger.  `overlap' says whether requests overlap at all.   *)
(***************************************************************************)
EXTENDS Integers, FiniteSets

CONSTANTS
  Leaves, Cancels, Tasks,  \* names of rows
  Requests,
  Days,                    \* working days
  Allocated,               \* days of the Leave Allocation
  Overlaps                 \* the values of `overlap' to look at

VARIABLES
  leave,   \* Leave Application rows
  ledger,  \* days of the Leave Ledger Entry of a leave
  cr,      \* VN Leave Cancellation Request rows
  task,    \* VN Leave Handover Task rows
  req,     \* requests in flight: the snapshot, and the rows of it that are still current
  overlap
vars == <<leave, ledger, cr, task, req, overlap>>

NoLeave  == [status |-> "None", ds |-> 0, days |-> {}]
NoCancel == [state |-> "None", of |-> "None", recalculated |-> FALSE]
NoTask   == [status |-> "None", ds |-> 0, of |-> "None"]
Idle     == [fresh |-> {}]
Names    == Leaves \cup Cancels \cup Tasks

LeaveStates       == {"Open", "Approved", "Rejected", "Cancelled"}
OpenCancellation  == {"Draft", "Pending Manager", "Pending HR"}
HANDOVER_STATUSES == {"Pending", "In Progress", "Completed", "Cancelled"}

-----------------------------------------------------------------------------
(* What a save of HRMS checks, in the snapshot s. *)

\* The days the ledger l takes, each with the leave it is taken for.
Used(l) == Cardinality({e \in Leaves \X Days : e[2] \in l[e[1]]})
Live(s, k) == s.leave[k].status \in {"Open", "Approved"}
NoSharedDay(s, k, days) == \A j \in Leaves \ {k} : Live(s, j) => s.leave[j].days \cap days = {}
\* Mutant: the status is written past the validation.
Unvalidated(s, k, days) == NoSharedDay(s, k, days)
Validate(s, k, days) == NoSharedDay(s, k, days) /\ Cardinality(days) <= Allocated - Used(s.ledger)

\* Mutant: a save does not look at the stamp.
SavesAnyway(s, names) == TRUE
Saves(s, names) == names \subseteq s.fresh
\* A row that links k can be saved: it is there, and not cancelled.
Linkable(s, k) == s.leave[k].status \notin {"None", "Cancelled"}
\* A draft can be deleted: no row links it.
Unlinked(s, k) == (\A c \in Cancels : s.cr[c].of # k) /\ (\A t \in Tasks : s.task[t].of # k)

-----------------------------------------------------------------------------
Begin(r) ==
  /\ req[r] = Idle /\ (overlap \/ \A q \in Requests : req[q] = Idle)
  /\ req' = [req EXCEPT ![r] = [leave |-> leave, ledger |-> ledger, cr |-> cr, task |-> task,
                                fresh |-> Names]]
  /\ UNCHANGED <<leave, ledger, cr, task, overlap>>

Runs(r) == req[r] # Idle
\* r commits, and gives the rows named a new stamp.
Commits(r, names) ==
  /\ req' = [q \in Requests |-> IF q = r \/ req[q] = Idle THEN Idle
                                ELSE [req[q] EXCEPT !.fresh = @ \ names]]
  /\ UNCHANGED overlap

\* The request fails: a check, a stamp, or the worker dies.
Abort(r) == Runs(r) /\ Commits(r, {}) /\ UNCHANGED <<leave, ledger, cr, task>>

(* The employee. *)

apply(r, k, days) ==
  /\ Runs(r) /\ leave[k] = NoLeave /\ ledger[k] = {} /\ Validate(req[r], k, days)
  /\ leave' = [leave EXCEPT ![k] = [status |-> "Open", ds |-> 0, days |-> days]]
  /\ Commits(r, {k}) /\ UNCHANGED <<ledger, cr, task>>

update_draft(r, k, days) ==
  LET was == req[r].leave[k] IN
  /\ Runs(r) /\ was.ds = 0 /\ was.status \in {"Open", "Rejected"}
  /\ Saves(req[r], {k}) /\ Validate(req[r], k, days)
  /\ leave' = [leave EXCEPT ![k] = [status |-> "Open", ds |-> 0, days |-> days]]
  /\ Commits(r, {k}) /\ UNCHANGED <<ledger, cr, task>>

\* A delete reads the row again, in the same snapshot, and does not compare stamps.
Deletes(r, k) ==
  /\ req[r].leave[k].ds = 0 /\ Unlinked(req[r], k) /\ leave[k] # NoLeave
  /\ leave' = [leave EXCEPT ![k] = NoLeave]
  /\ Commits(r, {k}) /\ UNCHANGED <<ledger, cr, task>>
cancel_draft_or_pending(r, k) == Runs(r) /\ req[r].leave[k].status = "Open" /\ Deletes(r, k)
delete_draft(r, k) == Runs(r) /\ req[r].leave[k].status \in {"Open", "Rejected"} /\ Deletes(r, k)

\* Mutant: one that was sent back does not count.
PendingRequest(s, k) == {c \in Cancels : s.cr[c].of = k /\ s.cr[c].state = "Pending Manager"}
_open_cancellation_request(s, k) ==
  {c \in Cancels : s.cr[c].of = k /\ s.cr[c].state \in OpenCancellation}
\* Also stamps the leave.
request_cancellation(r, k, c) ==
  LET s == req[r] IN
  /\ Runs(r) /\ s.leave[k].status \in {"Approved", "Open"}
  /\ _open_cancellation_request(s, k) = {} /\ cr[c] = NoCancel /\ leave[k] # NoLeave
  /\ cr' = [cr EXCEPT ![c] = [state |-> "Pending Manager", of |-> k, recalculated |-> FALSE]]
  /\ Commits(r, {k, c}) /\ UNCHANGED <<leave, ledger, task>>

(* HR decides a leave: a rejection submits it as well. *)

\* A policy that wants a handover and a leave that names the receiver: best-effort.
_maybe_mint_handover(r, k) ==
  \/ UNCHANGED task
  \/ /\ \A t \in Tasks : req[r].task[t].of = k => req[r].task[t].status \in {"Completed", "Cancelled"}
     /\ \E t \in Tasks : task[t] = NoTask
          /\ task' = [task EXCEPT ![t] = [status |-> "Pending", ds |-> 0, of |-> k]]

_approve_one(r, k) ==
  LET was == req[r].leave[k] IN
  /\ Runs(r) /\ was.status = "Open" /\ Saves(req[r], {k}) /\ Validate(req[r], k, was.days)
  /\ leave' = [leave EXCEPT ![k] = [was EXCEPT !.status = "Approved", !.ds = 1]]
  /\ ledger' = [ledger EXCEPT ![k] = was.days]
  /\ _maybe_mint_handover(r, k)
  /\ Commits(r, {k}) /\ UNCHANGED cr

\* In bulk an exception of on_submit is caught, and what came before it stays: the row is
\* submitted, without its entry in the ledger.
bulk_approve_leave_applications(r, k) ==
  LET was == req[r].leave[k] IN
  /\ Runs(r) /\ was.status = "Open" /\ Saves(req[r], {k}) /\ Validate(req[r], k, was.days)
  /\ leave' = [leave EXCEPT ![k] = [was EXCEPT !.status = "Approved", !.ds = 1]]
  /\ Commits(r, {k}) /\ UNCHANGED <<ledger, cr, task>>

_reject_one(r, k) ==
  LET was == req[r].leave[k] IN
  /\ Runs(r) /\ was.status = "Open" /\ Saves(req[r], {k}) /\ NoSharedDay(req[r], k, was.days)
  /\ leave' = [leave EXCEPT ![k] = [was EXCEPT !.status = "Rejected", !.ds = 1]]
  /\ Commits(r, {k}) /\ UNCHANGED <<ledger, cr, task>>

(* HR decides a cancellation. *)

\* The request is saved first.  The cancel of a leave that changed meanwhile fails before it
\* writes; one that a completed handover links fails after, and what it wrote stays.
_cancel_linked_leave(r, k) ==
  IF req[r].leave[k].ds = 1 /\ Saves(req[r], {k})
  THEN /\ leave' = [leave EXCEPT ![k].status = "Cancelled", ![k].ds = 2]
       /\ ledger' = [ledger EXCEPT ![k] = {}]
  ELSE UNCHANGED <<leave, ledger>>
Recalculated(r, k) ==
  /\ req[r].leave[k].ds = 1 /\ Saves(req[r], {k})
  /\ \A t \in Tasks : req[r].task[t].of = k => req[r].task[t].ds # 1
_approve_cancellation_one(r, c) ==
  LET s == req[r]  k == s.cr[c].of IN
  /\ Runs(r) /\ s.cr[c].state \in OpenCancellation /\ Saves(s, {c}) /\ Linkable(s, k)
  /\ cr' = [cr EXCEPT ![c].state = "Approved", ![c].recalculated = Recalculated(r, k)]
  /\ _cancel_linked_leave(r, k)
  /\ Commits(r, {c, k}) /\ UNCHANGED task

SaveCancellation(r, c, state) ==
  LET s == req[r] IN
  /\ Saves(s, {c}) /\ Linkable(s, s.cr[c].of)
  /\ cr' = [cr EXCEPT ![c].state = state]
  /\ Commits(r, {c}) /\ UNCHANGED <<leave, ledger, task>>
_reject_cancellation_one(r, c) ==
  Runs(r) /\ req[r].cr[c].state \in OpenCancellation /\ SaveCancellation(r, c, "Rejected")
return_request(r, c) ==
  Runs(r) /\ req[r].cr[c].state \in OpenCancellation \ {"Draft"} /\ SaveCancellation(r, c, "Draft")

(* Handover tasks. *)

create_handover(r, t, k, status) ==
  /\ Runs(r) /\ task[t] = NoTask /\ req[r].leave[k].ds = 1
  /\ task' = [task EXCEPT ![t] = [status |-> status, ds |-> 0, of |-> k]]
  /\ Commits(r, {t}) /\ UNCHANGED <<leave, ledger, cr>>

\* HR may point it at another leave.
update_handover(r, t, k) ==
  LET was == req[r].task[t] IN
  /\ Runs(r) /\ was.ds = 0 /\ was.status \in {"Pending", "In Progress"}
  /\ (k = was.of \/ req[r].leave[k].ds = 1) /\ Saves(req[r], {t}) /\ Linkable(req[r], k)
  /\ task' = [task EXCEPT ![t].of = k]
  /\ Commits(r, {t}) /\ UNCHANGED <<leave, ledger, cr>>

ALLOWED_TRANSITIONS(old) ==
  CASE old = "Pending"     -> {"Pending", "In Progress", "Completed", "Cancelled"}
    [] old = "In Progress" -> {"In Progress", "Completed", "Cancelled", "Pending"}
    [] old = "Completed"   -> {"Completed", "Pending", "Cancelled"}
    [] old = "Cancelled"   -> {"Cancelled", "Pending"}
can_transition(was, new) ==
  IF was.ds = 1 THEN new = "Cancelled" ELSE was.ds = 0 /\ new \in ALLOWED_TRANSITIONS(was.status)
\* Completed submits, and the cancel of a submitted one does not look at its link.
update_handover_status(r, t, new) ==
  LET was == req[r].task[t] IN
  /\ Runs(r) /\ was # NoTask /\ can_transition(was, new)
  /\ Saves(req[r], {t}) /\ (was.ds = 1 \/ Linkable(req[r], was.of))
  /\ task' = [task EXCEPT ![t].status = new,
                          ![t].ds = IF was.ds = 1 THEN 2 ELSE IF new = "Completed" THEN 1 ELSE 0]
  /\ Commits(r, {t}) /\ UNCHANGED <<leave, ledger, cr>>

delete_handover(r, t) ==
  /\ Runs(r) /\ req[r].task[t] # NoTask /\ req[r].task[t].ds = 0 /\ task[t] # NoTask
  /\ task' = [task EXCEPT ![t] = NoTask]
  /\ Commits(r, {t}) /\ UNCHANGED <<leave, ledger, cr>>

-----------------------------------------------------------------------------
Init ==
  /\ leave = [k \in Leaves |-> NoLeave] /\ ledger = [k \in Leaves |-> {}]
  /\ cr = [c \in Cancels |-> NoCancel] /\ task = [t \in Tasks |-> NoTask]
  /\ req = [r \in Requests |-> Idle] /\ overlap \in Overlaps

Next ==
  \E r \in Requests :
    \/ Begin(r) \/ Abort(r)
    \/ \E k \in Leaves :
         \/ \E days \in SUBSET Days \ {{}} : apply(r, k, days) \/ update_draft(r, k, days)
         \/ cancel_draft_or_pending(r, k) \/ delete_draft(r, k)
         \/ _approve_one(r, k) \/ _reject_one(r, k) \/ bulk_approve_leave_applications(r, k)
         \/ \E c \in Cancels : request_cancellation(r, k, c)
         \/ \E t \in Tasks : \/ \E status \in HANDOVER_STATUSES : create_handover(r, t, k, status)
                             \/ update_handover(r, t, k)
    \/ \E c \in Cancels :
         _approve_cancellation_one(r, c) \/ _reject_cancellation_one(r, c) \/ return_request(r, c)
    \/ \E t \in Tasks :
         \/ \E new \in HANDOVER_STATUSES : update_handover_status(r, t, new)
         \/ delete_handover(r, t)
Spec == Init /\ [][Next]_vars

-----------------------------------------------------------------------------
(* Properties. *)

TypeOK ==
  /\ \A k \in Leaves : leave[k] = NoLeave \/ leave[k] \in [status : LeaveStates, ds : 0..2, days : SUBSET Days]
  /\ ledger \in [Leaves -> SUBSET Days] /\ overlap \in BOOLEAN
  /\ \A c \in Cancels : cr[c] = NoCancel
       \/ cr[c] \in [state : OpenCancellation \cup {"Approved", "Rejected"}, of : Leaves, recalculated : BOOLEAN]
  /\ \A t \in Tasks : task[t] = NoTask \/ task[t] \in [status : HANDOVER_STATUSES, ds : 0..2, of : Leaves]

\* The ledger never takes more days than are allocated, whatever is applied for, approved,
\* cancelled and approved instead, if no two requests overlap.  (With overlapping ones it does,
\* although "the second request blocks until the first commits, then HRMS validate() sees the
\* fresh balance".)
BalanceKept == ~overlap => Used(ledger) <= Allocated
AllocationKept == Used(ledger) <= Allocated

\* A leave has one open cancellation request, those that were sent back included.
OneOpenCancellation ==
  ~overlap => \A k \in Leaves :
    Cardinality({c \in Cancels : cr[c].of = k /\ cr[c].state \in OpenCancellation}) <= 1

\* A decision stands, whoever decided at the same time: approved and rejected leaves change only
\* by the approval of a cancellation, and keep their days.  (A delete, which compares no stamp,
\* takes them away when requests overlap, see LedgerHasLeave.)
Stands ==
  \A k \in Leaves : leave[k].ds = 1 /\ leave'[k] # leave[k] /\ (overlap => leave'[k] # NoLeave) =>
    /\ leave'[k].status = "Cancelled" /\ leave'[k].days = leave[k].days
    /\ \E c \in Cancels : cr[c].of = k /\ cr[c].state # "Approved" /\ cr'[c].state = "Approved"
DecisionStands == [][Stands]_vars

\* Refuted: "Approve a cancellation request and cancel the linked Leave Application".
ApprovedCancellationHolds ==
  \A c \in Cancels : cr[c].state = "Approved" => leave[cr[c].of].status # "Approved"

\* Refuted when requests overlap: "the draft has no Leave Ledger Entry, so deleting it is safe".
LedgerHasLeave == \A k \in Leaves : ledger[k] # {} => leave[k] # NoLeave
=============================================================================
