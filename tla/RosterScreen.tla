------------------------------ MODULE RosterScreen ------------------------------
(***************************************************************************)
(* What the schedule screens make of the rows of Schedule: the employee's    *)
(* calendar and its feed, the grid of a team with the actions each cell      *)
(* offers, the administration's lists, and the gates of the endpoints the    *)
(* actions call.  Which of several rows a screen takes is the database's     *)
(* choice of their order; a page is the whole list.                          *)
(***************************************************************************)
EXTENDS Schedule

CONSTANTS
  Viewers,     \* [user, emp, roles]; emp is Nobody without an Employee
  Active,      \* employees that have not left
  ReportsTo,   \* of an employee
  OwnApprover, DeptApprover,  \* users, or Nobody
  Nobody,
  LockedDays,  \* of a locked month
  OnLeave      \* <<employee, day>> of an approved leave

-----------------------------------------------------------------------------
(* Who sees and who may do. *)

HR_ADMIN_ROLES == {"HR Manager", "System Manager"}
SCHEDULE_EDITOR_ROLES == HR_ADMIN_ROLES \cup {"HR User"}
SCHEDULE_MANAGER_ROLES == SCHEDULE_EDITOR_ROLES \cup {"Line Manager"}
Holds(v, roles) == v.roles \cap roles # {}

_is_schedule_manager(v) == Holds(v, SCHEDULE_MANAGER_ROLES)
_assert_can_view_employee(v, e) == v.emp \notin {Nobody, e} => _is_schedule_manager(v)
is_hr(v) == Holds(v, SCHEDULE_EDITOR_ROLES)
_team_scope_members(v) ==
  {e \in Active : is_hr(v) \/ (v.emp # Nobody /\ ReportsTo[e] = v.emp)}

LineManagerOf(v, e) == "Line Manager" \in v.roles /\ v.emp # Nobody /\ ReportsTo[e] = v.emp
_require_schedule_editor_for(v, e) == Holds(v, SCHEDULE_EDITOR_ROLES) \/ LineManagerOf(v, e)
_require_schedule_approver_for(v, e, approver) ==
  Holds(v, SCHEDULE_EDITOR_ROLES) \/ v.user = approver \/ LineManagerOf(v, e)
_resolve_shift_approver(e) == IF OwnApprover[e] # Nobody THEN OwnApprover[e] ELSE DeptApprover[e]

-----------------------------------------------------------------------------
(* Calendars. *)

my_schedule(e, D) ==
  {<<b[1], sa[b[2]].shift, b[2]>> : b \in
     {c \in D \X Assignments : /\ Applies(sa[c[2]]) /\ sa[c[2]].emp = e
                               /\ c[1] \in Span(sa[c[2]])}}
team_schedule(v, D) == [e \in _team_scope_members(v) |-> my_schedule(e, D)]
\* The feed goes on for sixty days from today.
team_schedule_ics(e) == my_schedule(e, today..LastDay)

Drafts(E, D) == {q \in ShiftRequests : /\ sr[q].state = "Draft" /\ sr[q].emp \in E
                                       /\ Span(sr[q]) \cap D # {}}
NoDay == <<>>
\* The actions offered for a day with the assignment a and the instance i; nothing makes an
\* instance Active or Completed.
_grid_cell_can(manager, locked, d, a, i, pending) ==
  LET manage == /\ manager /\ ~locked /\ d >= today
      has_assignment == a # 0 \/ i # NoDay IN
  (IF manage /\ ~has_assignment THEN {"assign"} ELSE {})
  \cup (IF manage /\ has_assignment THEN {"override", "amend", "end"} ELSE {})
  \cup (IF manage /\ i # NoDay THEN {"skip"} ELSE {})
  \cup (IF manage /\ pending THEN {"approve"} ELSE {})
\* The cells an employee's day may get: a day shows one instance and one assignment.
Cells(v, e, d) ==
  LET instances == {i \in {e} \X Shifts \X {d} : Exists(i)}
      covering == {a \in Assignments : Applies(sa[a]) /\ sa[a].emp = e /\ d \in Span(sa[a])}
      manager == is_hr(v) \/ v.emp # Nobody
      pending == Drafts({e}, {d}) # {}
      Or(S, none) == IF S = {} THEN {none} ELSE S
  IN {[shift |-> IF i # NoDay THEN i[2] ELSE IF a # 0 THEN sa[a].shift ELSE Nobody,
       assignment |-> a, instance |-> i, leave |-> <<e, d>> \in OnLeave,
       can |-> _grid_cell_can(manager, d \in LockedDays, d, a, i, pending),
       unassigned |-> a = 0 /\ i = NoDay /\ <<e, d>> \notin OnLeave /\ d >= today] :
        i \in Or(instances, NoDay), a \in Or(covering, 0)}
\* The members shown, all or those with a gap, and the sums above them.
Gaps(v, e, D) == {d \in D : \E c \in Cells(v, e, d) : c.unassigned}
Rows(v, D, coverage) ==
  {e \in _team_scope_members(v) : coverage = "unassigned" => Gaps(v, e, D) # {}}
team_schedule_grid(v, D, coverage) ==
  [members |-> Rows(v, D, coverage),
   unassigned_days |-> UNION {{e} \X Gaps(v, e, D) : e \in _team_scope_members(v)},
   pending_requests |-> Drafts(Rows(v, D, coverage), D)]
\* A line of the sheet for every cell of the grid.
team_schedule_export(v, D) ==
  UNION {{<<m[1], m[2], c.shift>> : c \in Cells(v, m[1], m[2])} : m \in Rows(v, D, "all") \X D}

team_schedule_context(v, D) ==
  LET manages == is_hr(v) \/ v.emp # Nobody IN
  [can |-> (IF manages THEN {"assign", "override", "end", "amend", "approve"} ELSE {})
           \cup (IF Holds(v, HR_ADMIN_ROLES) THEN {"bulk"} ELSE {}),
   pending |-> Drafts(_team_scope_members(v), D)]
\* A manager's badge counts the requests of everyone.
schedule_context(v, D) ==
  [create |-> v.emp # Nobody, manage |-> _is_schedule_manager(v),
   approver |-> IF v.emp = Nobody THEN Nobody ELSE _resolve_shift_approver(v.emp),
   mine |-> IF v.emp = Nobody THEN {} ELSE Drafts({v.emp}, D),
   team |-> IF _is_schedule_manager(v) THEN Drafts(Employees, D) ELSE {}]
my_shift_requests(e, D) == {q \in ShiftRequests : sr[q] # NoRow /\ sr[q].emp = e /\ Span(sr[q]) \cap D # {}}
\* A line manager's list is of the own team.
list_shift_requests(v, status) ==
  {q \in ShiftRequests : /\ sr[q].state = status
                         /\ Holds(v, SCHEDULE_EDITOR_ROLES) \/ sr[q].emp \in _team_scope_members(v)}

-----------------------------------------------------------------------------
(* The administration of assignments. *)

_shift_display_status(row) ==
  IF row.state = "Cancelled" THEN "Cancelled" ELSE IF ~row.active THEN "Expired" ELSE "Active"
Listed(display) ==
  {a \in Assignments : /\ sa[a] # NoRow
                       /\ CASE display = "Active"    -> sa[a].state = "Submitted" /\ sa[a].active
                            [] display = "Expired"   -> sa[a].state = "Submitted" /\ ~sa[a].active
                            [] display = "Cancelled" -> sa[a].state = "Cancelled"
                            [] OTHER                 -> TRUE}
Bucket(S, display) == Cardinality({a \in S : _shift_display_status(sa[a]) = display})
_shift_assignment_summary(S) ==
  [total |-> Cardinality(S), active |-> Bucket(S, "Active"), expired |-> Bucket(S, "Expired"),
   cancelled |-> Bucket(S, "Cancelled")]
list_shift_assignments(display) ==
  LET rows == Listed(display) IN
  [rows |-> rows, summary |-> _shift_assignment_summary(rows), can_delete |-> {a \in rows : ~Punched(sa[a])}]
\* Those the screen for a new assignment leaves out.
assigned_employees == {sa[a].emp : a \in {b \in Assignments : Applies(sa[b])}}
get_shift_assignment_can(a) ==
  LET submitted == sa[a].state = "Submitted" IN
  (IF submitted THEN {"edit_end_date"} ELSE {"delete"})
  \cup (IF submitted /\ ~Punched(sa[a]) THEN {"cancel"} ELSE {}) \cup {"amend"}
check_schedule_conflicts(e, s, from, to) ==
  [assignments |-> _shift_conflicts(DB, 0, Row(e, s, from, to)),
   leaves |-> {d \in from..to : <<e, d>> \in OnLeave},
   requests |-> Drafts({e}, from..to)]

-----------------------------------------------------------------------------
(* Properties. *)

Outcomes(e, s, d) == _create_shift_assignment_core(DB, DB, Row(e, s, d, d))
\* An assignment offered for a day of the grid can be made with any shift, and is there
\* afterwards: no leftover of the day takes it back (shift.py, admin.py).
OfferedAssignmentStays ==
  (\E a \in Assignments : sa[a] = NoRow) => \A e \in Active, d \in Days :
    (\E v \in Viewers : /\ e \in _team_scope_members(v)
                        /\ \E c \in Cells(v, e, d) : "assign" \in c.can)
    => \A s \in Shifts : /\ Outcomes(e, s, d) # {}
                         /\ \A x \in Outcomes(e, s, d) : Has(x.sa, e, s, d)

\* The gate of the endpoint behind an action of a cell; that of "skip" knows neither HR Users nor
\* teams.
Passes(v, e, action) ==
  CASE action = "approve" -> \A q \in Drafts({e}, Days) :
                               _require_schedule_approver_for(v, e, _resolve_shift_approver(e))
    [] action = "skip"    -> Holds(v, HR_ADMIN_ROLES \cup {"Line Manager"})
    [] action = "bulk"    -> Holds(v, HR_ADMIN_ROLES)
    [] OTHER              -> _require_schedule_editor_for(v, e)
\* What a viewer of the grid is offered is not refused to him, whoever's row it is and whatever
\* roles he holds; HR Users are offered to skip a day and refused.
OfferedIsAllowed ==
  \A v \in {u \in Viewers : _is_schedule_manager(u)} : \A e \in _team_scope_members(v) :
    /\ _assert_can_view_employee(v, e)
    /\ \A action \in team_schedule_context(v, Days).can : Passes(v, e, action)
    /\ \A d \in Days : \A c \in Cells(v, e, d) :
         \A action \in c.can : Passes(v, e, action) \/ (action = "skip" /\ is_hr(v))

\* Nothing that would be accepted is hidden or warned of: an assignment whose drawer has no
\* "cancel" cannot be ended, one that the list will not delete cannot be deleted, and somebody
\* listed as not assigned can be assigned any shift on any days (admin.py).
NothingHidden ==
  /\ \A a \in {b \in Assignments : sa[b] # NoRow} :
       /\ "cancel" \notin get_shift_assignment_can(a) => Cancel(DB, a) = {} \/ sa[a].state = "Cancelled"
       /\ MayDelete(a) => /\ "delete" \in get_shift_assignment_can(a)
                          /\ a \in list_shift_assignments("All").can_delete
  /\ \A e \in Employees \ assigned_employees, s \in Shifts :
       check_schedule_conflicts(e, s, 1, LastDay).assignments = {}

\* The lists agree: every assignment is in the bucket its row shows, a day of the employee's
\* calendar and of its feed has a shift in the sheet of his team, and the badges count the
\* requests that the lists then have, but for a line manager's own calendar.
ListsAgree ==
  /\ \A display \in {"Active", "Expired", "Cancelled"} :
       list_shift_assignments(display).rows
         = {a \in Listed("All") : _shift_display_status(sa[a]) = display}
  /\ LET n == list_shift_assignments("All").summary IN n.total = n.active + n.expired + n.cancelled
  /\ \A v \in {u \in Viewers : _is_schedule_manager(u)} :
       /\ LET lines == team_schedule_export(v, Days)  team == team_schedule(v, Days) IN
          \A e \in DOMAIN team : \A entry \in team[e] \cup team_schedule_ics(e) :
            \E line \in lines : line[1] = e /\ line[2] = entry[1] /\ line[3] # Nobody
       /\ team_schedule_context(v, Days).pending
            = {q \in list_shift_requests(v, "Draft") : sr[q].emp \in Active}
       /\ is_hr(v) => schedule_context(v, Days).team = list_shift_requests(v, "Draft")
  /\ \A v \in {u \in Viewers : u.emp # Nobody} :
       schedule_context(v, Days).mine = {q \in my_shift_requests(v.emp, Days) : sr[q].state = "Draft"}

ScreenKept == OfferedAssignmentStays /\ OfferedIsAllowed /\ NothingHidden /\ ListsAgree

\* Refuted.  check_schedule_conflicts: "Preview every conflict for a proposed shift span before
\* assigning": without one, the assignment is made.
PreviewIsWhole ==
  \A e \in Employees, s \in Shifts :
    LET n == check_schedule_conflicts(e, s, today, today) IN
    n.assignments = {} /\ n.leaves = {} /\ n.requests = {}
    => \A x \in Outcomes(e, s, today) : Has(x.sa, e, s, today)
\* Refuted.  The grid's calendar is the employee's: a shift of the one is in the other.
GridIsCalendar ==
  \A v \in Viewers : \A e \in _team_scope_members(v), d \in Days : \A c \in Cells(v, e, d) :
    c.shift # Nobody => \E day \in my_schedule(e, {d}) : day[2] = c.shift
\* Refuted.  A cell that offers to end an assignment has one.
EndHasAssignment ==
  \A v \in Viewers : \A e \in _team_scope_members(v), d \in Days : \A c \in Cells(v, e, d) :
    "end" \in c.can => c.assignment # 0
\* Refuted.  What the drawer offers to cancel can be ended: instances do not count for it.
CancelIsPossible ==
  \A a \in Assignments : sa[a] # NoRow /\ "cancel" \in get_shift_assignment_can(a) => Cancel(DB, a) # {}
\* Refuted.  The badge of the calendar counts what the list has, for a line manager too.
BadgeAgrees ==
  \A v \in {u \in Viewers : _is_schedule_manager(u)} :
    schedule_context(v, Days).team = list_shift_requests(v, "Draft")
=============================================================================
