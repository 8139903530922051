------------------------------ MODULE PayBasis ------------------------------
(* What the pay of an employee in a period rests on, and who looks it up how (payroll.py, utils/payroll.py,
payroll_master.py): the salary structure assignments, read for the slip, for the base, for the allowances and for
the screen, each with a date of its own; the hourly rate, read from the employee, from the department of a date or
from the portal.  Everything is looked up on one state of the records. *)
EXTENDS Integers, FiniteSets, FiniteSetsExt
CONSTANTS
  Start, End,  \* the period
  Today,
  DeptRate,    \* the hourly rate of each department, 0 where it has none
  DefaultRate,
  Company

VARIABLE
  person  \* mode, own: the employee's rate; dept: his department at the end of each day (NoDept: of none);
          \* ssas: [from, doc, structure, base, company]; live: the structures submitted and active
NoDept == "none"

-----------------------------------------------------------------------------
(* Salary structure assignments. *)

Submitted(p) == {a \in p.ssas : a.doc = 1}
Newest(S) == CHOOSE a \in S : \A b \in S : b.from <= a.from

\* resolve_base_salary, of the end of the period.
StartedBy(p, d) == {a \in Submitted(p) : a.from <= d}
resolve_base_salary(p, d) == IF StartedBy(p, d) = {} THEN 0 ELSE Newest(StartedBy(p, d)).base
_monthly_missing_base(p) == p.mode = "Monthly" /\ resolve_base_salary(p, End) <= 0

\* _employee_salary_components: the structure whose fixed amounts go into the line, whatever its date and state.
Components(p) == IF Submitted(p) = {} THEN "none" ELSE Newest(Submitted(p)).structure

\* _resolve_ssa: the structure of the slip, or why there will be none.
Effective(p) == StartedBy(p, Start)
_resolve_ssa(p) ==
  LET newest == Newest(Submitted(p))  ssa == Newest(Effective(p)) IN
  CASE Effective(p) # {} /\ ssa.structure \notin p.live -> "SSA_STRUCTURE_INACTIVE"
    [] Effective(p) # {} /\ ssa.structure \in p.live /\ ssa.company # Company -> "SSA_COMPANY_MISMATCH"
    [] Effective(p) # {} /\ ssa.structure \in p.live /\ ssa.company = Company -> ssa.structure
    [] Effective(p) = {} /\ Submitted(p) # {} /\ newest.from > End -> "SSA_FUTURE"
    [] Effective(p) = {} /\ Submitted(p) # {} /\ newest.from <= End -> "SSA_MID_PERIOD"
    [] Effective(p) = {} /\ Submitted(p) = {} /\ p.ssas # {} -> "SSA_DRAFT"
    [] p.ssas = {} -> "SSA_MISSING"
\* ssa_preflight, of a line without a slip.
Issue(p) == _resolve_ssa(p) \notin p.live

\* assign_salary_structure: whatever is in force stands in its way, for the rows have no end.
Assigned(p, s, from, base) ==
  IF Submitted(p) # {} THEN p
  ELSE [p EXCEPT !.ssas = @ \cup {[from |-> from, doc |-> 1, structure |-> s, base |-> base, company |-> Company]}]

-----------------------------------------------------------------------------
(* The hourly rate. *)

\* The Version rows of the employee up to a date that change his department.
Changes(p, d) == {c \in 1..d : p.dept[c] # p.dept[c - 1]}
\* The newest of them decides, with the department it left when there is none it led to; without one, today's.
DeptAsOf(p, d) ==
  IF Changes(p, d) = {} THEN p.dept[Today]
  ELSE LET c == Max(Changes(p, d)) IN IF p.dept[c] # NoDept THEN p.dept[c] ELSE p.dept[c - 1]
resolve_hourly_rate_detail(p, dept) ==
  IF p.own > 0 THEN <<p.own, "employee">>
  ELSE IF dept # NoDept /\ DeptRate[dept] > 0 THEN <<DeptRate[dept], "department">>
  ELSE <<DefaultRate, "default">>
resolve_payroll_setting(p) ==
  [rate |-> resolve_hourly_rate_detail(p, DeptAsOf(p, End)), base |-> resolve_base_salary(p, End)]
\* _setting_for_employee: what the screen of the salaries shows, of today.
_setting_for_employee(p) ==
  [rate |-> resolve_hourly_rate_detail(p, p.dept[Today]),
   base |-> IF Submitted(p) = {} THEN 0 ELSE Newest(Submitted(p)).base, structure |-> Components(p)]

-----------------------------------------------------------------------------
(* Properties. *)

\* When no assignment starts later than the period, the base, the allowances and the slip are of one structure, and
\* the screen shows it (_resolve_ssa, resolve_base_salary, _employee_salary_components, _setting_for_employee).
OneSource ==
  (\A a \in Submitted(person) : a.from <= Start) =>
    /\ resolve_base_salary(person, End) = _setting_for_employee(person).base
    /\ ~Issue(person) => _resolve_ssa(person) = Components(person)
    /\ _monthly_missing_base(person) => _setting_for_employee(person).base <= 0
\* To assign a live structure from a day no later than the start cures an employee without any assignment, and
\* changes nothing for whom has one (assign_salary_structure, _resolve_ssa).
AssignmentCures ==
  \A s \in person.live, from \in 1..Start :
    LET then == Assigned(person, s, from, 1) IN
    IF Submitted(person) = {} THEN _resolve_ssa(then) = s ELSE then = person
\* A department changed in the period is the one that pays it, whatever happens after the period, when a change of
\* it is on record (resolve_hourly_rate_detail).
RecordedMoveHolds ==
  Changes(person, End) # {} /\ person.dept[End] # NoDept =>
    resolve_payroll_setting(person).rate = resolve_hourly_rate_detail(person, person.dept[End])
BasisAgrees == OneSource /\ AssignmentCures /\ RecordedMoveHolds

\* Refuted.  "so a mid-period transfer prices the earlier days at the OLD department's rate": one after the period
\* prices all of it at the new one, when nothing before it is on record.
LaterMoveChangesNothing ==
  person.dept[End] # NoDept =>
    resolve_payroll_setting(person).rate = resolve_hourly_rate_detail(person, person.dept[End])
\* Refuted.  The allowances of a line are those of the structure of its slip.
OneStructure == ~Issue(person) => _resolve_ssa(person) = Components(person)
\* Refuted.  "from_date='' uses date_of_joining - always retro-correct (<= any period start)": who joins within the
\* period has no slip for it.
JoinerIsReady == \A s \in person.live, from \in 1..End : Submitted(person) = {} => _resolve_ssa(Assigned(person, s, from, 1)) = s
=============================================================================
