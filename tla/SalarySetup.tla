---------------------------- MODULE SalarySetup ----------------------------
(***************************************************************************)
(* The pay masters: salary structures and their assignment to employees, the *)
(* mode (by the hour or by the month) an employee is paid in, and the        *)
(* payroll periods of HRMS that benefits are asked for in.                   *)
(*                                                                          *)
(* A request reads its snapshot: the present one, or the one `held' since    *)
(* another request was let through.                                          *)
(***************************************************************************)
EXTENDS Integers, FiniteSets

CONSTANTS
  Employees, Structures, Slots,  \* Slots: the names of assignments
  Periods,
  Days,      \* days, from 1
  Bases,     \* the monthly amounts to look at, 0 with them
  Overlaps,  \* the values of `overlap' to look at
  Faults     \* the values of `faulty' to look at

VARIABLES
  structure, ssa, mode,  \* structures, assignments, and how employees are paid
  period, used,          \* payroll periods, and those a benefit refers to
  report,                \* what the last request about several employees told of each
  held,                  \* the snapshot a request still reads, if any
  overlap,               \* whether requests overlap
  faulty                 \* whether an insert or a cancel may fail half way
masters == <<structure, ssa, mode, period, used>>
vars == <<structure, ssa, mode, period, used, report, held, overlap, faulty>>

NoStructure == [ds |-> -1, active |-> FALSE]
NoRow    == [emp |-> "None", of |-> "None", from |-> 0, open |-> TRUE, base |-> 0, status |-> "None"]
NoPeriod == [from |-> 0, to |-> 0]
NoDay    == 0
Silent   == [e \in Employees |-> "nothing"]
Now == [structure |-> structure, ssa |-> ssa, mode |-> mode, period |-> period, used |-> used]
Views == {Now} \cup held
\* A request begins before another and ends after it.
Hold == overlap /\ held = {} /\ held' = {Now} /\ UNCHANGED <<masters, report, overlap, faulty>>
Ends(v) == held' \in {held \ {v}, held \ ({v} \ {Now})} /\ UNCHANGED <<overlap, faulty>>
Says(r) == report' = r

-----------------------------------------------------------------------------
(* Structures and their assignment. *)

save_salary_structure(v, s, active) ==
  /\ structure' = [structure EXCEPT ![s] = IF v.structure[s] = NoStructure THEN [ds |-> 0, active |-> active]
                                           ELSE [@ EXCEPT !.active = active]]
  /\ v.structure[s] = structure[s] /\ structure[s].ds < 1
  /\ Ends(v) /\ Says(Silent) /\ UNCHANGED <<ssa, mode, period, used>>
\* At the Desk; the app has no such request.
SubmitStructure(s) ==
  /\ structure[s].ds = 0 /\ structure' = [structure EXCEPT ![s].ds = 1]
  /\ UNCHANGED <<ssa, mode, period, used, report, held, overlap, faulty>>

SubmittedOf(v, e) == {a \in Slots : v.ssa[a].emp = e /\ v.ssa[a].status = "Submitted"}
Newest(v, e) == CHOOSE a \in SubmittedOf(v, e) : \A b \in SubmittedOf(v, e) : v.ssa[b].from <= v.ssa[a].from
MonthlyBase(v, e) == IF SubmittedOf(v, e) = {} THEN 0 ELSE v.ssa[Newest(v, e)].base

\* Mutant: an assignment that began before the new one does not count.
OverlapsLater(v, e, start, end) ==
  \E a \in SubmittedOf(v, e) : v.ssa[a].from >= start /\ (end = NoDay \/ v.ssa[a].from <= end)
\* The end of an assignment is not fetched: it never ends.
_ensure_no_overlapping_assignment(v, e, start, end) ==
  \E a \in SubmittedOf(v, e) : end = NoDay \/ v.ssa[a].from <= end
Accepts(v, e, s, start, end) ==
  /\ v.structure[s] # NoStructure
  /\ ~_ensure_no_overlapping_assignment(v, e, start, end)
  /\ \A a \in SubmittedOf(v, e) : v.ssa[a].from # start   \* HRMS
ssa_status(v, e) ==
  IF SubmittedOf(v, e) # {} THEN "HAS_SSA"
  ELSE IF \E a \in Slots : v.ssa[a].emp = e /\ v.ssa[a].status = "Draft" THEN "DRAFT_ONLY" ELSE "OK"

\* `open': no end was given with it.
NewRow(e, s, start, end, base, status) ==
  [emp |-> e, of |-> s, from |-> start, open |-> end = NoDay, base |-> base, status |-> status]
assign_salary_structure(v, a, e, s, start, end, base) ==
  /\ ssa[a] = NoRow /\ Accepts(v, e, s, start, end)
  /\ ssa' = [ssa EXCEPT ![a] = NewRow(e, s, start, end, base, "Submitted")]
  /\ Ends(v) /\ Says(Silent) /\ UNCHANGED <<structure, mode, period, used>>

\* An assignment that is inserted and not submitted stays a draft: nothing is undone.
bulk_assign_salary_structure(v, slot, s, start, base, failing) ==
  /\ v.structure[s] = [ds |-> 1, active |-> TRUE]
  /\ \A e, f \in DOMAIN slot : ssa[slot[e]] = NoRow /\ (slot[e] = slot[f] => e = f)
  /\ failing \subseteq DOMAIN slot /\ (failing # {} => faulty)
  /\ LET ok == {e \in DOMAIN slot : Accepts(v, e, s, start, NoDay)}
     IN /\ ssa' = [a \in Slots |->
                     IF \E e \in ok : slot[e] = a
                     THEN LET e == CHOOSE x \in ok : slot[x] = a
                          IN NewRow(e, s, start, NoDay, base, IF e \in failing THEN "Draft" ELSE "Submitted")
                     ELSE ssa[a]]
        /\ Says([e \in Employees |-> IF e \notin DOMAIN slot THEN "nothing"
                                     ELSE IF e \notin ok THEN "skipped"
                                     ELSE IF e \in failing THEN "failed" ELSE "assigned"])
  /\ Ends(v) /\ UNCHANGED <<structure, mode, period, used>>

\* The amount of an assignment that exists is not changed; one that cannot be submitted stays a
\* draft, and the answer is the same.
complete_payroll_profile(v, a, e, s, start, base, failing) ==
  /\ failing => faulty
  /\ IF SubmittedOf(v, e) # {} THEN UNCHANGED ssa
     ELSE /\ base > 0 /\ ssa[a] = NoRow /\ v.structure[s] # NoStructure
          /\ ssa' = [ssa EXCEPT ![a] = NewRow(e, s, start, NoDay, base, IF failing THEN "Draft" ELSE "Submitted")]
  /\ Ends(v) /\ Says(Silent) /\ UNCHANGED <<structure, mode, period, used>>

Cancelled(names) == [a \in Slots |-> IF a \in names THEN [ssa[a] EXCEPT !.status = "Cancelled"] ELSE ssa[a]]
cancel_salary_structure_assignment(v, e, a) ==
  /\ a \in SubmittedOf(v, e) /\ v.ssa[a] = ssa[a]
  /\ ssa' = Cancelled({a})
  /\ Ends(v) /\ Says(Silent) /\ UNCHANGED <<structure, mode, period, used>>
\* Each cancel commits: when the worker dies, those of the first employees stay cancelled.
bulk_cancel_assignments(v, es, failing, dies) ==
  /\ es # {} /\ failing \subseteq es /\ (failing # {} \/ dies => faulty)
  /\ LET found == {e \in es : SubmittedOf(v, e) # {} /\ v.ssa[Newest(v, e)] = ssa[Newest(v, e)]}
     IN \E done \in SUBSET found :
          /\ ~dies => done = found
          \* A cancel that fails late has written the row.
          /\ \E wrote \in SUBSET (failing \cap done) :
               ssa' = Cancelled({Newest(v, e) : e \in (done \ failing) \cup wrote})
          /\ Says(IF dies THEN Silent
                  ELSE [e \in Employees |-> IF e \notin es THEN "nothing"
                                            ELSE IF SubmittedOf(v, e) = {} THEN "skipped"
                                            ELSE IF e \in failing \/ e \notin done THEN "failed" ELSE "cancelled"])
  /\ Ends(v) /\ UNCHANGED <<structure, mode, period, used>>

-----------------------------------------------------------------------------
(* How an employee is paid. *)

Modes == {"Hourly", "Monthly"}
MonthlyIsBacked(v, e, to, base) == to = "Monthly" => (IF base = NoDay THEN MonthlyBase(v, e) ELSE base) > 0
\* A new amount is a new assignment.
save_employee_salary_setting(v, e, to, base, a, s, start) ==
  /\ MonthlyIsBacked(v, e, to, base)
  /\ IF base = 0 THEN UNCHANGED ssa
     ELSE /\ ssa[a] = NoRow /\ Accepts(v, e, s, start, NoDay)
          /\ ssa' = [ssa EXCEPT ![a] = NewRow(e, s, start, NoDay, base, "Submitted")]
  /\ mode' = [mode EXCEPT ![e] = to]
  /\ Ends(v) /\ Says(Silent) /\ UNCHANGED <<structure, period, used>>
bulk_set_hourly_rates(v, es, to) ==
  /\ es # {} /\ mode' = [e \in Employees |-> IF e \in es THEN to ELSE mode[e]]
  /\ Ends(v) /\ Says(Silent) /\ UNCHANGED <<structure, ssa, period, used>>

-----------------------------------------------------------------------------
(* Payroll periods. *)

\* Mutant: a period that begins before the new one is not seen.
BeginsWithin(v, p, from, to) ==
  {q \in Periods \ {p} : v.period[q] # NoPeriod /\ v.period[q].from <= to /\ v.period[q].from >= from}
_pp_overlapping(v, p, from, to) ==
  {q \in Periods \ {p} : v.period[q] # NoPeriod /\ v.period[q].from <= to /\ v.period[q].to >= from}
\* New dates of a period are not refused when it is in use.
save_payroll_period(v, p, from, to) ==
  /\ from <= to /\ _pp_overlapping(v, p, from, to) = {} /\ v.period[p] = period[p]
  /\ period' = [period EXCEPT ![p] = [from |-> from, to |-> to]]
  /\ Ends(v) /\ Says(Silent) /\ UNCHANGED <<structure, ssa, mode, used>>
_pp_usage(v, p) == p \in v.used
delete_payroll_period(v, p) ==
  /\ v.period[p] # NoPeriod /\ ~_pp_usage(v, p)
  /\ period' = [period EXCEPT ![p] = NoPeriod]
  /\ Ends(v) /\ Says(Silent) /\ UNCHANGED <<structure, ssa, mode, used>>
\* A benefit is asked for in the period.
UsePeriod(v, p) ==
  /\ v.period[p] # NoPeriod /\ used' = used \cup {p}
  /\ Ends(v) /\ Says(Silent) /\ UNCHANGED <<structure, ssa, mode, period>>

-----------------------------------------------------------------------------
Init ==
  /\ structure = [s \in Structures |-> NoStructure] /\ ssa = [a \in Slots |-> NoRow]
  /\ mode = [e \in Employees |-> "Hourly"]
  /\ period = [p \in Periods |-> NoPeriod] /\ used = {}
  /\ report = Silent /\ held = {} /\ overlap \in Overlaps /\ faulty \in Faults

Next ==
  \/ Hold
  \/ \E s \in Structures : SubmitStructure(s)
  \/ \E v \in Views :
       \/ \E s \in Structures, active \in BOOLEAN : save_salary_structure(v, s, active)
       \/ \E a \in Slots, e \in Employees, s \in Structures, start \in Days, end \in Days \cup {NoDay}, base \in Bases :
            assign_salary_structure(v, a, e, s, start, end, base)
       \/ \E a \in Slots, e \in Employees, s \in Structures, start \in Days, base \in Bases, failing \in BOOLEAN :
            complete_payroll_profile(v, a, e, s, start, base, failing)
       \/ \E es \in SUBSET Employees, s \in Structures, start \in Days, base \in Bases :
            \E slot \in [es -> Slots], failing \in SUBSET es :
              es # {} /\ bulk_assign_salary_structure(v, slot, s, start, base, failing)
       \/ \E e \in Employees, a \in Slots : cancel_salary_structure_assignment(v, e, a)
       \/ \E es \in SUBSET Employees, dies \in BOOLEAN :
            \E failing \in SUBSET es : bulk_cancel_assignments(v, es, failing, dies)
       \/ \E e \in Employees, to \in Modes, base \in Bases, a \in Slots, s \in Structures, start \in Days :
            save_employee_salary_setting(v, e, to, base, a, s, start)
       \/ \E es \in SUBSET Employees, to \in Modes : bulk_set_hourly_rates(v, es, to)
       \/ \E p \in Periods, from, to \in Days : save_payroll_period(v, p, from, to)
       \/ \E p \in Periods : delete_payroll_period(v, p) \/ UsePeriod(v, p)

Spec == Init /\ [][Next]_vars

-----------------------------------------------------------------------------
Rows == {NoRow} \cup [emp : Employees, of : Structures, from : Days, open : BOOLEAN, base : Bases,
                      status : {"Draft", "Submitted", "Cancelled"}]
TypeOK ==
  /\ structure \in [Structures -> [ds : {-1, 0, 1}, active : BOOLEAN]]
  /\ ssa \in [Slots -> Rows] /\ mode \in [Employees -> Modes]
  /\ period \in [Periods -> [from : Days \cup {0}, to : Days \cup {0}]] /\ used \subseteq Periods
  /\ report \in [Employees -> {"nothing", "assigned", "skipped", "failed", "cancelled"}]

\* When requests do not overlap, an employee never has two assignments without an end, and one the
\* readiness list calls free is one the assignment accepts (ssa_status, bulk_assign_salary_structure).
OneAssignment ==
  ~overlap => \A e \in Employees :
    /\ Cardinality({a \in SubmittedOf(Now, e) : ssa[a].open}) <= 1
    /\ \A s \in Structures, start \in Days :
         structure[s] # NoStructure => (Accepts(Now, e, s, start, NoDay) <=> ssa_status(Now, e) # "HAS_SSA")
\* When requests do not overlap, payroll periods are apart and a period a benefit refers to exists
\* (save_payroll_period, delete_payroll_period).
PeriodsApart ==
  ~overlap =>
    /\ \A p, q \in Periods : p # q /\ period[p] # NoPeriod /\ period[q] # NoPeriod
         => period[p].to < period[q].from \/ period[q].to < period[p].from
    /\ \A p \in used : period[p] # NoPeriod
\* What the request about several employees told of each is what was done to him
\* (bulk_assign_salary_structure: ``every employee lands in exactly one bucket'').
ReportIsTrue ==
  \A e \in Employees :
    /\ report[e] = "assigned"  => SubmittedOf(Now, e) # {}
    /\ report[e] = "cancelled" => SubmittedOf(Now, e) = {}
    /\ report[e] = "failed"    => ssa_status(Now, e) # "DRAFT_ONLY"
\* Who is paid by the month has a monthly amount (save_employee_salary_setting: ``Monthly mode
\* requires a monthly base > 0'').
MonthlyHasBase == \A e \in Employees : mode[e] = "Monthly" => MonthlyBase(Now, e) > 0
=============================================================================
