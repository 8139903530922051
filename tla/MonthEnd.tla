------------------------------ MODULE MonthEnd ------------------------------
(* The review periods of one company and one month (payroll.py): opened by hand or by the morning job, calculated,
adjusted line by line, approved, cancelled, deleted.  PayrollReview follows one period through its slips and its
overlapping requests; here are several periods, one request after the other, and the job that closes the month.

A calculation claims its period and commits the claim; what stops it later leaves the claim behind. *)
EXTENDS Integers, FiniteSets, FiniteSetsExt
CONSTANTS
  Employees,   \* Active, with work sessions in the month
  Periods,
  Adjustments, \* what the manual adjustments of a line may come to
  Formulas,    \* the nets the formula may come to
  AlarmDay,    \* the job is silent up to this day (the code's 5)
  LastDay      \* bound: of the next month

VARIABLES
  day,      \* the day of the next month
  staff,    \* who is still Active
  due,      \* the net the formula gives each employee today
  blockers, \* what of the month is not final
  period, line,
  closing   \* of the last run of the job: the heartbeat it left, the alarm it raised
vars == <<day, staff, due, blockers, period, line, closing>>

Statuses == {"Draft", "Calculating", "Calculated", "Approved", "Cancelled"}
Period == [status : Statuses, total : Int]
NoPeriod == [status |-> "None", total |-> 0]
NoLine == [is |-> FALSE, formula |-> 0, adj |-> 0]
Line == [is : {TRUE}, formula : Formulas, adj : Adjustments] \cup {NoLine}
Blockers == {"ticket", "session", "advance", "base"}  \* pending tickets, sessions not calculated, approved advances,
                                                      \* a Monthly employee without a base
Quiet == [heart |-> FALSE, alarm |-> FALSE]

Init ==
  /\ day = 1
  /\ staff = Employees
  /\ due \in [Employees -> Formulas]
  /\ blockers \in SUBSET Blockers
  /\ period = [p \in Periods |-> NoPeriod]
  /\ line = [p \in Periods |-> [e \in Employees |-> NoLine]]
  /\ closing = Quiet

-----------------------------------------------------------------------------
(* Reading. *)

\* docstatus < 2: a period is never submitted, and a cancelled one is a row like the others.
Existing == {p \in Periods : period[p] # NoPeriod}
ExistingOpen == {p \in Existing : period[p].status # "Cancelled"}
_period_employees == staff
Held(p) == {e \in Employees : line[p][e].is}
Net(l) == l.formula + l.adj
Sum(E, f(_)) == MapThenSumSet(f, E)

\* What a calculation refuses, and what the job looks at before it starts one.
Pending == blockers \cap {"ticket", "advance", "base"}
_auto_close_blockers == blockers \cap {"ticket", "session"}

\* _upsert_line of the employees E: a line there is keeps its adjustments.
Upserted(old, E) ==
  [e \in Employees |->
     IF e \in E THEN [is |-> TRUE, formula |-> due[e], adj |-> IF old[e].is THEN old[e].adj ELSE 0] ELSE old[e]]
\* _recompute_period_totals reads every line of the period.
TotalOf(lines) == LET N(e) == Net(lines[e]) IN Sum({e \in Employees : lines[e].is}, N)
FormulaTotalOf(lines) == LET N(e) == lines[e].formula IN Sum({e \in Employees : lines[e].is}, N)
\* rollup_lines adds up what this run computed, before the adjustments.
rollup_lines == LET N(e) == due[e] IN Sum(_period_employees, N)

-----------------------------------------------------------------------------
(* Requests. *)

create_payroll_review(p) ==
  /\ Existing = {}
  /\ period' = [period EXCEPT ![p] = [status |-> "Draft", total |-> 0]]
  /\ UNCHANGED <<day, staff, due, blockers, line, closing>>

\* calculate_payroll_review: the claim, then the checks, then the lines and the total.
calculate_payroll_review(p) ==
  /\ period[p].status \in {"Draft", "Calculated", "Calculating"}
  /\ IF Pending = {}
     THEN /\ line' = [line EXCEPT ![p] = Upserted(@, _period_employees)]
          /\ period' = [period EXCEPT ![p] = [status |-> "Calculated", total |-> rollup_lines]]
     ELSE period' = [period EXCEPT ![p].status = "Calculating"] /\ UNCHANGED line
  /\ UNCHANGED <<day, staff, due, blockers, closing>>

\* save_payroll_adjustment, delete_payroll_adjustment: of a line of any period that is not approved.
Adjust(p, e, a) ==
  /\ line[p][e].is /\ line[p][e].adj # a
  /\ period[p].status # "Approved"
  /\ line' = [line EXCEPT ![p][e].adj = a]
  /\ period' = [period EXCEPT ![p].total = TotalOf(line'[p])]
  /\ UNCHANGED <<day, staff, due, blockers, closing>>

approve_review(p) ==
  /\ period[p].status \in {"Calculated", "Approved"}
  /\ period' = [period EXCEPT ![p].status = "Approved"]
  /\ UNCHANGED <<day, staff, due, blockers, line, closing>>

cancel_payroll_review(p) ==
  /\ p \in Existing /\ period[p].status # "Cancelled"
  /\ period' = [period EXCEPT ![p].status = "Cancelled"]
  /\ UNCHANGED <<day, staff, due, blockers, line, closing>>

delete_payroll_review(p) ==
  /\ period[p].status \in {"Draft", "Calculated"}
  /\ period' = [period EXCEPT ![p] = NoPeriod]
  /\ line' = [line EXCEPT ![p] = [e \in Employees |-> NoLine]]
  /\ UNCHANGED <<day, staff, due, blockers, closing>>

-----------------------------------------------------------------------------
(* The job of half past seven. *)

\* What the scheduler commits of a calculation that throws: the period in Calculating and the lines written so far.
Broken(p, E) ==
  /\ line' = [line EXCEPT ![p] = Upserted(@, E)]
  /\ period' = [period EXCEPT ![p] = [status |-> "Calculating", total |-> 0]]
  /\ closing' = Quiet
auto_close_payroll(p) ==
  /\ \/ Existing # {} /\ closing' = [heart |-> TRUE, alarm |-> FALSE] /\ UNCHANGED <<period, line>>
     \/ /\ Existing = {} /\ _auto_close_blockers # {}
        /\ closing' = [heart |-> FALSE, alarm |-> day > AlarmDay]
        /\ UNCHANGED <<period, line>>
     \/ /\ Existing = {} /\ _auto_close_blockers = {} /\ Pending = {}
        /\ \/ /\ line' = [line EXCEPT ![p] = Upserted(@, _period_employees)]
              /\ period' = [period EXCEPT ![p] = [status |-> "Calculated", total |-> rollup_lines]]
              /\ closing' = [heart |-> TRUE, alarm |-> FALSE]
           \/ \E E \in SUBSET _period_employees \ {_period_employees} : Broken(p, E)
     \/ Existing = {} /\ _auto_close_blockers = {} /\ Pending # {} /\ Broken(p, {})
  /\ UNCHANGED <<day, staff, due, blockers>>

-----------------------------------------------------------------------------
(* What happens around them. *)

NextDay == day < LastDay /\ day' = day + 1 /\ UNCHANGED <<staff, due, blockers, period, line, closing>>
Leaves(e) == e \in staff /\ staff' = staff \ {e} /\ UNCHANGED <<day, due, blockers, period, line, closing>>
Turns(e, n) == due[e] # n /\ due' = [due EXCEPT ![e] = n] /\ UNCHANGED <<day, staff, blockers, period, line, closing>>
Settles(b) == b \in blockers /\ blockers' = blockers \ {b} /\ UNCHANGED <<day, staff, due, period, line, closing>>
Raises(b) == b \notin blockers /\ blockers' = blockers \cup {b} /\ UNCHANGED <<day, staff, due, period, line, closing>>

Next ==
  \/ \E p \in Periods :
       \/ create_payroll_review(p) \/ calculate_payroll_review(p) \/ approve_review(p)
       \/ cancel_payroll_review(p) \/ delete_payroll_review(p) \/ auto_close_payroll(p)
       \/ \E e \in Employees, a \in Adjustments : Adjust(p, e, a)
  \/ NextDay
  \/ \E e \in Employees : Leaves(e) \/ \E n \in Formulas : Turns(e, n)
  \/ \E b \in Blockers : Settles(b) \/ Raises(b)
Spec == Init /\ [][Next]_vars

-----------------------------------------------------------------------------
(* Properties. *)

TypeOK ==
  /\ day \in 1..LastDay /\ staff \subseteq Employees /\ due \in [Employees -> Formulas] /\ blockers \subseteq Blockers
  /\ period \in [Periods -> Period \cup {NoPeriod}]
  /\ line \in [Periods -> [Employees -> Line]]
  /\ closing \in [heart : BOOLEAN, alarm : BOOLEAN]
\* A month is reviewed once, by hand or by the job (create_payroll_review, auto_close_payroll).
OnePeriod == Cardinality(Existing) <= 1
\* The total HR approves is that of the lines, adjustments included, or that of the formula for those who were there
\* when it was last calculated (rollup_lines against _recompute_period_totals).
TotalsAreOfLines ==
  \A p \in Periods :
    period[p].status \in {"Calculated", "Approved"} =>
      \/ period[p].total = TotalOf(line[p])
      \/ \E E \in SUBSET Held(p) :
           /\ E \cap staff = {}
           /\ period[p].total = FormulaTotalOf([e \in Employees |-> IF e \in E THEN NoLine ELSE line[p][e]])
\* What HR added to a line by hand stays on it, however often the period is calculated again (_upsert_line).
AdjustmentStays ==
  \A p \in Periods, e \in Employees :
    line'[p][e].is /\ line[p][e].is /\ line'[p][e].formula # line[p][e].formula => line'[p][e].adj = line[p][e].adj
=============================================================================
