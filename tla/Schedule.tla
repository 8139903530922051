------------------------------- MODULE Schedule -------------------------------
(***************************************************************************)
(* Shift assignments, the dated shift instances generated from them, shift   *)
(* requests and swaps.                                                      *)
(*                                                                          *)
(* Requests are taken one at a time: what is hard here happens inside one.   *)
(* A request composes several writes of the database x = [sa, inst]; an      *)
(* operator that may throw returns the set of its outcomes, empty when it    *)
(* throws and the request is rolled back.  The generator of instances rolls  *)
(* the transaction back as well, to where the request began, and goes on.    *)
(***************************************************************************)
EXTENDS Integers, FiniteSets, FiniteSetsExt, SequencesExt

CONSTANTS
  Employees, Shifts,
  Clash,        \* pairs of shifts whose hours overlap
  Assignments,  \* names of Shift Assignments, numbers in order of creation
  ShiftRequests, Swaps,
  Bulks,        \* the sets of assignments HR ends, or switches, in one request
  LastDay,      \* bound on the days; an open end is LastDay
  Horizon       \* SHIFT_INSTANCE_HORIZON_DAYS

Days == 1..LastDay

VARIABLES
  sa,     \* Shift Assignment rows
  inst,   \* VN Employee Shift Instance of an employee, a shift and a day
  punch,  \* days of an employee with Employee Checkins of a shift
  sr,     \* Shift Request rows
  swap,   \* VN Shift Swap Request rows
  today
vars == <<sa, inst, punch, sr, swap, today>>

NoRow  == [state |-> "None"]
NoInst == [status |-> "None", of |-> 0]
DB     == [sa |-> sa, inst |-> inst]

Span(row) == row.from..row.to
Applies(row) == row.state = "Submitted" /\ row.active
Row(e, s, from, to) ==
  [state |-> "Submitted", active |-> TRUE, emp |-> e, shift |-> s, from |-> from, to |-> to]

-----------------------------------------------------------------------------
(* Assignments. *)

\* Mutant: the days are not compared with those of a row that began earlier.
ConflictsLater(x, a, row) ==
  {b \in Assignments \ {a} : /\ Applies(x.sa[b]) /\ x.sa[b].emp = row.emp
                             /\ x.sa[b].from >= row.from /\ x.sa[b].from <= row.to
                             /\ <<row.shift, x.sa[b].shift>> \in Clash}
\* The check of HRMS on a save, and its mirror in create and amend.
_shift_conflicts(x, a, row) ==
  {b \in Assignments \ {a} : /\ Applies(x.sa[b]) /\ x.sa[b].emp = row.emp
                             /\ Span(x.sa[b]) \cap Span(row) # {}
                             /\ <<row.shift, x.sa[b].shift>> \in Clash}
\* The outcomes of writing row as a, and as the next name.
Save(x, a, row) ==
  IF Applies(row) => _shift_conflicts(x, a, row) = {} THEN {[x EXCEPT !.sa[a] = row]} ELSE {}
Insert(x, row) ==
  LET free == {a \in Assignments : x.sa[a] = NoRow} IN
  IF row.from <= row.to /\ free # {} THEN Save(x, Min(free), row) ELSE {}

Punched(row) == \E d \in Span(row) : row.shift \in punch[row.emp][d]
Instances(x, a) ==
  {i \in Employees \X Shifts \X Days : x.inst[i].status # "None" /\ x.inst[i].of = a}
\* Mutant: the instances of a cancelled assignment are not looked for.
CancelAnyway(x, a) ==
  IF ~Punched(x.sa[a]) THEN {[x EXCEPT !.sa[a].state = "Cancelled"]} ELSE {}
\* No check-in, and no submitted document that links it.
Cancel(x, a) ==
  IF ~Punched(x.sa[a]) /\ Instances(x, a) = {}
  THEN {[x EXCEPT !.sa[a].state = "Cancelled"]} ELSE {}

-----------------------------------------------------------------------------
(* Instances. *)

\* A live instance of the day whose hours overlap.
_check_overlap(x, i) ==
  \E t \in Shifts : /\ <<i[2], t>> \in Clash
                    /\ x.inst[<<i[1], t, i[3]>>].status = "Scheduled"
\* The assignments read, one after another, each from what the ones before left.  One that
\* fails takes back everything since the transaction began, at start; the rows that are left
\* are still those read.  A new instance needs its assignment to be there.
_materialise_shift_instances(start, x, E, from, to) ==
  LET rows == {a \in Assignments : Applies(x.sa[a]) /\ x.sa[a].emp \in E}
      Missing(y, a) == {i \in {x.sa[a].emp} \X {x.sa[a].shift} \X (Span(x.sa[a]) \cap from..to) :
                          y.inst[i].status = "None"}
      Ensure(y, a) ==
        LET new == Missing(y, a) IN
        IF new # {} /\ (y.sa[a].state # "Submitted" \/ \E i \in new : _check_overlap(y, i))
        THEN start
        ELSE [y EXCEPT !.inst = [i \in DOMAIN @ |->
                IF i \in new THEN [status |-> "Scheduled", of |-> a] ELSE @[i]]]
  IN {FoldLeft(Ensure, x, order) : order \in SetToSeqs(rows)}

_create_shift_assignment_core(start, x, row) ==
  LET until == Min({row.to, today}) IN
  IF row.from > until THEN Insert(x, row)
  ELSE UNION {_materialise_shift_instances(start, y, {row.emp}, row.from, until) : y \in Insert(x, row)}

\* Cells one after another in one transaction: one that throws is left out.
Batch(cells) ==
  LET Add(S, row) == UNION {LET made == _create_shift_assignment_core(DB, x, row) IN
                            IF made = {} THEN {x} ELSE made : x \in S}
  IN UNION {FoldLeft(Add, {DB}, order) : order \in SetToSeqs(cells)}

\* The assignment that covers the day is cut before it and goes on after it; one that begins
\* that day is cancelled, and does not go on.
_override(start, x, e, d, s) ==
  LET covering == {a \in Assignments : Applies(x.sa[a]) /\ x.sa[a].emp = e /\ d \in Span(x.sa[a])}
      Cut(a) ==
        LET row == x.sa[a] IN
        IF row.from = d THEN Cancel(x, a)
        ELSE LET head == Save(x, a, [row EXCEPT !.to = d - 1]) IN
             IF d = row.to THEN head
             ELSE UNION {_create_shift_assignment_core(start, y, Row(e, row.shift, d + 1, row.to)) :
                           y \in head}
      rest == IF covering = {} THEN {x} ELSE UNION {Cut(a) : a \in covering}
  IN UNION {_create_shift_assignment_core(start, y, Row(e, s, d, d)) : y \in rest}

-----------------------------------------------------------------------------
Commit(outcomes) == \E x \in outcomes : sa' = x.sa /\ inst' = x.inst

(* HR and line managers. *)

create_shift_assignment(e, s, from, to) ==
  /\ Commit(_create_shift_assignment_core(DB, DB, Row(e, s, from, to)))
  /\ UNCHANGED <<punch, sr, swap, today>>
bulk_create_shift_assignments(E, s, from, to) ==
  /\ Commit(Batch({Row(e, s, from, to) : e \in E}))
  /\ UNCHANGED <<punch, sr, swap, today>>
\* One assignment for every maximal run of the days chosen.
generate_recurring_shift_assignments(E, s, D) ==
  LET runs == {w \in D \X D : /\ w[1] <= w[2] /\ w[1]..w[2] \subseteq D
                              /\ w[1] - 1 \notin D /\ w[2] + 1 \notin D}
  IN /\ Commit(Batch({Row(e, s, w[1], w[2]) : e \in E, w \in runs}))
     /\ UNCHANGED <<punch, sr, swap, today>>
\* A week of one day is copied to a later one.
copy_week_schedule(E, src, dst) ==
  /\ src < dst /\ dst >= today
  /\ Commit(Batch({Row(sa[a].emp, sa[a].shift, dst, dst) :
       a \in {b \in Assignments : Applies(sa[b]) /\ sa[b].emp \in E /\ src \in Span(sa[b])}}))
  /\ UNCHANGED <<punch, sr, swap, today>>
end_shift_assignment(a, d) ==
  /\ sa[a].state = "Submitted"
  /\ Commit(UNION {Cancel(x, a) : x \in Save(DB, a, [sa[a] EXCEPT !.to = d])})
  /\ UNCHANGED <<punch, sr, swap, today>>
update_shift_assignment(a, to, active) ==
  /\ sa[a].state = "Submitted" /\ (to = sa[a].to \/ to >= sa[a].from)
  /\ Commit(Save(DB, a, [sa[a] EXCEPT !.to = to, !.active = active]))
  /\ UNCHANGED <<punch, sr, swap, today>>
set_shift_assignment_status(a, active) ==
  /\ sa[a].state = "Submitted"
  /\ Commit(Save(DB, a, [sa[a] EXCEPT !.active = active]))
  /\ UNCHANGED <<punch, sr, swap, today>>
\* One after another, each failure caught.  What refuses a row runs after it is written and
\* nothing takes the write back: the row that is reported as failed has changed.
bulk_end_shift_assignments(N, d) ==
  LET End(x, a) ==
        LET row == [x.sa[a] EXCEPT !.to = d] IN
        IF x.sa[a].state # "Submitted" THEN x
        ELSE [x EXCEPT !.sa[a] = IF Save(x, a, row) = {} \/ Punched(row) THEN row
                                 ELSE [row EXCEPT !.state = "Cancelled"]]
  IN /\ Commit({FoldLeft(End, DB, order) : order \in SetToSeqs(N)})
     /\ UNCHANGED <<punch, sr, swap, today>>
bulk_set_shift_assignment_status(N, active) ==
  /\ sa' = [a \in Assignments |-> IF a \in N /\ sa[a].state = "Submitted"
                                  THEN [sa[a] EXCEPT !.active = active] ELSE sa[a]]
  /\ UNCHANGED <<inst, punch, sr, swap, today>>
\* Nothing is generated here: that is left to the night.
amend_shift_assignment(a, s, from, to) ==
  LET old == sa[a]
      Cuts == IF old.state = "Cancelled" THEN {DB}
              ELSE UNION {Cancel(x, a) : x \in IF from > old.from
                             THEN Save(DB, a, [old EXCEPT !.to = from - 1]) ELSE {DB}}
  IN /\ old # NoRow
     /\ Commit(UNION {Insert(x, Row(old.emp, s, from, to)) : x \in Cuts})
     /\ UNCHANGED <<punch, sr, swap, today>>
MayDelete(a) ==
  /\ sa[a].state = "Cancelled" /\ ~Punched(sa[a])
  /\ \A i \in Instances(DB, a) : punch[i[1]][i[3]] = {}
delete_shift_assignment(a) ==
  /\ MayDelete(a)
  /\ sa' = [sa EXCEPT ![a] = NoRow]
  /\ inst' = [i \in DOMAIN inst |-> IF i \in Instances(DB, a) THEN NoInst ELSE inst[i]]
  /\ UNCHANGED <<punch, sr, swap, today>>
override_day_shift_assignment(e, d, s) ==
  /\ Commit(_override(DB, DB, e, d, s)) /\ UNCHANGED <<punch, sr, swap, today>>

SwapDays(i, j) ==
  UNION {_override(DB, x, j[1], j[3], i[2]) : x \in _override(DB, DB, i[1], i[3], j[2])}
Exists(i) == inst[i].status # "None"
swap_shift_days(i, j) ==
  /\ Exists(i) /\ Exists(j) /\ i[3] >= today /\ j[3] >= today
  /\ <<i[1], i[3]>> # <<j[1], j[3]>>
  /\ Commit(SwapDays(i, j)) /\ UNCHANGED <<punch, sr, swap, today>>
\* The employee leaves on day d: assignments end, and so do the instances after d without a
\* punch.
handle_employee_status_change(e, d) ==
  /\ sa' = [a \in Assignments |-> IF Applies(sa[a]) /\ sa[a].emp = e
                                  THEN [sa[a] EXCEPT !.to = d, !.active = FALSE] ELSE sa[a]]
  /\ inst' = [i \in DOMAIN inst |-> IF i[1] = e /\ i[3] > d /\ i[2] \notin punch[e][i[3]]
                                    THEN NoInst ELSE inst[i]]
  /\ UNCHANGED <<punch, sr, swap, today>>
\* No instance is Active or Completed, nothing sets those.
set_shift_instance_status(i, status) ==
  /\ Exists(i) /\ inst[i].status # status
  /\ inst' = [inst EXCEPT ![i].status = status]
  /\ UNCHANGED <<sa, punch, sr, swap, today>>

(* Requests of employees. *)

_assert_no_request_overlap(e, span) ==
  /\ \A a \in Assignments : Applies(sa[a]) /\ sa[a].emp = e => Span(sa[a]) \cap span = {}
  /\ \A q \in ShiftRequests : sr[q].state = "Draft" /\ sr[q].emp = e => Span(sr[q]) \cap span = {}
NewRequest(q, e, s, from, to) ==
  /\ sr[q] = NoRow /\ from <= to
  /\ sr' = [sr EXCEPT ![q] = [state |-> "Draft", emp |-> e, shift |-> s, from |-> from, to |-> to]]
  /\ UNCHANGED <<sa, inst, punch, swap, today>>
create_shift_request(q, e, s, from, to) == NewRequest(q, e, s, from, to)
create_my_shift_request(q, e, s, from, to) ==
  from >= today /\ _assert_no_request_overlap(e, from..to) /\ NewRequest(q, e, s, from, to)
cancel_my_shift_request(q) ==
  /\ sr[q].state = "Draft" /\ sr' = [sr EXCEPT ![q] = NoRow]
  /\ UNCHANGED <<sa, inst, punch, swap, today>>
\* A rejected one too.
approve_shift_request(q) ==
  /\ sr[q].state \in {"Draft", "Rejected"}
  /\ Commit(_create_shift_assignment_core(DB, DB,
       Row(sr[q].emp, sr[q].shift, sr[q].from, sr[q].to)))
  /\ sr' = [sr EXCEPT ![q].state = "Approved"] /\ UNCHANGED <<punch, swap, today>>
\* In whatever state it is.
reject_shift_request(q) ==
  /\ sr[q] # NoRow /\ sr' = [sr EXCEPT ![q].state = "Rejected"]
  /\ UNCHANGED <<sa, inst, punch, swap, today>>

create_swap_request(w, i, j) ==
  /\ swap[w] = NoRow /\ Exists(i) /\ Exists(j) /\ i[1] # j[1] /\ i[3] >= today /\ j[3] >= today
  /\ \A v \in Swaps : swap[v].state = "Open" =>
       <<swap[v].a[1], swap[v].a[3], swap[v].b[1], swap[v].b[3]>> # <<i[1], i[3], j[1], j[3]>>
  /\ swap' = [swap EXCEPT ![w] = [state |-> "Open", a |-> i, b |-> j]]
  /\ UNCHANGED <<sa, inst, punch, sr, today>>
\* The save validates the days again, so an aged request cannot be rejected.
decide_swap_request(w, decision) ==
  LET i == swap[w].a  j == swap[w].b IN
  /\ swap[w].state = "Open" /\ i[3] >= today /\ j[3] >= today
  /\ IF decision = "Approved" THEN Exists(i) /\ Exists(j) /\ Commit(SwapDays(i, j))
     ELSE UNCHANGED <<sa, inst>>
  /\ swap' = [swap EXCEPT ![w].state = decision] /\ UNCHANGED <<punch, sr, today>>

(* The scheduler, HR's backfill, the clock and the employees' punches. *)

generate_daily_shift_instances ==
  /\ Commit(_materialise_shift_instances(DB, DB, Employees, today, today + Horizon))
  /\ UNCHANGED <<punch, sr, swap, today>>
backfill_shift_instances(E, from, to) ==
  /\ Commit(_materialise_shift_instances(DB, DB, E, from, to))
  /\ UNCHANGED <<punch, sr, swap, today>>
CheckIn(i) ==
  /\ i[3] = today /\ inst[i].status = "Scheduled"
  /\ punch' = [punch EXCEPT ![i[1]][today] = @ \cup {i[2]}]
  /\ UNCHANGED <<sa, inst, sr, swap, today>>
NextDay ==
  /\ today < LastDay /\ today' = today + 1 /\ UNCHANGED <<sa, inst, punch, sr, swap>>

Init ==
  /\ sa = [a \in Assignments |-> NoRow]
  /\ inst = [i \in Employees \X Shifts \X Days |-> NoInst]
  /\ punch = [e \in Employees |-> [d \in Days |-> {}]]
  /\ sr = [q \in ShiftRequests |-> NoRow] /\ swap = [w \in Swaps |-> NoRow]
  /\ today = 1

Assign ==
  \/ \E e \in Employees, s \in Shifts, from, to \in Days : create_shift_assignment(e, s, from, to)
  \/ \E E \in SUBSET Employees, s \in Shifts :
       \/ \E from, to \in Days : bulk_create_shift_assignments(E, s, from, to)
       \/ \E D \in SUBSET Days : generate_recurring_shift_assignments(E, s, D)
  \/ \E E \in SUBSET Employees, src, dst \in Days : copy_week_schedule(E, src, dst)
  \/ \E N \in Bulks : \/ \E d \in Days : bulk_end_shift_assignments(N, d)
                     \/ \E active \in BOOLEAN : bulk_set_shift_assignment_status(N, active)
  \/ \E a \in Assignments :
       \/ \E d \in Days : end_shift_assignment(a, d)
       \/ \E active \in BOOLEAN : \/ set_shift_assignment_status(a, active)
                                 \/ \E to \in Days : update_shift_assignment(a, to, active)
       \/ \E s \in Shifts, from, to \in Days : amend_shift_assignment(a, s, from, to)
       \/ delete_shift_assignment(a)
  \/ \E e \in Employees, d \in Days :
       \/ \E s \in Shifts : override_day_shift_assignment(e, d, s)
       \/ handle_employee_status_change(e, d)
Ask ==
  \/ \E q \in ShiftRequests :
       \/ \E e \in Employees, s \in Shifts, from, to \in Days :
            create_shift_request(q, e, s, from, to) \/ create_my_shift_request(q, e, s, from, to)
       \/ cancel_my_shift_request(q) \/ approve_shift_request(q) \/ reject_shift_request(q)
  \/ \E w \in Swaps :
       \/ \E i, j \in DOMAIN inst : create_swap_request(w, i, j)
       \/ \E decision \in {"Approved", "Rejected"} : decide_swap_request(w, decision)
Next ==
  \/ Assign \/ Ask
  \/ \E i, j \in DOMAIN inst : swap_shift_days(i, j)
  \/ \E i \in DOMAIN inst : \/ CheckIn(i)
                            \/ \E status \in {"Scheduled", "Cancelled", "Skipped"} :
                                 set_shift_instance_status(i, status)
  \/ generate_daily_shift_instances \/ NextDay
  \/ \E E \in SUBSET Employees, from, to \in Days : backfill_shift_instances(E, from, to)
Spec == Init /\ [][Next]_vars

-----------------------------------------------------------------------------
(* Properties. *)

TypeOK ==
  /\ \A a \in Assignments : sa[a] # NoRow =>
       /\ sa[a].state \in {"Submitted", "Cancelled"} /\ sa[a].active \in BOOLEAN
       /\ sa[a].emp \in Employees /\ sa[a].shift \in Shifts
       /\ sa[a].from \in Days /\ sa[a].to \in Days
  /\ \A i \in DOMAIN inst : /\ inst[i].status \in {"None", "Scheduled", "Cancelled", "Skipped"}
                            /\ inst[i].of \in Assignments \cup {0}
  /\ \A q \in ShiftRequests : sr[q].state \in {"None", "Draft", "Approved", "Rejected"}
  /\ \A w \in Swaps : swap[w].state \in {"None", "Open", "Approved", "Rejected"}
  /\ today \in Days

\* No employee is assigned two shifts of the same hours on one day: whatever was cut, ended,
\* amended, switched off and on again, overridden or swapped.  Not so with an assignment
\* that was switched on in bulk: its conflict is reported and the switch stays.
NoDoubleBooking ==
  \A a, b \in Assignments \ UNION Bulks :
    /\ a # b /\ Applies(sa[a]) /\ Applies(sa[b]) /\ sa[a].emp = sa[b].emp
    /\ <<sa[a].shift, sa[b].shift>> \in Clash
    => Span(sa[a]) \cap Span(sa[b]) = {}

\* An instance is of an assignment that stands, of its employee and shift: none outlives it,
\* and none is made for one that was rolled back.  Not so with one that was ended in bulk: it
\* is cancelled and reported as failed because of its instances.
NoOrphanInstance ==
  \A i \in DOMAIN inst : Exists(i) /\ inst[i].of \notin UNION Bulks =>
    LET row == sa[inst[i].of] IN row.state = "Submitted" /\ row.emp = i[1] /\ row.shift = i[2]

Has(rows, e, s, d) ==
  \E a \in Assignments : Applies(rows[a]) /\ rows[a].emp = e /\ rows[a].shift = s /\ d \in Span(rows[a])
\* Refuted.  swap_shift_days: "a failure on either side rolls the whole request back - no
\* half-applied swap": an approved swap gave both employees the shift of the other.
SwapIsWhole ==
  [][\A w \in Swaps : swap[w].state = "Open" /\ swap'[w].state = "Approved" =>
       LET i == swap[w].a  j == swap[w].b IN
       Has(sa', i[1], j[2], i[3]) <=> Has(sa', j[1], i[2], j[3])]_vars
\* Refuted.  An approved request has its assignment.
ApprovedIsAssigned ==
  [][\A q \in ShiftRequests : sr[q].state # "Approved" /\ sr'[q].state = "Approved" =>
       \A d \in Span(sr[q]) : Has(sa', sr[q].emp, sr[q].shift, d)]_vars
=============================================================================
