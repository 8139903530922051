----------------------------- MODULE Lifecycle ------------------------------
(***************************************************************************)
(* An employee joins, reports to a manager, leaves, comes back and may be    *)
(* deleted.  Leaving ends the shift assignment and takes back the shifts     *)
(* after the last day that nobody punched; what was punched stays.           *)
(*                                                                          *)
(* A request reads its snapshot: the present one, or the one `held' since    *)
(* another request was let through.                                          *)
(***************************************************************************)
EXTENDS Integers, FiniteSets

CONSTANTS
  Employees, Days,
  Overlaps,  \* the values of `overlap' to look at
  Faults     \* the values of `faulty' to look at

VARIABLES
  emp,      \* the employees
  shift,    \* of each the state of his shift assignment
  day,      \* and of each day: no shift, one without a punch, or with one
  draft,    \* the days with a draft attendance
  held,     \* the snapshot a request still reads, if any
  overlap,  \* whether requests overlap
  faulty    \* whether what a leaving does may fail half way
vars == <<emp, shift, day, draft, held, overlap, faulty>>

Nobody == "None"
NoDay  == 0
NoEmp  == [is |-> "None", boss |-> Nobody, last |-> NoDay]
Now == [emp |-> emp, shift |-> shift, day |-> day, draft |-> draft]
Views == {Now} \cup held
Hold == overlap /\ held = {} /\ held' = {Now} /\ UNCHANGED <<emp, shift, day, draft, overlap, faulty>>
Ends(v) == held' \in {held \ {v}, held \ ({v} \ {Now})} /\ UNCHANGED <<overlap, faulty>>

-----------------------------------------------------------------------------
(* Who reports to whom. *)

\* Up the chain from e: a chain longer than there are employees has come back somewhere.
detect_cycle(boss, e) ==
  LET N == Cardinality(Employees)
      Up[n \in 0..N] == IF n = 0 THEN e ELSE IF Up[n - 1] = Nobody THEN Nobody ELSE boss[Up[n - 1]]
  IN Up[N] # Nobody
\* Mutant: only the manager's own manager is looked at.
OneLevel(v, e, boss) == boss = e \/ (boss # Nobody /\ v.emp[boss].boss = e)
guard_reports_to_cycle(v, e, boss) ==
  boss # Nobody /\ (boss = e \/ detect_cycle([x \in Employees |-> IF x = e THEN boss ELSE v.emp[x].boss], e))

-----------------------------------------------------------------------------
(* Leaving. *)

Dropped(v, e, end) == {d \in Days : d > end /\ v.day[e][d] = "Empty"}
Kept(v, e, end)    == {d \in Days : d > end /\ v.day[e][d] = "Punched"}
\* The drafts go first, then the days one by one. What fails is written to the log, and what was
\* done before stays done.
_drop_shift_data_after(v, e, end, drafts, days) ==
  /\ draft' = draft \ {<<e, d>> : d \in drafts}
  /\ day' = [day EXCEPT ![e] = [d \in Days |-> IF d \in days THEN "None" ELSE @[d]]]
\* Mutant: the days from the last one on.
FromLastDay(v, e, end) ==
  /\ shift' = [shift EXCEPT ![e] = IF v.shift[e] = "Active" THEN "Inactive" ELSE @]
  /\ _drop_shift_data_after(v, e, end, {d \in Days : d > end}, {d \in Days : d > end})
handle_employee_status_change(v, e, end) ==
  LET drafts == {d \in Days : d > end /\ <<e, d>> \in v.draft} \ Kept(v, e, end)
      days   == Dropped(v, e, end)
      ended  == [shift EXCEPT ![e] = IF v.shift[e] = "Active" THEN "Inactive" ELSE @]
  IN \/ /\ shift' = ended /\ _drop_shift_data_after(v, e, end, drafts, days)
     \/ /\ faulty /\ shift' \in {shift, ended}
        /\ \/ \E some \in SUBSET drafts : _drop_shift_data_after(v, e, end, some, {})
           \/ \E some \in SUBSET days : _drop_shift_data_after(v, e, end, drafts, some)

Unmoved == UNCHANGED <<shift, day, draft>>
\* Every save: what a leaving does is done when the state turns, and not when its day changes later.
Saves(v, e, x) ==
  /\ v.emp[e] = emp[e] /\ emp[e].is # "None" /\ ~guard_reports_to_cycle(v, e, x.boss)
  /\ x.boss # Nobody => v.emp[x.boss].is # "None"
  /\ x.is = "Left" => x.last # NoDay   \* ERPNext
  /\ emp' = [emp EXCEPT ![e] = x]
  /\ IF x.is = "Left" /\ emp[e].is # "Left" THEN handle_employee_status_change(v, e, x.last) ELSE Unmoved
  /\ Ends(v)
\* Any of the fields; each employee of a list that fails is passed over (bulk_update_employees).
save_employee(v, e, x) == Saves(v, e, x)
offboard_employee(v, e, last) ==
  v.emp[e].is # "Left" /\ Saves(v, e, [v.emp[e] EXCEPT !.is = "Left", !.last = last])
\* Nothing of what the leaving took back is made again.
reactivate_employee(v, e, clear) ==
  v.emp[e].is = "Left" /\ Saves(v, e, [v.emp[e] EXCEPT !.is = "Active", !.last = IF clear THEN NoDay ELSE @])
create_transfer(v, e, boss) == boss # Nobody /\ Saves(v, e, [v.emp[e] EXCEPT !.boss = boss])

\* Mutant: shifts are no obstacle.
CountsPunches(v, e) == \E d \in Days : v.day[e][d] = "Punched"
guard_employee_delete(v, e) == v.shift[e] # "None" \/ (\E d \in Days : v.day[e][d] # "None")
\* Who has people reporting to him is not deleted either (a link).
delete_employee(v, e) ==
  /\ v.emp[e].is # "None" /\ ~guard_employee_delete(v, e)
  /\ \A x \in Employees : v.emp[x].boss # e
  /\ emp' = [emp EXCEPT ![e] = NoEmp] /\ Unmoved /\ Ends(v)

-----------------------------------------------------------------------------
(* What goes on around it. *)

Joins(v, e, boss) ==
  /\ emp[e] = NoEmp /\ boss # e /\ (boss # Nobody => v.emp[boss].is = "Active")
  /\ emp' = [emp EXCEPT ![e] = [NoEmp EXCEPT !.is = "Active", !.boss = boss]] /\ Unmoved /\ Ends(v)
\* HRMS takes active employees only, here and for a punch.
create_shift_assignment(v, e) ==
  /\ v.emp[e].is = "Active" /\ v.shift[e] # "Active"
  /\ shift' = [shift EXCEPT ![e] = "Active"] /\ UNCHANGED <<emp, day, draft>> /\ Ends(v)
\* The assignments are looked at, not the employees.
_materialise_shift_instances(v) ==
  /\ day' = [e \in Employees |-> [d \in Days |->
               IF v.shift[e] = "Active" /\ v.day[e][d] = "None" /\ day[e][d] = "None" THEN "Empty" ELSE day[e][d]]]
  /\ UNCHANGED <<emp, shift, draft>> /\ Ends(v)
create_checkin(v, e, d) ==
  /\ v.emp[e].is = "Active" /\ v.day[e][d] # "None" /\ day[e][d] # "None"
  /\ day' = [day EXCEPT ![e][d] = "Punched"] /\ UNCHANGED <<emp, shift, draft>> /\ Ends(v)
\* The night: a draft attendance of a day with a shift.
sync_attendance(v, e, d) ==
  /\ v.day[e][d] # "None" /\ day[e][d] # "None"
  /\ draft' = draft \cup {<<e, d>>} /\ UNCHANGED <<emp, shift, day>> /\ Ends(v)

-----------------------------------------------------------------------------
EmpRows == [is : {"Active", "Left"}, boss : Employees \cup {Nobody}, last : Days \cup {NoDay}]
Init ==
  /\ emp = [e \in Employees |-> NoEmp] /\ shift = [e \in Employees |-> "None"]
  /\ day = [e \in Employees |-> [d \in Days |-> "None"]] /\ draft = {}
  /\ held = {} /\ overlap \in Overlaps /\ faulty \in Faults
Next ==
  \/ Hold
  \/ \E v \in Views :
       \/ _materialise_shift_instances(v)
       \/ \E e \in Employees :
            \/ \E x \in EmpRows : save_employee(v, e, x)
            \/ \E d \in Days : offboard_employee(v, e, d) \/ create_checkin(v, e, d) \/ sync_attendance(v, e, d)
            \/ \E clear \in BOOLEAN : reactivate_employee(v, e, clear)
            \/ \E boss \in Employees \cup {Nobody} : create_transfer(v, e, boss) \/ Joins(v, e, boss)
            \/ delete_employee(v, e) \/ create_shift_assignment(v, e)
Spec == Init /\ [][Next]_vars

-----------------------------------------------------------------------------
TypeOK ==
  /\ emp \in [Employees -> {NoEmp} \cup EmpRows]
  /\ shift \in [Employees -> {"None", "Active", "Inactive"}]
  /\ day \in [Employees -> [Days -> {"None", "Empty", "Punched"}]] /\ draft \subseteq Employees \X Days
Serial == ~overlap /\ ~faulty

\* One request after another, and nothing failing: no shift is made any more for who has left, and no
\* manager is above himself; nothing is left of an employee who was deleted
\* (handle_employee_status_change, guard_reports_to_cycle, guard_employee_delete).
LeftHasNoShift ==
  Serial => \A e \in Employees :
    /\ emp[e].is = "Left" => shift[e] # "Active"
    /\ ~detect_cycle([x \in Employees |-> emp[x].boss], e)
    /\ emp[e].is = "None" => shift[e] = "None" /\ \A d \in Days : day[e][d] = "None"
\* A punched day and its attendance are never taken back, and a leaving leaves no day without a punch
\* after the last one (_drop_shift_data_after: days with real data are kept for the payroll).
DayStays ==
  Serial => \A e \in Employees :
    /\ \A d \in Days : day[e][d] = "Punched" =>
         day'[e][d] = "Punched" /\ (<<e, d>> \in draft => <<e, d>> \in draft')
    /\ emp[e].is = "Active" /\ emp'[e].is = "Left" =>
         \A d \in Days : d > emp'[e].last => day'[e][d] # "Empty" /\ (<<e, d>> \in draft' => day'[e][d] = "Punched")
PunchedDayStays == [][DayStays]_vars
\* After the last day of who has left there is no shift without a punch (module docstring of
\* employee_lifecycle: ``drop the Shift Instances AFTER that date that have no real check-in data'').
LeftHasNoEmptyDay ==
  \A e \in Employees : emp[e].is = "Left" => \A d \in Days : d > emp[e].last => day[e][d] # "Empty"
\* When requests overlap too, a punched day stays.
PunchedDayStaysAnyhow ==
  [][\A e \in Employees, d \in Days : day[e][d] = "Punched" => day'[e][d] = "Punched"]_vars
=============================================================================
