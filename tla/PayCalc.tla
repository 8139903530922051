------------------------------- MODULE PayCalc -------------------------------
(***************************************************************************)
(* From the work sessions of an employee in a period to a line of the        *)
(* payroll: the two folds over the sessions, the hours by bracket of the     *)
(* day, the amounts of the monthly and of the hourly mode.                    *)
(*                                                                          *)
(* One day of the period is one input: when the employee came and went, the  *)
(* leave applications of the day, whether it is a holiday.  Days are counted  *)
(* in hundredths, hours in ticks and money in units small enough to be whole. *)
(***************************************************************************)
EXTENDS WorkDay, Sequences

CONSTANTS
  Length,    \* days of the period
  DayInputs, \* what a day may be: in, out, leave (the status of an application, or "None"), holiday
  Shift, Policy, Band,
  Hour,      \* ticks of a step of the split by bracket
  Brackets,  \* sequence of [from, to, coeff] on the clock; coeff in tenths
  StandardDays, StandardHours,
  Base, Rate, Percent,  \* base salary, hourly rate, percentage taken off
  Rules      \* late penalties: sequence of [from, to, type, value]

VARIABLES
  days,  \* the days of the period
  rows,  \* what is kept of each: its session and its overtime
  later  \* what would be kept of each had the employee come a tick later

Total(f(_), S) == MapThenSumSet(f, S)
Period == 1..Length

-----------------------------------------------------------------------------
(* The sessions of the period, as they are kept. *)

ApprovedLeave(d) == d.leave = "Approved"
Row(d, i) ==
  LET base == (i - 1) * Day
      at(t) == IF t = NoLog THEN NoLog ELSE t + base
      sh == [Shift EXCEPT !.start = @ + base, !.end = @ + base]
      ws == calculate_work_session(sh, at(d.in), at(d.out), Policy, {}, IF ApprovedLeave(d) THEN 100 ELSE 0)
      ot == OvertimeFigures(generate_segments(ws, Band, IF d.holiday THEN {i - 1} ELSE {})) IN
  [ws |-> ws, ot |-> ot, leave |-> d.leave, has_leave |-> ApprovedLeave(d), need_review |-> ws.need_review,
   absent |-> ~ApprovedLeave(d) /\ d.in = NoLog /\ d.out = NoLog]

\* All of the overtime that was worked, of sessions in review and absences too.
aggregate_work_sessions(rs) ==
  [payable |-> Total(LAMBDA i : rs[i].ws.payable_day, Period),
   night   |-> Total(LAMBDA i : rs[i].ot.regular_night, Period),
   ot_normal  |-> Total(LAMBDA i : rs[i].ot.normal, Period),
   ot_night   |-> Total(LAMBDA i : rs[i].ot.night, Period),
   ot_holiday |-> Total(LAMBDA i : rs[i].ot.holiday, Period)]

\* A leave application of the day that was submitted: a rejected one is submitted as well.
LeaveDay(rs, i) == rs[i].leave \in {"Approved", "Rejected"}
Worked(rs, i) == rs[i].ws.regular > 0
\* Mutant: not those in review.
FinalLeaveDays(rs) == {i \in Period : LeaveDay(rs, i) /\ ~Worked(rs, i) /\ ~rs[i].need_review}
\* Every day of a leave without hours in the shift, those with a session too.
extra_leave_days(rs) == {i \in Period : LeaveDay(rs, i) /\ ~Worked(rs, i)}

\* A day in review pays nothing, but a leave that covers it does.
summarize_work_sessions(rs) ==
  LET final  == {i \in Period : ~rs[i].need_review}
      paying == {i \in final : ~rs[i].absent} IN
  [payable |-> Total(LAMBDA i : IF Worked(rs, i) THEN rs[i].ws.payable_day
                              ELSE IF rs[i].has_leave THEN 100 ELSE 0, paying)
                 + 100 * Cardinality(extra_leave_days(rs)),
   regular  |-> Total(LAMBDA i : rs[i].ws.regular, final),
   overtime |-> Total(LAMBDA i : rs[i].ws.approved, final),
   absent   |-> Cardinality(final \ paying)]

\* A sum of zero is taken for one that is missing.
build_monthly_agg(rs) ==
  [aggregate_work_sessions(rs) EXCEPT !.payable = IF summarize_work_sessions(rs).payable # 0
                                              THEN summarize_work_sessions(rs).payable ELSE @]

-----------------------------------------------------------------------------
(* Hours by bracket, hour by hour from the start of the span. *)

InBracket(b, t) == IF b.from < b.to THEN b.from <= t /\ t < b.to ELSE t >= b.from \/ t < b.to
CoeffAt(t) ==
  LET hits == {k \in DOMAIN Brackets : InBracket(Brackets[k], t % Day)} IN
  IF hits = {} THEN 10 ELSE Brackets[Min(hits)].coeff
Steps(a, b) == {a + k * Hour : k \in 0..((b - a - 1) \div Hour)}
\* Mutant: the last step is a whole hour.
WholeHour(t, b) == t + Hour
StepEnd(t, b) == Min2(t + Hour, b)
split_hours_by_bracket(a, b) ==
  [c \in {10} \cup {Brackets[k].coeff : k \in DOMAIN Brackets} |->
     IF a >= b THEN 0 ELSE Total(LAMBDA t : StepEnd(t, b) - t, {t \in Steps(a, b) : CoeffAt(t) = c})]

\* The regular hours end when the employee, or the shift, does; overtime comes after the shift.
SessionSpans(rs, i) ==
  LET ws == rs[i].ws  end == Min2(ws.out, ws.planned_end) IN
  IF rs[i].need_review \/ rs[i].absent THEN {}
  ELSE (IF ws.payable_regular > 0 THEN {<<end - ws.payable_regular, end>>} ELSE {})
         \cup (IF ws.approved > 0 THEN {<<ws.planned_end, ws.planned_end + ws.approved>>} ELSE {})
bracket_hours_from_sessions(rs) ==
  [c \in {10} \cup {Brackets[k].coeff : k \in DOMAIN Brackets} |->
     Total(LAMBDA s : split_hours_by_bracket(s[1], s[2])[c], UNION {SessionSpans(rs, i) : i \in Period})]

-----------------------------------------------------------------------------
(* Amounts. *)

\* Mutant: the end of a rule is not part of it.
CoversBefore(rule, late) == rule.from <= late /\ late < rule.to
Covers(rule, late) == rule.from <= late /\ late <= rule.to
\* The first rule that covers the minutes.
LatePenalty(late, daily) ==
  LET hits == {k \in DOMAIN Rules : Covers(Rules[k], late)} IN
  IF hits = {} THEN 0
  ELSE LET r == Rules[Min(hits)] IN
       CASE r.type = "Fixed Amount" -> r.value
         [] r.type = "Per Minute"   -> late * r.value
         [] r.type = "Percentage"   -> (daily * r.value) \div 100
         [] r.type = "Half Day"     -> daily \div 2
         [] r.type = "Full Day"     -> daily
compute_late_penalty(rs, daily) ==
  Total(LAMBDA i : LatePenalty(rs[i].ws.late, daily), {i \in Period : rs[i].ws.late > 0})

\* Of a base salary: the days that are not paid are left out, and taken off again.
compute_line(rs, taken) ==
  LET agg   == build_monthly_agg(rs)
      daily == Base \div StandardDays
      rate  == Base \div StandardHours
      gross == (daily * agg.payable) \div 100 + (3 * rate * (agg.ot_normal + agg.ot_night)) \div 2 + 3 * rate * agg.ot_holiday
      unpaid == (daily * Max2(0, 100 * StandardDays - agg.payable)) \div 100
      off   == compute_late_penalty(rs, daily) + unpaid + taken + (gross * Percent) \div 100 IN
  [gross |-> gross, unpaid |-> unpaid, deduction |-> off, net |-> gross - off]

compute_hourly_line(rs, taken) ==
  LET hours == bracket_hours_from_sessions(rs)
      gross == Total(LAMBDA c : (hours[c] * Rate * c) \div 10, DOMAIN hours)
      off   == compute_late_penalty(rs, 8 * Rate) + taken + (gross * Percent) \div 100 IN
  [gross |-> gross, deduction |-> off, net |-> gross - off]

-----------------------------------------------------------------------------
PayInit ==
  /\ days \in [Period -> DayInputs]
  /\ rows = [i \in Period |-> Row(days[i], i)]
  /\ later = [i \in Period |-> Row([days[i] EXCEPT !.in = IF @ = NoLog THEN @ ELSE @ + 1], i)]
  /\ input = [in |-> NoLog]
PaySpec == PayInit /\ [][UNCHANGED <<vars, days, rows, later>>]_<<vars, days, rows, later>>

\* A period whose days were all worked in full, or on approved leave, or both, is paid in full
\* and no more.
FullPeriodPaidInFull ==
  (\A i \in Period :
     \/ ApprovedLeave(days[i]) /\ ((days[i].in = NoLog /\ days[i].out = NoLog) \/ (~rows[i].need_review /\ Worked(rows, i)))
     \/ days[i].in # NoLog /\ days[i].in <= Shift.start /\ days[i].out = Shift.end)
  => summarize_work_sessions(rows).payable = 100 * Length

\* Where the coefficient changes within a span.
Changes(s) == {t \in (s[1] + 1)..(s[2] - 1) : CoeffAt(t) # CoeffAt(t - 1)}
HoursPaid(rs) == LET hours == bracket_hours_from_sessions(rs) IN Total(LAMBDA c : hours[c], DOMAIN hours)

\* The hours the hourly mode pays, laid out on the clock and cut into steps, are the hours that are
\* payable in the sessions that are not in review, and all but less than an hour after a change of
\* the coefficient are paid at their own.
BracketHoursKept ==
  /\ HoursPaid(rows) = Total(LAMBDA i : rows[i].ws.payable_regular + rows[i].ws.approved,
                            {i \in Period : ~rows[i].need_review /\ ~rows[i].absent})
  /\ \A i \in Period : \A s \in SessionSpans(rows, i) :
       LET split == split_hours_by_bracket(s[1], s[2])  off == (Hour - 1) * Cardinality(Changes(s)) IN
       \A c \in DOMAIN split :
         LET exact == Cardinality({t \in s[1]..(s[2] - 1) : CoeffAt(t) = c}) IN
         split[c] \in (exact - off)..(exact + off)

\* Day i can be compared with one on which the employee came a tick later.
Comparable(i, moved) ==
  /\ days[i].leave = "None" /\ days[i].in # NoLog /\ days[i].in < days[i].out
  /\ \A j \in Period : ~rows[j].need_review /\ ~moved[j].need_review
\* Who comes a tick later is paid no more by the month and for no more hours, whatever the bands, the
\* rounding to days, the penalties and the overtime lost, unless it is a day of leave or HR has days
\* to review; and no more by the hour when all of a span is of one coefficient.
LaterPaysNoMore ==
  \A i \in Period : LET moved == [rows EXCEPT ![i] = later[i]] IN
    Comparable(i, moved) =>
      /\ compute_line(moved, 0).net <= compute_line(rows, 0).net
      /\ HoursPaid(moved) <= HoursPaid(rows)
      /\ (\A s \in SessionSpans(rows, i) : Changes(s) = {})
         => compute_hourly_line(moved, 0).net <= compute_hourly_line(rows, 0).net
\* Refuted.  Nor by the hour in any case: the steps are counted from the start of the span, and one who
\* comes later may begin a step after the change of the coefficient instead of before it.
LaterPaysNoMoreAnyhow ==
  \A i \in Period : LET moved == [rows EXCEPT ![i] = later[i]] IN
    Comparable(i, moved) => compute_hourly_line(moved, 0).net <= compute_hourly_line(rows, 0).net

\* Refuted.  "extra_leave_days(days) adds approved leave days that have NO Work Session at all": one on
\* leave who comes and goes outside the shift is paid the day twice.
DaysPaidOnce == summarize_work_sessions(rows).payable <= 100 * Length
\* Refuted.  "approved non-LWP leave days"
OnlyApprovedLeavePays ==
  summarize_work_sessions(rows).payable <= 100 * Cardinality({i \in Period : Worked(rows, i) \/ ApprovedLeave(days[i])})
\* Refuted.  "need_review rows contribute NOTHING"
ReviewPaysNothing ==
  (\A i \in Period : rows[i].need_review /\ ~LeaveDay(rows, i)) => build_monthly_agg(rows).payable = 0
\* Refuted.  "overtime_hours (sum of all OT types)"
OvertimeCountedOnce ==
  LET agg == aggregate_work_sessions(rows) IN
  agg.ot_normal + agg.ot_night + agg.ot_holiday = Total(LAMBDA i : rows[i].ws.pre + rows[i].ws.post, Period)
\* Refuted.  "OT must be approved"
OnlyApprovedOvertime ==
  LET agg == aggregate_work_sessions(rows) IN
  agg.ot_normal + agg.ot_night + agg.ot_holiday <= summarize_work_sessions(rows).overtime
\* Refuted.  Hours are split where the brackets meet.
BracketsExact ==
  \A i \in Period : \A s \in SessionSpans(rows, i) : \A c \in DOMAIN split_hours_by_bracket(s[1], s[2]) :
    split_hours_by_bracket(s[1], s[2])[c] = Cardinality({t \in s[1]..(s[2] - 1) : CoeffAt(t) = c})
=============================================================================
