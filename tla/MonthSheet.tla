----------------------------- MODULE MonthSheet -----------------------------
(***************************************************************************)
(* What the screens make of a month of one employee: the monthly sheet with  *)
(* its totals and its review, the cells of the team's grid, the status of    *)
(* the day, and the days that are locked.  They are written apart from one   *)
(* another; the properties compare them.                                     *)
(*                                                                          *)
(* The state is one month, chosen at the start, and its days.  A day has four ticks and    *)
(* day d begins at tick 4 * d.  Days of leave and of work are counted in     *)
(* halves.  Reasons, explanations, badges and hours are left out.            *)
(***************************************************************************)
EXTENDS Integers, Sequences, FiniteSets, FiniteSetsExt, SequencesExt

CONSTANTS
  Days,    \* 1..N, the month
  Buffer   \* ticks an open session has after its planned end
VARIABLES month, sheet
vars == <<month, sheet>>

(* A month: now; join, left (0: none); assigned, whether there is a shift assignment; leaves, the sequence of approved
leaves [from, to, half, halfDay (0: not given), paid]; periods, the sequence of monthly periods, the newest first
[from, to, locked]; and of a day: sessions, the sequence of its sessions by planned start
[in, out, late, early, auto, end]; ticket, of a missed checkout; att, the submitted attendance [status, late]. *)
NoAtt == [status |-> "None", late |-> FALSE]
today(m) == m.now \div 4
Sum(f(_), S) == MapThenSumSet(f, S)

-----------------------------------------------------------------------------
(* The monthly sheet. *)

Buckets == {"le15", "16_30", "gt30"}
minute_bucket(n) ==
  CASE n <= 0 -> "None" [] n > 0 /\ n <= 15 -> "le15" [] n > 15 /\ n <= 30 -> "16_30" [] OTHER -> "gt30"

leave_fraction(l, d) ==
  IF l.half /\ (IF l.halfDay = 0 THEN l.from = l.to ELSE l.halfDay = d) THEN 1 ELSE 2

\* Of two leaves of a day the larger counts, and the first of two equal ones.
NoLeave == [paid |-> FALSE, fraction |-> 0]
leaves_by_date(m, d) ==
  LET on == SelectSeq(m.leaves, LAMBDA l : l.from <= d /\ d <= l.to) IN
  FoldLeft(LAMBDA best, l : IF best.fraction >= leave_fraction(l, d) THEN best
                            ELSE [paid |-> l.paid, fraction |-> leave_fraction(l, d)], NoLeave, on)

is_checkout_miss(ticket, auto, overdue) == ticket # "Waived" /\ (ticket # "None" \/ auto \/ overdue)
is_checkout_overdue(m, s, d) == s.in /\ ~s.out /\ m.now > 4 * d + s.end + Buffer

_on_roster(m) == m.assigned \/ \E d \in Days : m.day[d].sessions # <<>>

Status(m, d, punched, leave) ==
  CASE d < m.join -> "before_join"
    [] m.left # 0 /\ d > m.left -> "after_relieve"
    [] d >= m.join /\ ~(m.left # 0 /\ d > m.left) ->
         CASE leave.fraction > 0 -> IF leave.paid THEN "leave_paid" ELSE "leave_unpaid"
           [] leave.fraction = 0 /\ punched -> "worked"
           [] leave.fraction = 0 /\ ~punched /\ d >= today(m) -> "future"
           [] leave.fraction = 0 /\ ~punched /\ d < today(m) ->
                IF _on_roster(m) THEN "absent" ELSE "off_roster"

\* Absence of a half day of leave.  Mutant: of the whole day, as when there is no leave.
AbsentAll(half) == 2
AbsentRest(half) == 2 - half

build_day(m, d) ==
  LET punched == SelectSeq(m.day[d].sessions, LAMBDA s : s.in \/ s.out)
      at      == {punched[i] : i \in DOMAIN punched}
      here    == punched # <<>>
      leave   == leaves_by_date(m, d)
      status  == Status(m, d, here, leave)
      half    == IF status \in {"leave_paid", "leave_unpaid"} THEN leave.fraction ELSE 0
      counted == status \notin {"before_join", "after_relieve", "future", "off_roster"}
      minutes(n) == IF counted THEN n ELSE 0 IN
  [status |-> status, counted |-> counted, elapsed |-> counted /\ d <= today(m), leave |-> half, paid |-> leave.paid,
   worked |-> CASE status = "worked" -> 2 [] half = 1 /\ here -> 1 [] OTHER -> 0,
   absent |-> CASE status = "absent" -> 2 [] half = 1 /\ ~here /\ d < today(m) -> AbsentRest(half) [] OTHER -> 0,
   late  |-> minutes(FoldLeft(LAMBDA n, s : n + (IF s.in THEN s.late ELSE 0), 0, punched)),
   early |-> minutes(FoldLeft(LAMBDA n, s : n + (IF s.out THEN s.early ELSE 0), 0, punched)),
   checkout_miss |-> counted /\ is_checkout_miss(m.day[d].ticket, \E s \in at : s.auto,
                                                 \E s \in at : is_checkout_overdue(m, s, d)),
   checkin_miss |-> counted /\ \E s \in at : s.out /\ ~s.in]

_build_days(m) == [d \in Days |-> build_day(m, d)]
SheetInit == sheet = _build_days(month)

\* The totals of the days.
aggregate_month ==
  LET counted == {d \in Days : sheet[d].counted}
      late    == {d \in counted : sheet[d].late > 0}
      count(S) == Cardinality(S) IN
  [standard |-> count({d \in Days : sheet[d].status \notin {"before_join", "after_relieve", "off_roster"}}),
   elapsed  |-> count({d \in counted : sheet[d].elapsed}),
   worked   |-> Sum(LAMBDA d : sheet[d].worked, counted),
   absent   |-> Sum(LAMBDA d : sheet[d].absent, counted),
   paid     |-> Sum(LAMBDA d : IF sheet[d].paid THEN sheet[d].leave ELSE 0, counted),
   unpaid   |-> Sum(LAMBDA d : IF sheet[d].paid THEN 0 ELSE sheet[d].leave, counted),
   lateDays |-> count(late), lateMinutes |-> Sum(LAMBDA d : sheet[d].late, counted),
   buckets  |-> [b \in Buckets |-> count({d \in late : minute_bucket(sheet[d].late) = b})],
   checkout_miss |-> count({d \in counted : sheet[d].checkout_miss}),
   checkin_miss  |-> count({d \in counted : sheet[d].checkin_miss})]

-----------------------------------------------------------------------------
(* The review of the month: a section has its days as ranges. *)

\* Halves stand alone, whole days in a row are one range.
FlushRun(s) == IF s.run = <<>> THEN s.out ELSE Append(s.out, [from |-> Head(s.run), to |-> Last(s.run), half |-> FALSE])
compress_days(days) ==
  LET turn(s, x) ==
        CASE x.fraction < 2 -> [out |-> Append(FlushRun(s), [from |-> x.day, to |-> x.day, half |-> TRUE]), run |-> <<>>]
          [] x.fraction = 2 /\ s.run # <<>> /\ x.day = Last(s.run) + 1 -> [s EXCEPT !.run = Append(@, x.day)]
          [] OTHER -> [out |-> FlushRun(s), run |-> <<x.day>>]
  IN FlushRun(FoldLeft(turn, [out |-> <<>>, run |-> <<>>], days))

Section(of(_)) ==
  LET days == SetToSortSeq({d \in Days : sheet[d].counted /\ of(sheet[d]) > 0}, <) IN
  [i \in DOMAIN days |-> [day |-> days[i], fraction |-> of(sheet[days[i]])]]
review_items ==
  [forgot |-> {d \in Days : sheet[d].counted /\ (sheet[d].checkin_miss \/ sheet[d].checkout_miss)},
   late_early |-> {d \in Days : sheet[d].counted /\ (sheet[d].late > 0 \/ sheet[d].early > 0)},
   paid   |-> compress_days(Section(LAMBDA x : IF x.paid THEN x.leave ELSE 0)),
   unpaid |-> compress_days(Section(LAMBDA x : IF x.paid THEN 0 ELSE x.leave)),
   absent |-> compress_days(Section(LAMBDA x : x.absent))]

\* Whether the employee is among those with something to look at.
with_issues(t) == t.lateDays > 0 \/ t.checkout_miss > 0 \/ t.checkin_miss > 0 \/ t.absent > 0

-----------------------------------------------------------------------------
(* The grid and the list of a team: a cell is made of the last session of the day and of the attendance. *)

TheSession(m, d) == IF m.day[d].sessions = <<>> THEN {} ELSE {Last(m.day[d].sessions)}
Cell(status, s, miss) == [status |-> status, late |-> IF s = {} THEN 0 ELSE (CHOOSE x \in s : TRUE).late,
                          early |-> IF s = {} THEN 0 ELSE (CHOOSE x \in s : TRUE).early, checkout_miss |-> miss]
team_attendance(m, d) ==
  LET att  == m.day[d].att
      s    == TheSession(m, d)
      here == {x \in s : x.in \/ x.out}
      miss == is_checkout_miss(m.day[d].ticket, \E x \in s : x.auto, \E x \in s : is_checkout_overdue(m, x, d)) IN
  CASE \E i \in DOMAIN m.leaves : m.leaves[i].from <= d /\ d <= m.leaves[i].to -> Cell("On Leave", {}, FALSE)
    [] leaves_by_date(m, d) = NoLeave /\ att = NoAtt /\ s = {} -> Cell("Not marked", {}, FALSE)
    [] OTHER -> Cell(CASE \E x \in here : x.late > 0 -> "Late"
                       [] here = {} /\ att.late -> "Late"
                       [] OTHER -> IF att = NoAtt THEN "Present" ELSE att.status, here, miss)

\* The list of today reads the attendance first, the session of the latest making otherwise.
_team_member_status(m, d) ==
  LET att  == m.day[d].att
      s    == TheSession(m, d)
      late == att.late \/ \E x \in s : x.late > 0 IN
  CASE att.status \notin {"None", "Present"} -> att.status
    [] att = NoAtt /\ s # {} /\ leaves_by_date(m, d) # NoLeave -> "On Leave"
    [] att = NoAtt /\ (s = {} \/ leaves_by_date(m, d) = NoLeave) /\ (\A x \in s : ~x.in) -> "Not Checked In"
    [] OTHER -> IF late THEN "Late" ELSE "Present"

-----------------------------------------------------------------------------
(* Locks: of one day, of the days of the sheet and the grid, of the month of the employee's own page. *)

_is_date_locked(m, d) == \E i \in DOMAIN m.periods : m.periods[i].locked /\ m.periods[i].from <= d /\ d <= m.periods[i].to
\* Mutant: only the first period is looked at, as for the month.
LockedByFirst(m) ==
  IF m.periods # <<>> /\ Head(m.periods).locked
  THEN {d \in Days : Head(m.periods).from <= d /\ d <= Head(m.periods).to} ELSE {}
_locked_days_between(m) ==
  LET over == {i \in DOMAIN m.periods : m.periods[i].locked} IN
  UNION {Max({m.periods[i].from, Min(Days)})..Min({m.periods[i].to, Max(Days)}) : i \in over}
Overlapping(m) == SelectSeq(m.periods, LAMBDA p : p.from <= Max(Days) /\ p.to >= Min(Days))
my_month_meta(m) == Overlapping(m) # <<>> /\ Head(Overlapping(m)).locked

-----------------------------------------------------------------------------
(* Properties. *)

\* A day that is over is accounted for, once: it is worked, on leave or absent, also in halves; no other day is more
\* than a day; and the totals of the month are those of its days (utils/month_sheet.py build_day, aggregate_month).
SheetAddsUp ==
  LET Totals == aggregate_month IN
  /\ \A d \in Days : LET x == sheet[d] IN
       /\ x.counted /\ d < today(month) => x.worked + x.absent + x.leave = 2
       /\ x.worked + x.absent + x.leave \in 0..2
       /\ x.status = "absent" => d < today(month) /\ _on_roster(month)
  /\ Totals.worked + Totals.absent + Totals.paid + Totals.unpaid <= 2 * Totals.standard
  /\ 2 * Totals.elapsed <= Totals.worked + Totals.absent + Totals.paid + Totals.unpaid
       + (IF today(month) \in Days THEN 1 ELSE 0)
  /\ Totals.lateDays = Sum(LAMBDA b : Totals.buckets[b], Buckets)

\* The ranges of the review are the days of the totals (review_items, compress_days), and whoever has a section other
\* than leave or an early exit is counted among those with issues.
Span(r) == IF r.half THEN 1 ELSE 2 * (r.to - r.from + 1)
Counted(rs) == FoldLeft(LAMBDA n, r : n + Span(r), 0, rs)
ReviewAgrees ==
  LET r == review_items
      Totals == aggregate_month IN
  /\ Counted(r.paid) = Totals.paid /\ Counted(r.unpaid) = Totals.unpaid /\ Counted(r.absent) = Totals.absent
  /\ \A rs \in {r.paid, r.unpaid, r.absent} : \A i \in 1..(Len(rs) - 1) :
       rs[i].to < rs[i + 1].from /\ (rs[i].half \/ rs[i + 1].half \/ rs[i].to + 1 < rs[i + 1].from)
  /\ (r.forgot # {} \/ r.absent # <<>>) => with_issues(Totals)

\* A checkout is missed on the grid if and only if it is on the sheet, for a working day with one session at most, and
\* none for a ticket (utils/month_sheet.py is_checkout_miss: one rule for the sheet, the grid and the tiles).
OneMissRule ==
  \A d \in Days :
    LET x == sheet[d]
        n == Len(month.day[d].sessions) IN
    x.counted /\ x.leave = 0 /\ n <= 1 /\ (n = 0 => month.day[d].ticket = "None") =>
      /\ team_attendance(month, d).checkout_miss = x.checkout_miss
      /\ team_attendance(month, d).late = x.late
\* The locks of the days are the same wherever they are read (attendance.py _is_date_locked, _locked_days_between).
LocksAgree == _locked_days_between(month) = {d \in Days : _is_date_locked(month, d)}
SheetsAgree == SheetAddsUp /\ ReviewAgrees /\ OneMissRule /\ LocksAgree

\* Refuted by the code: a day without attendance whose session is late is "Late" on the grid and counted by no chip
\* (attendance.py:3077-3083), and a member on approved leave without attendance is "Not Checked In" in the list.
ListAgreesWithGrid ==
  \A d \in Days : team_attendance(month, d).status = "On Leave" => _team_member_status(month, d) = "On Leave"
=============================================================================
