------------------------------- MODULE WorkDay -------------------------------
(***************************************************************************)
(* What the engine makes of the punches of one shift: the figures of the     *)
(* work session and its segments.  Time is counted in ticks from the         *)
(* midnight before the shift; a time of the clock is a tick of a day.        *)
(*                                                                          *)
(* The state is one input, chosen at the start; the properties compare what  *)
(* is computed from it along different ways.                                 *)
(***************************************************************************)
EXTENDS Integers, FiniteSets, FiniteSetsExt

CONSTANTS
  Day,       \* ticks of a day
  Shifts,    \* start, end, and whether overtime before and after it counts
  Policies,
  Bands,     \* night bands: from and to, on the clock
  Holidays,  \* sets of days
  Requests,  \* sets of approved overtime requests: name (a number), from, to
  Step,      \* ticks between two looks at a window of overtime
  Grain,     \* parts of a tick in which requests are credited: as small as the looks need
  Leaves     \* hundredths of a day of an approved leave; 0: none

VARIABLE input
vars == <<input>>

NoLog == -1
Max2(a, b) == IF a > b THEN a ELSE b
Min2(a, b) == IF a < b THEN a ELSE b
hours_between(a, b) == Max2(0, b - a)

-----------------------------------------------------------------------------
(* Splits of a span [a, b). *)

_split_by_midnight(a, b) ==
  IF b <= a THEN {}
  ELSE {[from |-> Max2(a, d * Day), to |-> Min2(b, (d + 1) * Day), day |-> d] : d \in (a \div Day)..((b - 1) \div Day)}

\* One turn of the loop, which makes at most ten.
NightTurn(s, b, band) ==
  LET day   == s.cursor \div Day
      start == day * Day + band[1]
      end   == (IF band[1] >= band[2] THEN day + 1 ELSE day) * Day + band[2]
      upTo(t, night) == [cursor |-> Min2(b, t),
                         spans  |-> s.spans \cup {[from |-> s.cursor, to |-> Min2(b, t), night |-> night]}] IN
  CASE s.cursor >= b    -> s
    [] s.cursor < b /\ s.cursor < start -> upTo(start, FALSE)
    [] s.cursor < b /\ s.cursor >= start /\ s.cursor < end -> upTo(end, TRUE)
    [] OTHER -> s
split_by_night(a, b, band) ==
  LET turn[i \in 0..10] == IF i = 0 THEN [cursor |-> a, spans |-> {}] ELSE NightTurn(turn[i - 1], b, band)
  IN turn[10].spans

_split_night_holiday(a, b, band, holidays) ==
  UNION {{[from |-> h.from, to |-> h.to, night |-> n.night, holiday |-> h.day \in holidays]
            : h \in _split_by_midnight(n.from, n.to)} : n \in split_by_night(a, b, band)}

-----------------------------------------------------------------------------
(* Overtime. *)

\* Mutant: not clamped.
calculate_overlap(a, b, c, d) == hours_between(Max2(a, c), Min2(b, d))

match_overtime_request(windows, reqs) ==
  MapThenSumSet(LAMBDA x : calculate_overlap(x[1].from, x[1].to, x[2].from, x[2].to), windows \X reqs)

\* n / d, halves to the even number.
round(n, d) ==
  LET q == n \div d  rest == 2 * (n % d) IN IF rest > d \/ (rest = d /\ q % 2 = 1) THEN q + 1 ELSE q
Looks(w) == Max2(1, round(w.to - w.from, Step))
Part(w) == (Grain * (w.to - w.from)) \div Looks(w)

\* Request q covers the middle of part i of window w.
CoversLook(q, w, i) ==
  LET point == 2 * Looks(w) * w.from + (2 * i + 1) * (w.to - w.from)
  IN  2 * Looks(w) * q.from <= point /\ point <= 2 * Looks(w) * q.to

\* A window is cut into equal parts of about a step; a part is credited to the first request
\* that covers its middle.
match_overtime_request_detailed(windows, reqs) ==
  LET looks(w) == 0..(Looks(w) - 1)
      covering(w, i) == {q.name : q \in {r \in reqs : CoversLook(r, w, i)}}
      first(w, i) == IF covering(w, i) = {} THEN {} ELSE {Min(covering(w, i))}
  IN  [n \in {q.name : q \in reqs} |->
         MapThenSumSet(LAMBDA w : Cardinality({i \in looks(w) : n \in first(w, i)})
                                  * Part(w), windows)]

\* Half up.
round_overtime(h, pol) ==
  CASE pol.rounding = "No Rounding" -> h
    [] pol.rounding = "Nearest" -> ((2 * h + pol.unit) \div (2 * pol.unit)) * pol.unit
    [] pol.rounding = "Up to"   -> ((h + pol.unit - 1) \div pol.unit) * pol.unit

\* Late first, then early: what is made up for is taken from the overtime.
Compensated(allowed, minutes, overtime) == IF allowed THEN Min2(minutes, overtime) ELSE 0

\* Mutant: whoever is late gets all of the grace.
GraceFlat(late, grace) == IF late > 0 THEN grace ELSE 0
GraceCredit(late, grace) == Min2(late, grace)

-----------------------------------------------------------------------------
(* Ticks of work that make a full day, and twice those that make half of one. *)

payable_thresholds(pol, shift) ==
  LET cap == IF shift > pol.tolerance THEN shift - pol.tolerance ELSE shift IN
  IF shift <= 0 THEN [full |-> pol.full, half2 |-> 2 * pol.half]
  ELSE [full |-> Min2(pol.full, cap), half2 |-> Min2(2 * pol.half, shift)]

\* In hundredths of a day.
calculate_payable_day(payable, shift, pol, leave) ==
  LET need == payable_thresholds(pol, shift) IN
  CASE leave > 0 -> leave
    [] leave = 0 /\ pol.perMinute /\ shift > 0 -> Min2(100, (200 * payable + shift) \div (2 * shift))
    [] OTHER -> IF payable >= need.full /\ need.full > 0 THEN 100
                ELSE IF 2 * payable >= need.half2 /\ need.half2 > 0 THEN 50 ELSE 0

\* Of a shift sh, the first IN and the last OUT.
calculate_work_session(sh, in, out, pol, reqs, leave) ==
  LET hasIn    == in # NoLog
      hasOut   == out # NoLog
      inverted == hasIn /\ hasOut /\ out < in
      safeIn   == IF hasIn THEN in ELSE sh.start
      safeOut  == IF hasOut THEN out ELSE sh.start
      late0    == IF hasIn THEN Max2(0, hours_between(sh.start, in) - pol.graceLate) ELSE 0
      early0   == IF hasOut THEN Max2(0, hours_between(out, sh.end) - pol.graceEarly) ELSE 0
      length   == hours_between(sh.start, sh.end)
      regular  == Min2(length, hours_between(Max2(safeIn, sh.start), Min2(safeOut, sh.end)))
      pre      == IF sh.pre /\ hasIn /\ in < sh.start THEN sh.start - in ELSE 0
      post     == IF sh.post /\ hasOut /\ out > sh.end THEN out - sh.end ELSE 0
      compLate == Compensated(pol.compLate, late0, pre + post)
      compEarly == Compensated(pol.compEarly, early0, pre + post - compLate)
      raw      == pre + post - compLate - compEarly
      payableRaw == IF raw < pol.minOvertime THEN 0 ELSE raw
      windows  == (IF pre > 0 THEN {[from |-> in, to |-> sh.start]} ELSE {})
                    \cup (IF post > 0 THEN {[from |-> sh.end, to |-> out]} ELSE {})
      approved == IF pol.approval THEN Min2(match_overtime_request(windows, reqs), payableRaw) ELSE payableRaw
      grace    == IF hasIn /\ hasOut /\ ~inverted /\ regular > 0
                  THEN GraceCredit(hours_between(sh.start, in), pol.graceLate) ELSE 0
      payable  == Min2(length, regular + grace) IN
  [in |-> in, out |-> out, planned_start |-> sh.start, planned_end |-> sh.end,
   scheduled |-> length, regular |-> regular, pre |-> pre, post |-> post, raw |-> raw,
   comp_late |-> compLate, comp_early |-> compEarly,
   late |-> late0 - compLate, early |-> early0 - compEarly,
   approved |-> round_overtime(approved, pol), windows |-> windows,
   breakdown |-> match_overtime_request_detailed(windows, reqs),
   need_review |-> \/ ~hasIn \/ ~hasOut \/ inverted
                   \/ hours_between(safeIn, safeOut) > pol.maxTotal \/ raw > pol.maxOvertime,
   payable_regular |-> payable, payable_day |-> calculate_payable_day(payable, length, pol, leave)]

\* Mutant: without an OUT the regular time runs to the end of the shift.
RegularToTheEnd(ws) ==
  [from |-> Max2(ws.in, ws.planned_start), to |-> IF ws.out = NoLog THEN ws.planned_end ELSE Min2(ws.out, ws.planned_end)]
RegularSpan(ws) ==
  [from |-> Max2(ws.in, ws.planned_start), to |-> IF ws.out = NoLog THEN NoLog ELSE Min2(ws.out, ws.planned_end)]
Segment(type, s) == [type |-> type, from |-> s.from, to |-> s.to, night |-> s.night, holiday |-> s.holiday]
generate_segments(ws, band, holidays) ==
  LET split(a, b) == IF a < b THEN _split_night_holiday(a, b, band, holidays) ELSE {}
      plain(type, a, b) == [type |-> type, from |-> a, to |-> b, night |-> FALSE, holiday |-> FALSE] IN
  UNION {{Segment("OT", s) : s \in split(w.from, w.to)} : w \in ws.windows}
    \cup {Segment("Regular", s) : s \in split(RegularSpan(ws).from, RegularSpan(ws).to)}
    \cup (IF ws.late > 0 THEN {plain("Late", ws.planned_start, ws.planned_start + ws.late)} ELSE {})
    \cup (IF ws.early > 0 /\ ws.out # NoLog THEN {plain("Early Leave", ws.out, ws.planned_end)} ELSE {})

\* As kept in the session: the night of a holiday is in both of two figures.
_sum_night_hours(segments, type, kinds) ==
  MapThenSumSet(LAMBDA s : s.to - s.from, {s \in segments : s.type = type /\ <<s.night, s.holiday>> \in kinds})
OvertimeFigures(segments) ==
  [regular_night |-> _sum_night_hours(segments, "Regular", {TRUE} \X BOOLEAN),
   normal  |-> _sum_night_hours(segments, "OT", {<<FALSE, FALSE>>}),
   night   |-> _sum_night_hours(segments, "OT", {TRUE} \X BOOLEAN),
   holiday |-> _sum_night_hours(segments, "OT", BOOLEAN \X {TRUE})]

-----------------------------------------------------------------------------
Init ==
  \E in, out \in {NoLog} \cup 0..(2 * Day), sh \in Shifts, pol \in Policies, band \in Bands,
     holidays \in Holidays, reqs \in Requests, leave \in Leaves :
    input = [in |-> in, out |-> out, sh |-> sh, pol |-> pol, band |-> band, holidays |-> holidays,
             reqs |-> reqs, leave |-> leave]
Spec == Init /\ [][UNCHANGED vars]_vars

Session == calculate_work_session(input.sh, input.in, input.out, input.pol, input.reqs, input.leave)
Segments == generate_segments(Session, input.band, input.holidays)

\* A night band within the day ends the split: what follows it on the day the span begins, and
\* after that day, is in no segment.
Lost(s) ==
  IF input.band[1] >= input.band[2] THEN 0
  ELSE hours_between(Max2(s.from, (s.from \div Day) * Day + input.band[2]), s.to)
\* The segments, split at midnights and at the ends of the night, add up to the hours that are
\* computed from the ends of the spans alone, but for what is lost after a band within the day:
\* whatever is missing, inverted or across midnight.
SegmentsAddUp ==
  LET ws == Session  segments == generate_segments(ws, input.band, input.holidays) IN
  /\ _sum_night_hours(segments, "Regular", BOOLEAN \X BOOLEAN) = ws.regular - Lost(RegularSpan(ws))
  /\ _sum_night_hours(segments, "OT", BOOLEAN \X BOOLEAN) = ws.pre + ws.post - MapThenSumSet(Lost, ws.windows)
\* Refuted.  Every hour is in a segment: "cursor >= night_end ... next day's band", which the loop does
\* not get to when the band ends on the day of the cursor.
NothingLost ==
  _sum_night_hours(Segments, "Regular", BOOLEAN \X BOOLEAN) = Session.regular

\* Who comes a tick later, or leaves a tick earlier, is not paid more for it.
MoreWorkPaysNoLess ==
  LET with(in, out) == calculate_work_session(input.sh, in, out, input.pol, input.reqs, input.leave).payable_day IN
  (input.in # NoLog /\ input.out # NoLog /\ input.in + 1 <= input.out) =>
    /\ with(input.in + 1, input.out) <= Session.payable_day
    /\ with(input.in, input.out - 1) <= Session.payable_day

Overlapping == \E q, r \in input.reqs : q # r /\ calculate_overlap(q.from, q.to, r.from, r.to) > 0
Credited(ws) == MapThenSumSet(LAMBDA n : ws.breakdown[n], DOMAIN ws.breakdown)
\* Windows and requests begin and end a number of steps from one another.
OnSteps(windows) ==
  \A w \in windows : (w.to - w.from) % Step = 0
    /\ \A q \in input.reqs : (q.from - w.from) % Step = 0 /\ (q.to - w.from) % Step = 0
\* The requests are never credited with more than was worked, though they overlap.  When no two of
\* them do, each is credited with the overtime it covers to within one part of each window, and with all
\* of it and no more when everything lies on steps.
ApprovedIsCredited ==
  LET ws == Session
      off == MapThenSumSet(LAMBDA w : Part(w), ws.windows) IN
  /\ Credited(ws) <= Grain * (ws.pre + ws.post)
  /\ ~Overlapping => \A q \in input.reqs :
       LET covered == Grain * match_overtime_request(ws.windows, {q}) IN
       /\ ws.breakdown[q.name] \in (covered - off)..(covered + off)
       /\ OnSteps(ws.windows) => ws.breakdown[q.name] = covered
\* Refuted.  "The summed values always equal match_overtime_request over the same inputs."
SumsEqual == LET ws == Session IN Grain * match_overtime_request(ws.windows, input.reqs) = Credited(ws)

\* Refuted: a span that starts after midnight.
NightIsNight ==
  \A s \in Segments : s.type \in {"OT", "Regular"} => \A t \in s.from..(s.to - 1) :
    s.night <=> (t % Day >= input.band[1] \/ t % Day < input.band[2])
=============================================================================
