------------------------------ MODULE TapScreen ------------------------------
(***************************************************************************)
(* What the check-in screen shows an employee and what his tap then does:    *)
(* the button, the state of his session, the type of the log and the shift   *)
(* the tap is measured by.  Each is derived from punches, assignments and    *)
(* the clock in its own way; the properties compare them.                    *)
(*                                                                          *)
(* The state is one moment, chosen at the start.  Time is counted in ticks;  *)
(* day d has the ticks from Day * d on.  GPS, tickets of company computers   *)
(* and gamification are left out; a second tap is in Attendance.             *)
(***************************************************************************)
EXTENDS Integers, Sequences, FiniteSets, FiniteSetsExt

CONSTANTS
  Day,                      \* ticks of a day
  EarliestIn, LatestIn,     \* vn_earliest_checkin_minutes, vn_latest_checkin_minutes
  EarliestOut, LatestOut,   \* vn_earliest_checkout_minutes, vn_max_checkout_after_end_minutes
  Buffer                    \* vn_cm_buffer_minutes
VARIABLE moment
vars == <<moment>>

(* A moment: now; punches, the logs so far [time, type]; assignments, the sequence of those that are active, the
latest changed first [from, start, end] (start and end on the clock); locked, the days that are. *)
day(m) == m.now \div Day
NoShift == [work |-> -1]

_checkins_for(m, d) == {p \in m.punches : p.time \div Day = d}
Of(P, type) == {p.time : p \in {q \in P : q.type = type}}

\* The end date of an assignment is not read.
_today_shift(m, d) ==
  LET on == SelectSeq(m.assignments, LAMBDA a : a.from <= d) IN
  IF on = <<>> THEN NoShift
  ELSE LET a == Head(on) IN
       [work |-> d, start |-> Day * d + a.start,
        end |-> Day * (IF a.end <= a.start THEN d + 1 ELSE d) + a.end]

-----------------------------------------------------------------------------
(* The button. *)

\* Mutant: all punches of the day.
AllOfDay(shift, P) == P
_punches_in_shift_window(shift, P) == {p \in P : p.time >= shift.start - EarliestIn}

_derive_button_state(m) ==
  LET shift == _today_shift(m, day(m))
      P     == IF shift = NoShift THEN {} ELSE _punches_in_shift_window(shift, _checkins_for(m, day(m)))
      in    == Of(P, "IN") # {}
      out   == Of(P, "OUT") # {} IN
  CASE shift = NoShift -> "NO_SHIFT"
    [] shift # NoShift /\ day(m) \in m.locked -> "LOCKED"
    [] shift # NoShift /\ day(m) \notin m.locked ->
         CASE in /\ out -> "CHECKED_OUT"
           [] in /\ ~out -> IF m.now >= shift.start THEN "CAN_CHECK_OUT" ELSE "CHECKED_IN"
           [] ~in -> IF m.now < shift.start - EarliestIn THEN "BEFORE_WINDOW" ELSE "CAN_CHECK_IN"

\* The newest log of yesterday and today; the order of two at the same time is not told.
Recent(m) == _checkins_for(m, day(m)) \cup _checkins_for(m, day(m) - 1)
Newest(P) == {p \in P : \A q \in P : q.time <= p.time}
decide_log_type(P) == IF \E p \in Newest(P) : p.type = "IN" THEN "OUT" ELSE "IN"

\* An open session of yesterday offers the check-out before the window of today opens.
today_status(m) ==
  LET button == _derive_button_state(m) IN
  IF button \in {"BEFORE_WINDOW", "CAN_CHECK_IN"} /\ decide_log_type(Recent(m)) = "OUT" THEN "CAN_CHECK_OUT" ELSE button

-----------------------------------------------------------------------------
(* The session on the screen, of the punches of the day. *)

_first_in_last_out(P) ==
  [in |-> IF Of(P, "IN") = {} THEN -1 ELSE Min(Of(P, "IN")), out |-> IF Of(P, "OUT") = {} THEN -1 ELSE Max(Of(P, "OUT"))]
_status_key(m, x, shift) ==
  CASE x.in >= 0 /\ x.out >= 0 -> "completed"
    [] x.in < 0 -> "not_started"
    [] x.in >= 0 /\ x.out < 0 /\ m.now > shift.end -> "missing_checkout"
    [] OTHER -> IF x.in < shift.start THEN "early" ELSE IF x.in = shift.start THEN "on_time" ELSE "late"
_session_context(m) ==
  LET shift == _today_shift(m, day(m))
      x     == _first_in_last_out(_checkins_for(m, day(m)))
      positive(n) == Max({0, n}) IN
  [key |-> _status_key(m, x, shift),
   elapsed |-> IF x.in < 0 THEN 0 ELSE IF x.out < 0 THEN positive(m.now - x.in) ELSE positive(x.out - x.in),
   remaining |-> CASE x.in >= 0 /\ x.out < 0 -> positive(shift.end - m.now)
                   [] x.in >= 0 /\ x.out >= 0 -> 0
                   [] x.in < 0 -> shift.end - shift.start,
   overtime |-> IF x.out < 0 THEN 0 ELSE positive(x.out - shift.end),
   early |-> IF x.out < 0 THEN 0 ELSE positive(shift.end - x.out)]

-----------------------------------------------------------------------------
(* The tap. *)

\* Sessions that the tap closes first: of an earlier shift, with an IN and no OUT, past the end and the buffer.
Forgotten(m) ==
  {s \in {_today_shift(m, d) : d \in (day(m) - 2)..day(m)} \ {NoShift} :
     /\ m.now > s.end + Buffer
     /\ \E i \in Of(m.punches, "IN") : i >= s.start - EarliestIn /\ i < s.end
          /\ \A o \in Of(m.punches, "OUT") : ~(i < o /\ o <= s.end + LatestOut)}
auto_close_missed_checkouts(m) ==
  [m EXCEPT !.punches = @ \cup {[time |-> s.end, type |-> "OUT"] : s \in Forgotten(m)}]

\* The shift a tap is measured by: an OUT by the shift of yesterday if that ends today.
violation_shift(m, type) ==
  LET shift == _today_shift(m, day(m))
      prev  == _today_shift(m, day(m) - 1) IN
  IF shift # NoShift /\ type = "OUT" /\ prev # NoShift /\ prev.end \div Day >= day(m) THEN prev ELSE shift
_window_violation(shift, type, at) ==
  CASE shift = NoShift -> "None"
    [] shift # NoShift /\ type = "IN" ->
         IF at - shift.start > LatestIn THEN "Late Check-in"
         ELSE IF shift.start - at > EarliestIn THEN "Early Check-in (OT)" ELSE "None"
    [] shift # NoShift /\ type = "OUT" ->
         IF shift.end - at > EarliestOut THEN "Early Check-out"
         ELSE IF at - shift.end > LatestOut THEN "Late Check-out (OT)" ELSE "None"

\* What a tap makes: the type of its log, and the explanation that it needs.
Refused == [type |-> "Refused", explain |-> "None", selfheal |-> FALSE]
mobile_checkin(m) ==
  LET n     == auto_close_missed_checkouts(m)
      shift == _today_shift(n, day(n))
      type  == decide_log_type(Recent(n))
      P     == IF shift = NoShift THEN _checkins_for(n, day(n)) ELSE _punches_in_shift_window(shift, _checkins_for(n, day(n))) IN
  IF day(n) \in n.locked THEN Refused
  ELSE [type |-> type, explain |-> _window_violation(violation_shift(n, type), type, n.now),
        selfheal |-> type = "IN" /\ Of(P, "OUT") # {} /\ Of(P, "IN") = {}]

-----------------------------------------------------------------------------
(* Properties.  A moment without a forgotten session: the screen does not close sessions, the tap does. *)

Quiet == Forgotten(moment) = {}
Shift == _today_shift(moment, day(moment))
Before == {p \in _checkins_for(moment, day(moment)) : p.time < Shift.start - EarliestIn}

\* What the button offers is what the tap does (today_status, mobile_checkin), over midnight too.
OfferedIsTaken ==
  Quiet => /\ today_status(moment) = "CAN_CHECK_IN" => mobile_checkin(moment).type = "IN"
           /\ today_status(moment) = "CAN_CHECK_OUT" => mobile_checkin(moment).type = "OUT"
           /\ today_status(moment) = "LOCKED" => mobile_checkin(moment) = Refused
\* A session that is open can be closed: the button offers it, or will when the shift begins, unless the employee has
\* already been out once in the window of today (the screen then says that he is done).
OpenIsOffered ==
  Shift # NoShift /\ day(moment) \notin moment.locked /\ decide_log_type(Recent(moment)) = "OUT"
    /\ Of(_checkins_for(moment, day(moment)) \ Before, "OUT") = {}
    => today_status(moment) \in {"CAN_CHECK_OUT", "CHECKED_IN"}
\* The session of the screen is in the state of the button, on a day without a punch before the window of its shift.
ScreenIsOneState ==
  LET button == _derive_button_state(moment) IN
  Shift # NoShift /\ button # "LOCKED" /\ Before = {} =>
    LET x == _session_context(moment) IN
    /\ x.key = "completed" <=> button = "CHECKED_OUT"
    /\ x.key = "missing_checkout" => button = "CAN_CHECK_OUT"
    /\ x.key = "not_started" <=> button \in {"BEFORE_WINDOW", "CAN_CHECK_IN"}
    /\ x.key \in {"early", "on_time", "late"} /\ button = "CAN_CHECK_OUT" => x.elapsed + x.remaining <= Shift.end - Shift.start + EarliestIn
\* An OUT is measured by the shift of its IN, but for an employee who comes and goes again on an evening after a night.
MeasuredByItsShift ==
  LET opened == Newest(Recent(moment))
      prev   == _today_shift(moment, day(moment) - 1) IN
  Shift # NoShift /\ Quiet /\ mobile_checkin(moment).type = "OUT" =>
    LET s == violation_shift(moment, "OUT") IN
    /\ (\A p \in opened : p.time \div Day < day(moment)) /\ prev.end \div Day >= day(moment) => s.work = day(moment) - 1
    /\ prev = NoShift \/ prev.end \div Day < day(moment) => s.work = day(moment)
ScreenMatchesTap == OfferedIsTaken /\ OpenIsOffered /\ ScreenIsOneState /\ MeasuredByItsShift
=============================================================================
