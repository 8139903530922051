---------------------------- MODULE MCAttendance ----------------------------
(* Attendance for TLC and for the proofs: an instance under names of its own, and what the run checks of it. *)
EXTENDS Naturals, TLC

CONSTANTS Shifts, Begins, Ends, Cap, Times, Punches, Taps, Callers, LockedDays, Stories, AtOnce
VARIABLES now, punch, session, newer, counted, queue, taps, leave, attendance, noshow, locked, inflight, ops

At == INSTANCE Attendance WITH
  Sessions <- Shifts, Start <- Begins, End <- Ends, Requests <- Callers, MaxInFlight <- AtOnce, req <- inflight

ASSUME ShiftNumbers == At!ShiftPlan

AttendanceSpec == At!Spec

\* A night shift from 20:00 to 08:00 and the day shift that follows it at once.
NightStart == 1 :> 20 @@ 2 :> 32
NightEnd   == 1 :> 32 @@ 2 :> 44
\* Two night shifts.
NightsStart == 1 :> 20 @@ 2 :> 44
NightsEnd   == 1 :> 32 @@ 2 :> 56

Symmetry == Permutations(Callers)

OneAfterAnother == {"alone", "device", "delete", "recalc", "heal", "lost", "absent"}
Tapping == {"tap", "recalc", "heal", "approve", "crash"}
Overlap == {"device", "recalc", "heal", "period"}
Desk    == {"alone", "create", "autoclose", "recalc", "leave", "approve", "delete"}
Marks   == {"alone", "create", "recalc", "mark", "lock", "manual"}
Holes   == {"alone", "quiet", "update", "recalc"}
AllStories == {OneAfterAnother, Tapping, Overlap, Desk, Marks, Holes}
ManualOnly == {{"alone", "create", "recalc", "manual"}}
HandoverOnly == {{"alone", "device", "recalc", "heal", "lost"}}
LeaveOnly  == {{"alone", "leave", "period"}}

\* A third punch in the longest stories only.
TwoPunches == ops \notin {OneAfterAnother, Tapping} => punch[3] = At!NoRow

-----------------------------------------------------------------------------
(* What the run checks. *)

\* What a tap makes: one punch, however often it is sent, and never an out at the time of
\* the in.  With the types.
TapsKept == At!TapsKept

\* Once nothing runs, waits or is due for healing, a calculated session shows the punches.
CurrentWhenQuiet == At!CurrentWhenQuiet

\* A session that shows an IN is not absent.
AbsentHasNoIn == At!AbsentHasNoIn

\* A punch that a session was calculated with, and that is still there, is never left out by
\* a later save: an older calculation does not replace a newer one.
NeverUncounted == At!NeverUncounted
=============================================================================
